------------------------------ MODULE MC_Values -----------------------------
(***************************************************************************)
(* A value on its way through generated code: it is converted, cleaned,    *)
(* left with arbitrary higher order bits, an operand of expressions, kept  *)
(* in memory and in storage, and passed to another contract and back.      *)
(* `value` is what it is in Solidity, `stack` how the code represents it.  *)
(***************************************************************************)
EXTENDS ExpressionCompiler

CONSTANTS ValueTypes,       \* the types converted between
          Literals,         \* types of literals: where values come from
          Operands,         \* what it meets in an expression: [type, value, word]
          OperatedTypes,    \* the types it has then
          Neighbours        \* the word of storage that is written into

VARIABLES type, stack, value,
          status,           \* how the code ended that ran last
          fails,            \* has it to end in an exception
          slot

vars == <<type, stack, value, status, fails, slot>>

-----------------------------------------------------------------------------
(* The values of a type, and how the stack represents them *)

Wrapped(v, bits, signed) ==
  LET low == v % 2^bits IN IF signed /\ low >= 2^(bits - 1) THEN low - 2^bits ELSE low

Denoted(t, s) ==
  CASE t.cat = "Integer" -> Wrapped(s[1], t.bits, t.signed)
    [] t.cat \in {"Address", "Contract"} -> s[1] % 2^AddressBits
    [] t.cat = "FixedBytes" -> s[1] \div 2^(WordBits - t.bytes * ByteBits)
    [] t.cat = "Bool" -> Truth(s[1] # 0)
    [] t.cat = "Enum" -> s[1]
    [] IsExternalFunction(t) -> <<s[1] % 2^SelectorBits, s[2] % 2^AddressBits>>

Represented(t, v) ==
  CASE t.cat = "FixedBytes" -> <<v * 2^(WordBits - t.bytes * ByteBits)>>
    [] IsExternalFunction(t) -> v
    [] OTHER -> <<Unsigned(v)>>

\* What a conversion makes of a value: it wraps around, cuts bytes off on the right or
\* fills them with zeros, and takes of a function its address.
ConvertedValue(t, to, v) ==
  CASE to.cat = "Integer" -> Wrapped(v, to.bits, to.signed)
    [] to.cat \in {"Address", "Contract"} -> IF IsExternalFunction(t) THEN v[2] ELSE v % 2^AddressBits
    [] to.cat = "FixedBytes" /\ t.cat = "FixedBytes" ->
         IF to.bytes >= t.bytes THEN v * 2^((to.bytes - t.bytes) * ByteBits) ELSE v \div 2^((t.bytes - to.bytes) * ByteBits)
    [] to.cat = "FixedBytes" /\ t.cat # "FixedBytes" -> v % 2^(to.bytes * ByteBits)
    [] OTHER -> v

\* Another representation of the same value, as arithmetic leaves it
Dirtied(t) == IF t.cat = "Integer" THEN {w \in Words : Denoted(t, <<w>>) = value} ELSE {}

-----------------------------------------------------------------------------
NoWorld == [caller |-> 0, value |-> 0, self |-> 0, success |-> TRUE, returned |-> << >>]
NoMemory == [k \in 0..(14 * WordBytes - 1) |-> 0]
Executed(l, given, storage, calldata) ==
  Run0(Contract0(l.code, l.entries, given, NoMemory, storage, calldata, NoWorld), Fuel)

Init ==
  /\ \E literal \in Literals :
       /\ type = literal
       /\ value = literal.num
       /\ stack = <<LiteralValue(literal)>>
  /\ status = "STOP" /\ fails = FALSE
  /\ slot = Neighbours

\* The code runs: the value ends as another one of type to, or the contract stops.
Ends(m, to, v) ==
  /\ status' = m.status
  /\ IF m.status = "STOP" THEN type' = to /\ stack' = SubSeq(m.stack, 1, 1) /\ value' = v ELSE UNCHANGED <<type, stack, value>>

\* The code that runs on it
Whole(items) == Linked(InitialiseFreeMemoryPointer \o items)
ConversionCode(t, to) == Whole(Convert(t, to))
CleanCode(t) == Whole(ConvertType(t, t, TRUE, FALSE, FALSE))
MemoryCode(t, pad) ==
  LET at == GeneralPurposeMemoryStart
  IN  Whole(Val(at) \o MoveIntoStack(SizeOnStack(t), 1) \o StoreInMemoryDynamic(t, pad) \o Do(<<"POP">>)
            \o Val(at) \o LoadFromMemoryDynamic(t, FALSE, pad, FALSE))
StorageCode(t, byte) ==
  Whole(Val(0) \o Val(byte) \o StorageStore(t, t, TRUE) \o Val(0) \o Val(byte) \o StorageRetrieve(t, TRUE))
EncodeCode(t) == Whole(Val(GeneralPurposeMemoryStart) \o AbiEncode(<<t>>, <<t>>, FALSE))
DecodeCode(t) == Whole(Val(0) \o Val(WordBytes) \o AbiDecode(<<t>>, FALSE))

\* T(x).  (In this action and the following, checker and compiler are parameters: TLC
\* explores a definition before it evaluates it, but not its parameters.)
ConvertTo(convertible(_, _), code(_, _), to) ==
  /\ status = "STOP" /\ convertible(type, to)
  /\ \E m \in {Executed(code(type, to), stack, << >>, << >>)} : Ends(m, to, ConvertedValue(type, to, value))
  /\ fails' = (to.cat = "Enum" /\ value \notin 0..(Len(Enums[to.name]) - 1))
  /\ UNCHANGED slot

Clean(code(_)) ==
  /\ status = "STOP" /\ type.cat # "RationalNumber"
  /\ \E m \in {Executed(code(type), stack, << >>, << >>)} : Ends(m, type, value)
  /\ UNCHANGED <<fails, slot>>

Dirty ==
  /\ status = "STOP"
  /\ \E w \in Dirtied(type) : stack' = <<w>>
  /\ UNCHANGED <<type, value, status, fails, slot>>

ThroughMemory(code(_, _), pad) ==
  /\ status = "STOP" /\ type.cat # "RationalNumber"
  /\ \E m \in {Executed(code(type, pad), stack, << >>, << >>)} : Ends(m, type, value)
  /\ UNCHANGED <<fails, slot>>

ThroughStorage(code(_, _), byte) ==
  /\ status = "STOP" /\ type.cat # "RationalNumber" /\ byte + StorageBytes(type) <= WordBytes
  /\ \E m \in {Executed(code(type, byte), stack, 0 :> slot, << >>)} :
       /\ Ends(m, type, value)
       /\ slot' = LET size == 2^(StorageBytes(type) * ByteBits)
                      bits == 2^(byte * ByteBits)
                      word == Load(m, 0)
                  IN  (word \div (bits * size)) * bits * size + ((slot \div bits) % size) * bits + (word % bits)
  /\ UNCHANGED fails

ThroughCall(encode(_), decode(_)) ==
  /\ status = "STOP" /\ type.cat # "RationalNumber"
  /\ \E e \in {Executed(encode(type), stack, << >>, << >>)} :
       IF e.status # "STOP" THEN Ends(e, type, value)
       ELSE \E m \in {Executed(decode(type), << >>, << >>, Bytes(e, GeneralPurposeMemoryStart, WordBytes))} : Ends(m, type, value)
  /\ UNCHANGED <<fails, slot>>

-----------------------------------------------------------------------------
(* Expressions *)

Abs0(a) == IF a < 0 THEN - a ELSE a
Quotient0(a, b) == LET q == Abs0(a) \div Abs0(b) IN IF (a < 0) = (b < 0) THEN q ELSE - q
Remainder0(a, b) == a - b * Quotient0(a, b)
BitwiseOf(op, a, b) == Compute(op, <<Unsigned(a), Unsigned(b)>>)
PowerOf(a, b) == LET power[k \in 0..b] == IF k = 0 THEN 1 ELSE (a * power[k - 1]) % 2^WordBits IN power[b]
BitsOf(t) == IF t.cat = "Integer" THEN t.bits ELSE t.bytes * ByteBits

\* What the language says of an operator on two values of type t, before it is wrapped
\* around; shifts take their left operand's type.
Operated(op, t, a, b) ==
  CASE op = "Add" -> a + b [] op = "Sub" -> a - b [] op = "Mul" -> a * b
    [] op = "Div" -> Quotient0(a, b) [] op = "Mod" -> Remainder0(a, b) [] op = "Exp" -> PowerOf(a, b)
    [] op = "BitAnd" -> BitwiseOf("AND", a, b) [] op = "BitOr" -> BitwiseOf("OR", a, b) [] op = "BitXor" -> BitwiseOf("XOR", a, b)
    [] op = "SHL" -> IF b >= BitsOf(t) THEN 0 ELSE a * 2^b
    [] op = "SAR" -> IF b >= BitsOf(t) THEN (IF a < 0 THEN -1 ELSE 0) ELSE a \div 2^b
    [] op \in {"Equal", "NotEqual"} -> Truth((a = b) = (op = "Equal"))
    [] op = "LessThan" -> Truth(a < b) [] op = "GreaterThan" -> Truth(a > b)
    [] op = "LessThanOrEqual" -> Truth(a <= b) [] op = "GreaterThanOrEqual" -> Truth(a >= b)
    [] op = "And" -> a * b [] op = "Or" -> Truth(a + b > 0)
Operators == {"Add", "Sub", "Mul", "Div", "Mod", "Exp", "BitAnd", "BitOr", "BitXor", "SHL", "SAR", "Equal", "NotEqual",
              "LessThan", "GreaterThan", "LessThanOrEqual", "GreaterThanOrEqual", "And", "Or"}
AssignedOps == {"Add", "Sub", "Mul", "Div", "Mod", "BitAnd", "BitOr", "BitXor", "SHL", "SAR"}
OperatorFails(op, b) == (op \in {"Div", "Mod"} /\ b = 0) \/ (op \in ShiftOps /\ b < 0)

InType(t, v) ==
  CASE t.cat = "Integer" -> Wrapped(v, t.bits, t.signed)
    [] t.cat = "FixedBytes" -> v % 2^(t.bytes * ByteBits)
    [] OTHER -> v

\* The operands are two local variables, x below y.
Local0(id, t) == Expression("Identifier", [name |-> id, candidates |-> << >>, decl |-> [kind |-> "local", id |-> id, type |-> t, role |-> "local"]])
Scope0 == [contract |-> "C", returns |-> << >>, modifier |-> FALSE, emit |-> FALSE]
Context0 == [contract |-> "C", creation |-> FALSE, locals |-> [x |-> 0, y |-> 1], function |-> Null, depth |-> 0,
             break |-> 0, continue |-> 0, return |-> 0]
ExpressionCode(e) == Whole(Compile(e, Context0, 2))

\* x op y, if the type checker accepts it
Operate(check(_, _), code(_), op, y) ==
  /\ status = "STOP" /\ type \in OperatedTypes
  /\ \E e \in {check(Expression("Binary", [op |-> op, left |-> Local0("x", type), right |-> Local0("y", y.type), common |-> Null]), Scope0)} :
       /\ e.errors = {}
       /\ LET a == ConvertedValue(type, e.common, value)
              b == IF op \in ShiftOps THEN y.value ELSE ConvertedValue(y.type, e.common, y.value)
              done == ~ OperatorFails(op, b)
          IN  /\ \E m \in {Executed(code(e), <<y.word>> \o stack, << >>, << >>)} :
                   Ends(m, e.type, IF done THEN InType(e.type, Operated(op, e.common, a, b)) ELSE 0)
              /\ fails' = ~ done
  /\ UNCHANGED slot

\* x op= y: what x is afterwards
AssignOperated(check(_, _), code(_), op, y) ==
  /\ status = "STOP" /\ type \in OperatedTypes
  /\ \E e \in {check(Expression("Assignment", [op |-> op, left |-> Local0("x", type), right |-> Local0("y", y.type)]), Scope0)} :
       /\ e.errors = {}
       /\ LET b == IF op \in ShiftOps THEN y.value ELSE ConvertedValue(y.type, type, y.value)
              done == ~ OperatorFails(op, b)
          IN  /\ \E m \in {Executed(code(e), <<y.word>> \o stack, << >>, << >>)} :
                   Ends([m EXCEPT !.stack = SubSeq(@, 3, 3)], type, IF done THEN InType(type, Operated(op, type, value, b)) ELSE 0)
              /\ fails' = ~ done
  /\ UNCHANGED slot

\* -x, ~x, !x
OperateAlone(check(_, _), code(_), op) ==
  /\ status = "STOP" /\ type \in OperatedTypes
  /\ \E e \in {check(Expression("Unary", [op |-> op, prefix |-> TRUE, sub |-> Local0("x", type)]), Scope0)} :
       /\ e.errors = {}
       /\ \E m \in {Executed(code(e), <<0>> \o stack, << >>, << >>)} :
            Ends(m, e.type, CASE op = "Sub" -> InType(e.type, - value) [] op = "BitNot" -> InType(e.type, -1 - value)
                              [] op = "Not" -> 1 - value)
  /\ UNCHANGED <<fails, slot>>

Next ==
  \/ \E to \in ValueTypes : ConvertTo(IsExplicitlyConvertibleTo, ConversionCode, to)
  \/ \E op \in Operators, y \in Operands : Operate(Check, ExpressionCode, op, y)
  \/ \E op \in AssignedOps, y \in Operands : AssignOperated(Check, ExpressionCode, op, y)
  \/ \E op \in {"Sub", "BitNot", "Not"} : OperateAlone(Check, ExpressionCode, op)
  \/ Clean(CleanCode)
  \/ Dirty
  \/ \E pad \in BOOLEAN : ThroughMemory(MemoryCode, pad)
  \/ \E byte \in 0..(WordBytes - 1) : ThroughStorage(StorageCode, byte)
  \/ ThroughCall(EncodeCode, DecodeCode)

Spec == Init /\ [][Next]_vars

-----------------------------------------------------------------------------
\* Whatever happened to a value before, the code that runs on it makes of it what the
\* language says: higher order bits that do not belong to it never show
\* (CompilerUtils::convertType, ExpressionCompiler, LValue).
ValueKept == status = "STOP" /\ type.cat # "RationalNumber" => Denoted(type, stack) = value

\* The code ends in an exception exactly where the language has one: a conversion to an enum
\* out of range, a division by zero, a shift by a negative number.
StopsAsMeant == status \in {"STOP", "INVALID"} /\ (status = "INVALID") = fails

\* A value written into a slot leaves the bytes around it as they were
\* (StorageItem::storeValue).
NeighboursKept == slot = Neighbours

-----------------------------------------------------------------------------
SomeContracts == [C |-> [kind |-> "contract", bases |-> <<"C">>, payable |-> FALSE, functions |-> << >>, variables |-> << >>,
                         modifiers |-> << >>, events |-> << >>, inherits |-> << >>, creates |-> {}, errors |-> {}, using |-> << >>, constructor |-> [params |-> << >>, payable |-> FALSE]]]
SomeEnums == [E |-> <<"a", "b", "c", "d", "e">>]
SomeTypes == {Integer(ByteBits * k, s) : k \in 1..WordBytes, s \in BOOLEAN} \cup {FixedBytes(k) : k \in 1..WordBytes}
             \cup {Bool, Address(FALSE), Contract("C", FALSE), Enum("E")}
SomeLiterals == {Rational(n, 1) : n \in {-3, 0, 5, 30, 200}}
SomeOperands == {[type |-> Integer(ByteBits, FALSE), value |-> 3, word |-> 7], [type |-> Integer(2 * ByteBits, TRUE), value |-> -2, word |-> 30],
                 [type |-> Integer(2 * ByteBits, FALSE), value |-> 0, word |-> 16], [type |-> FixedBytes(1), value |-> 2, word |-> 129],
                 [type |-> Bool, value |-> 1, word |-> 1]}
SomeOperatedTypes == {Integer(ByteBits, FALSE), Integer(2 * ByteBits, TRUE), Integer(WordBits, FALSE), Integer(WordBits, TRUE), FixedBytes(2),
                      FixedBytes(1), Bool}
NoHash(signature) == 0
NoStructs == << >>

=============================================================================
