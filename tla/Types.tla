------------------------------- MODULE Types -------------------------------
(***************************************************************************)
(* The types of Solidity (libsolidity/ast/Types.{h,cpp}): what may be      *)
(* converted to what, the types of operators, members and literals, and    *)
(* the space a value takes on the stack, in memory and in storage.         *)
(*                                                                         *)
(* A type is a record whose field cat is its category.  A word has         *)
(* WordBits bits and a byte ByteBits: 256 and 8 in the code, where         *)
(* AddressBytes is 20, SelectorBytes is 4, InternalBytes is 8,             *)
(* PrecisionBits is 4096, MaxDigits is 80, FixedDigits (those of "fixed")  *)
(* is 18 and ExponentMax is 2^32 - 1.                                      *)
(* User defined types come from the constants Contracts, Structs and       *)
(* Enums.  Names and identifiers of types are left out; a failing          *)
(* assertion of the code shows as the type Null.                           *)
(***************************************************************************)
EXTENDS StorageOffsets, Walking, SequencesExt

CONSTANTS AddressBytes, SelectorBytes, InternalBytes, PrecisionBits, MaxDigits, FixedDigits, ExponentMax,
          Contracts,    \* name |-> [kind, bases, payable, functions, variables, using, constructor]
          Structs,      \* name |-> <<[name, type], ...>>
          Enums,        \* name |-> <<names of the members>>
          Returndata,   \* EVMVersion::supportsReturndata
          StaticCall    \* EVMVersion::hasStaticCall

ASSUME TypesAssumption ==
  /\ AddressBytes \in 1..WordBytes /\ SelectorBytes \in 1..WordBytes /\ InternalBytes \in 1..WordBytes
  /\ PrecisionBits \in Nat /\ MaxDigits \in Nat /\ FixedDigits \in Nat /\ ExponentMax \in Nat

-----------------------------------------------------------------------------
(* The type constructors *)

Null == [cat |-> "null"]
Bool == [cat |-> "Bool"]
Address(payable) == [cat |-> "Address", payable |-> payable]
Integer(bits, signed) == [cat |-> "Integer", bits |-> bits, signed |-> signed]
Uint == Integer(WordBits, FALSE)
FixedPoint(bits, digits, signed) == [cat |-> "FixedPoint", bits |-> bits, digits |-> digits, signed |-> signed]
FixedBytes(n) == [cat |-> "FixedBytes", bytes |-> n]
StringLiteral(value, utf8) == [cat |-> "StringLiteral", value |-> value, utf8 |-> utf8]
Contract(name, super) == [cat |-> "Contract", name |-> name, super |-> super]
Enum(name) == [cat |-> "Enum", name |-> name]
Struct(name, loc, pointer) == [cat |-> "Struct", name |-> name, loc |-> loc, pointer |-> pointer]
Mapping(key, value) == [cat |-> "Mapping", key |-> key, value |-> value]
Tuple(components) == [cat |-> "Tuple", components |-> components]
TypeType(actual) == [cat |-> "TypeType", actual |-> actual]
Modifier(params) == [cat |-> "Modifier", params |-> params]
Magic(kind) == [cat |-> "Magic", kind |-> kind]
InaccessibleDynamic == [cat |-> "InaccessibleDynamic"]

\* A function with the parameter and return types; decl is its declaration or "".
Function(params, returns, kind, mutability, decl) ==
  [cat |-> "Function", params |-> params, returns |-> returns, kind |-> kind, mutability |-> mutability,
   decl |-> decl, arbitrary |-> FALSE, gasSet |-> FALSE, valueSet |-> FALSE, bound |-> FALSE]

Rank(mutability) == IndexOf(<<"Pure", "View", "NonPayable", "Payable">>, mutability)

IsReference(t) == t.cat \in {"Array", "Struct"}

\* ReferenceType::copyForLocation; array elements live where the array does.
Dynamic == -1

RECURSIVE CopyForLocation(_, _, _)
CopyForLocation(t, loc, pointer) ==
  CASE t.cat = "Array" /\ IsReference(t.base) ->
         [t EXCEPT !.loc = loc, !.pointer = pointer, !.base = CopyForLocation(t.base, loc, FALSE)]
    [] IsReference(t) /\ ~ (t.cat = "Array" /\ IsReference(t.base)) -> [t EXCEPT !.loc = loc, !.pointer = pointer]

CopyForLocationIfReference(loc, t) == IF IsReference(t) THEN CopyForLocation(t, loc, FALSE) ELSE t

Array(loc, base, length) ==
  [cat |-> "Array", loc |-> loc, pointer |-> TRUE, kind |-> "Ordinary",
   base |-> CopyForLocationIfReference(loc, base), length |-> length]
ByteArray(loc, isString) ==
  [cat |-> "Array", loc |-> loc, pointer |-> TRUE, kind |-> IF isString THEN "String" ELSE "Bytes",
   base |-> FixedBytes(1), length |-> Dynamic]

\* The type an elementary type name stands for: its token with the numbers in it, and
\* what follows it.
FromElementaryTypeName(token, m, n) ==
  CASE token \in {"IntM", "UIntM"} -> Integer(m, token = "IntM")
    [] token = "BytesM" -> FixedBytes(m)
    [] token \in {"FixedMxN", "UFixedMxN"} -> FixedPoint(m, n, token = "FixedMxN")
    [] token \in {"Int", "UInt"} -> Integer(WordBits, token = "Int")
    [] token \in {"Fixed", "UFixed"} -> FixedPoint(WordBits \div 2, FixedDigits, token = "Fixed")
    [] token = "Byte" -> FixedBytes(1)
    [] token = "Address" -> Address(FALSE)
    [] token = "Bool" -> Bool
    [] token \in {"Bytes", "String"} -> ByteArray("Storage", token = "String")
FromElementaryTypeNameAndSuffix(token, m, n, suffix) ==
  LET t == FromElementaryTypeName(token, m, n)
  IN  CASE IsReference(t) -> CopyForLocation(t, IF suffix = "" THEN "Storage" ELSE suffix, TRUE)
        [] t.cat = "Address" -> Address(suffix = "payable")
        [] OTHER -> t

IsByteArray(t) == t.kind # "Ordinary"
IsString(t) == t.kind = "String"
IsDynamicallySized(t) == t.cat = "Array" /\ t.length = Dynamic

DataStoredIn(t, loc) == \/ IsReference(t) /\ t.loc = loc
                        \/ t.cat = "Mapping" /\ loc = "Storage"

-----------------------------------------------------------------------------
(* Equality: of a rational only its value counts, of a function neither    *)
(* its declaration nor whether it takes arbitrary parameters.              *)

RECURSIVE SameType(_, _)
SameTypes(s, t) == Len(s) = Len(t) /\ \A k \in 1..Len(s) : SameType(s[k], t[k])

EqualExcludingStateMutability(f, g) ==
  /\ f.kind = g.kind
  /\ SameTypes(f.params, g.params) /\ SameTypes(f.returns, g.returns)
  /\ f.gasSet = g.gasSet /\ f.valueSet = g.valueSet /\ f.bound = g.bound

SameArray(a, b) ==
  /\ a.loc = b.loc /\ a.pointer = b.pointer /\ a.kind = b.kind /\ a.length = b.length
  /\ SameType(a.base, b.base)

SameType(a, b) ==
  /\ a.cat = b.cat
  /\ CASE a.cat = "RationalNumber" -> a.num = b.num /\ a.den = b.den
       [] a.cat = "Function" -> EqualExcludingStateMutability(a, b) /\ a.mutability = b.mutability
       [] a.cat = "Array" -> SameArray(a, b)
       [] a.cat = "Mapping" -> SameType(a.key, b.key) /\ SameType(a.value, b.value)
       [] a.cat = "TypeType" -> SameType(a.actual, b.actual)
       [] a.cat = "Modifier" -> SameTypes(a.params, b.params)
       [] OTHER -> a = b

-----------------------------------------------------------------------------
(* Rational numbers: num / den in lowest terms, den > 0.  bytes is the     *)
(* FixedBytes type a hexadecimal literal is compatible with, or Null.      *)

AbsInt(x) == IF x < 0 THEN -x ELSE x
RECURSIVE Gcd(_, _)
Gcd(x, y) == IF y = 0 THEN x ELSE Gcd(y, x % y)

RationalFrom(n, d, bytes) ==
  LET g == Gcd(AbsInt(n), AbsInt(d))
      sign == IF d < 0 THEN -1 ELSE 1
  IN  [cat |-> "RationalNumber", num |-> sign * (n \div g), den |-> AbsInt(d) \div g, bytes |-> bytes]
Rational(n, d) == RationalFrom(n, d, Null)

IsFractional(t) == t.den # 1

MostSignificantBit(x) == CHOOSE n \in 0..31 : 2^n <= x /\ (n < 30 => x < 2^(n + 1))

FitsPrecisionExp(base, exp) ==
  \/ base \in {0, 1}
  \/ MostSignificantBit(base) <= PrecisionBits /\ exp * (MostSignificantBit(base) + 1) <= PrecisionBits

\* Does mantissa * 2^bits fit, where bits was rounded down?
FitsPrecisionBits(mantissa, bits) ==
  \/ mantissa = 0
  \/ /\ MostSignificantBit(mantissa) <= PrecisionBits
     /\ MostSignificantBit(mantissa) + bits + 1 <= PrecisionBits
FitsPrecisionBase10(mantissa, exp) == FitsPrecisionBits(mantissa, (exp * 33219) \div 10000)
FitsPrecisionBase2(mantissa, exp) == FitsPrecisionBits(mantissa, exp)

\* A literal: digits with `places` of them behind the point, times ten to the exponent,
\* in a unit of so many wei or seconds; of a hexadecimal one, how many digits it has.
NumberLiteral(digits, places, exp, unit) ==
  [digits |-> digits, places |-> places, exp |-> exp, unit |-> unit, hexDigits |-> 0]
HexLiteral(value, hexDigits) == [digits |-> value, places |-> 0, exp |-> 0, unit |-> 1, hexDigits |-> hexDigits]

\* RationalNumberType::forLiteral over isValidLiteral
ForLiteral(literal) ==
  LET mantissa == Rational(literal.digits, 10^literal.places)
      size == AbsInt(literal.exp)
      scaled == CASE literal.exp = 0 \/ mantissa.num = 0 -> mantissa
                  [] literal.exp < 0 /\ mantissa.num # 0 /\ FitsPrecisionBase10(mantissa.den, size) ->
                       Rational(mantissa.num, mantissa.den * 10^size)
                  [] literal.exp > 0 /\ mantissa.num # 0 /\ FitsPrecisionBase10(AbsInt(mantissa.num), size) ->
                       Rational(mantissa.num * 10^size, mantissa.den)
                  [] OTHER -> Null
      bytes == IF literal.hexDigits > 0 /\ literal.hexDigits % 2 = 0 /\ literal.hexDigits \div 2 <= WordBytes
               THEN FixedBytes(literal.hexDigits \div 2) ELSE Null
      unit == IF literal.exp # 0 /\ mantissa.num = 0 THEN 1 ELSE literal.unit
  IN  IF scaled = Null THEN Null ELSE RationalFrom(scaled.num * unit, scaled.den, bytes)

\* Type::forLiteral; a literal that is no number is [token |-> ...].
LiteralType(literal) ==
  CASE literal.token \in {"TrueLiteral", "FalseLiteral"} -> Bool
    [] literal.token = "Number" -> ForLiteral(literal.number)
    [] literal.token = "StringLiteral" -> StringLiteral(literal.bytes, literal.utf8)
    [] OTHER -> Null

BitsFor(x) == ByteBits * Max({BytesOfNumber(x), 1})

IntegerTypeOf(t) ==
  LET value == IF t.num < 0 THEN (-t.num - 1) * 2 ELSE t.num
  IN  IF value > AllOnes THEN Null ELSE Integer(BitsFor(value), t.num < 0)

\* RationalNumberType::fixedPointType: as many decimal digits as fit
FixedPointTypeOf(t) ==
  LET negative == t.num < 0
      maxValue == IF negative THEN 2^(WordBits - 1) ELSE AllOnes
      at[k \in 0..MaxDigits] ==
        IF k = 0 THEN <<Rational(AbsInt(t.num), t.den), 0>>
        ELSE LET r == at[k - 1][1]
             IN  IF at[k - 1][2] = k - 1 /\ r.num * 10 <= maxValue * r.den /\ r.den # 1
                 THEN <<Rational(r.num * 10, r.den), k>> ELSE at[k - 1]
      r == at[MaxDigits][1]
      truncated == r.num \div r.den
      v == IF negative /\ truncated # 0 THEN (truncated - 1) * 2 ELSE truncated
  IN  IF r.num > maxValue * r.den \/ v > AllOnes THEN Null
      ELSE FixedPoint(BitsFor(v), at[MaxDigits][2], negative)

\* RationalNumberType::literalValue
LiteralValue(t) ==
  IF ~ IsFractional(t) THEN Unsigned(t.num)
  ELSE Unsigned(Quotient(t.num * 10^FixedPointTypeOf(t).digits, t.den))

-----------------------------------------------------------------------------
(* Number ranges *)

MinValue(t) == IF t.signed THEN -(2^(t.bits - 1)) ELSE 0
MaxValue(t) == IF t.signed THEN 2^(t.bits - 1) - 1 ELSE 2^t.bits - 1
MaxIntegerValue(t) == (2^(IF t.signed THEN t.bits - 1 ELSE t.bits) - 1) \div 10^t.digits
MinIntegerValue(t) == IF t.signed THEN Quotient(-(2^(t.bits - 1)), 10^t.digits) ELSE 0

-----------------------------------------------------------------------------
(* Conversions, and the type two operands have in common *)

IsValidShiftAndAmountType(op, t) ==
  /\ op # "SHR"
  /\ \/ t.cat = "Integer"
     \/ t.cat = "RationalNumber" /\ ~ IsFractional(t) /\ IntegerTypeOf(t) # Null /\ ~ IntegerTypeOf(t).signed

RECURSIVE MobileType(_)
TupleMobileType(t) ==
  LET mobile == [k \in 1..Len(t.components) |-> IF t.components[k] = Null THEN Null ELSE MobileType(t.components[k])]
  IN  IF \E k \in 1..Len(mobile) : mobile[k] = Null /\ t.components[k] # Null THEN Null ELSE Tuple(mobile)

MobileType(t) ==
  CASE t.cat = "RationalNumber" -> IF IsFractional(t) THEN FixedPointTypeOf(t) ELSE IntegerTypeOf(t)
    [] t.cat = "StringLiteral" -> ByteArray("Memory", TRUE)
    [] IsReference(t) -> CopyForLocation(t, t.loc, TRUE)
    [] t.cat = "Tuple" -> TupleMobileType(t)
    [] OTHER -> t

IsPayable(c) == Contracts[c].payable

RECURSIVE IsImplicitlyConvertibleTo(_, _)

AddressImplicitlyConvertible(t, to) == to.cat = "Address" /\ (to.payable => t.payable)

IntegerImplicitlyConvertible(t, to) ==
  \/ /\ to.cat = "Integer" /\ to.bits >= t.bits
     /\ IF t.signed THEN to.signed ELSE ~ to.signed \/ to.bits > t.bits
  \/ to.cat = "FixedPoint" /\ MaxValue(t) <= MaxIntegerValue(to) /\ MinValue(t) >= MinIntegerValue(to)

FixedPointImplicitlyConvertible(t, to) ==
  /\ to.cat = "FixedPoint" /\ to.bits >= t.bits /\ to.digits >= t.digits
  /\ MaxIntegerValue(to) >= MaxIntegerValue(t) /\ MinIntegerValue(to) <= MinIntegerValue(t)

FitsInteger(t, to) ==
  /\ ~ IsFractional(t)
  /\ \/ t.num = 0
     \/ t.num > 0 /\ t.num <= AllOnes \div 2^(WordBits - to.bits + (IF to.signed THEN 1 ELSE 0))
     \/ t.num < 0 /\ to.signed /\ -t.num <= 2^(to.bits - 1)

RationalImplicitlyConvertible(t, to) ==
  \/ to.cat = "Integer" /\ FitsInteger(t, to)
  \/ to.cat = "FixedPoint" /\ FixedPointTypeOf(t) # Null /\ FixedPointImplicitlyConvertible(FixedPointTypeOf(t), to)
  \/ to.cat = "FixedBytes" /\ (t.num = 0 \/ t.bytes = to)

StringLiteralImplicitlyConvertible(t, to) ==
  \/ to.cat = "FixedBytes" /\ to.bytes >= Len(t.value)
  \/ /\ to.cat = "Array" /\ IsByteArray(to)
     /\ ~ (to.loc = "Storage" /\ to.pointer) /\ ~ (IsString(to) /\ ~ t.utf8)

FixedBytesImplicitlyConvertible(t, to) == to.cat = "FixedBytes" /\ to.bytes >= t.bytes

ContractImplicitlyConvertible(t, to) ==
  \/ t = to
  \/ /\ to.cat = "Contract"
     /\ \E k \in 1..Len(Contracts[t.name].bases) : Contracts[t.name].bases[k] = to.name /\ (t.super => k > 1)

\* memory and calldata convert to storage only for a direct reference, and nothing to calldata
LocationFits(t, to) ==
  /\ ~ (to.loc = "Storage" /\ t.loc # "Storage" /\ to.pointer)
  /\ ~ (to.loc = "CallData" /\ t.loc # to.loc)

ArrayImplicitlyConvertible(t, to) ==
  /\ to.cat = "Array" /\ t.kind = to.kind
  /\ LocationFits(t, to)
  /\ IF to.loc = "Storage" /\ ~ to.pointer
     THEN /\ IsImplicitlyConvertibleTo(t.base, to.base)
          /\ IsDynamicallySized(to) \/ (~ IsDynamicallySized(t) /\ to.length >= t.length)
     ELSE /\ SameType(CopyForLocationIfReference(t.loc, t.base), CopyForLocationIfReference(t.loc, to.base))
          /\ t.length = to.length

StructImplicitlyConvertible(t, to) == to.cat = "Struct" /\ LocationFits(t, to) /\ t.name = to.name

TupleImplicitlyConvertible(t, to) ==
  /\ to.cat = "Tuple" /\ Len(t.components) = Len(to.components)
  /\ \A k \in 1..Len(to.components) :
       to.components[k] = Null \/ (t.components[k] # Null /\ IsImplicitlyConvertibleTo(t.components[k], to.components[k]))

FunctionImplicitlyConvertible(t, to) ==
  /\ to.cat = "Function" /\ EqualExcludingStateMutability(t, to)
  /\ to.mutability = "Payable" => t.mutability = "Payable"
  /\ \/ t.mutability = "Payable" /\ to.mutability = "NonPayable"
     \/ Rank(t.mutability) <= Rank(to.mutability)

IsImplicitlyConvertibleTo(t, to) ==
  CASE t.cat = "Address" -> AddressImplicitlyConvertible(t, to)
    [] t.cat = "Integer" -> IntegerImplicitlyConvertible(t, to)
    [] t.cat = "FixedPoint" -> FixedPointImplicitlyConvertible(t, to)
    [] t.cat = "RationalNumber" -> RationalImplicitlyConvertible(t, to)
    [] t.cat = "StringLiteral" -> StringLiteralImplicitlyConvertible(t, to)
    [] t.cat = "FixedBytes" -> FixedBytesImplicitlyConvertible(t, to)
    [] t.cat = "Contract" -> ContractImplicitlyConvertible(t, to)
    [] t.cat = "Array" -> ArrayImplicitlyConvertible(t, to)
    [] t.cat = "Struct" -> StructImplicitlyConvertible(t, to)
    [] t.cat = "Tuple" -> TupleImplicitlyConvertible(t, to)
    [] t.cat = "Function" -> FunctionImplicitlyConvertible(t, to)
    [] t.cat = "InaccessibleDynamic" -> FALSE
    [] OTHER -> SameType(t, to)

RECURSIVE IsExplicitlyConvertibleTo(_, _)

AddressExplicitlyConvertible(t, to) ==
  IF to.cat = "Contract" THEN t.payable \/ ~ IsPayable(to.name)
  ELSE \/ IsImplicitlyConvertibleTo(t, to) \/ to.cat = "Integer"
       \/ to.cat = "FixedBytes" /\ to.bytes = AddressBytes

IntegerExplicitlyConvertible(t, to) ==
  \/ to.cat \in {"Integer", "Address", "Contract", "Enum", "FixedPoint"}
  \/ to.cat = "FixedBytes" /\ t.bits = to.bytes * ByteBits

RationalExplicitlyConvertible(t, to) ==
  \/ IsImplicitlyConvertibleTo(t, to)
  \/ to.cat # "FixedBytes" /\ MobileType(t) # Null /\ IsExplicitlyConvertibleTo(MobileType(t), to)

FixedBytesExplicitlyConvertible(t, to) ==
  \/ to.cat = "Integer" /\ t.bytes * ByteBits = to.bits
  \/ to.cat = "Address" /\ t.bytes = AddressBytes
  \/ to.cat \in {"FixedPoint", "FixedBytes"}

ContractExplicitlyConvertible(t, to) ==
  IF to.cat = "Address" THEN IsPayable(t.name) \/ ~ to.payable ELSE IsImplicitlyConvertibleTo(t, to)

ArrayExplicitlyConvertible(t, to) ==
  \/ IsImplicitlyConvertibleTo(t, to)
  \/ to.cat = "Array" /\ to.loc = t.loc /\ IsByteArray(t) /\ IsByteArray(to)

FunctionExplicitlyConvertible(t, to) == (t.kind = "External" /\ to = Address(FALSE)) \/ to.cat = "Function"

IsExplicitlyConvertibleTo(t, to) ==
  CASE t.cat = "Address" -> AddressExplicitlyConvertible(t, to)
    [] t.cat = "Integer" -> IntegerExplicitlyConvertible(t, to)
    [] t.cat = "FixedPoint" -> to.cat \in {"FixedPoint", "Integer"}
    [] t.cat = "RationalNumber" -> RationalExplicitlyConvertible(t, to)
    [] t.cat = "FixedBytes" -> FixedBytesExplicitlyConvertible(t, to)
    [] t.cat = "Contract" -> ContractExplicitlyConvertible(t, to)
    [] t.cat = "Array" -> ArrayExplicitlyConvertible(t, to)
    [] t.cat = "Enum" -> to = t \/ to.cat = "Integer"
    [] t.cat = "Function" -> FunctionExplicitlyConvertible(t, to)
    [] t.cat = "InaccessibleDynamic" -> FALSE
    [] OTHER -> IsImplicitlyConvertibleTo(t, to)

CommonType(a, b) ==
  IF a = Null \/ b = Null THEN Null
  ELSE IF MobileType(a) # Null /\ IsImplicitlyConvertibleTo(b, MobileType(a)) THEN MobileType(a)
  ELSE IF MobileType(b) # Null /\ IsImplicitlyConvertibleTo(a, MobileType(b)) THEN MobileType(b)
  ELSE Null

-----------------------------------------------------------------------------
(* The types of operators.  Tokens have the names of the code.             *)

CompareOps == {"Equal", "NotEqual", "LessThan", "GreaterThan", "LessThanOrEqual", "GreaterThanOrEqual"}
BitOps == {"BitOr", "BitXor", "BitAnd", "BitNot"}
BooleanOps == {"Or", "And", "Not"}
ShiftOps == {"SHL", "SAR", "SHR"}

\* What "delete" and an operator without a value of its own have as type
NoValue == Tuple(<< >>)

IntegerUnaryResult(op, t) ==
  CASE op = "Delete" -> NoValue [] op \in {"Add", "Sub", "Inc", "Dec", "BitNot"} -> t [] OTHER -> Null
FixedPointUnaryResult(op, t) ==
  CASE op = "Delete" -> NoValue [] op \in {"Add", "Sub", "Inc", "Dec"} -> t [] OTHER -> Null
RationalUnaryResult(op, t) ==
  CASE op = "BitNot" /\ ~ IsFractional(t) -> Rational(-t.num - 1, 1)
    [] op = "Add" -> Rational(t.num, t.den)
    [] op = "Sub" -> Rational(-t.num, t.den)
    [] op = "After" -> t
    [] OTHER -> Null
FixedBytesUnaryResult(op, t) == CASE op = "Delete" -> NoValue [] op = "BitNot" -> t [] OTHER -> Null
BoolUnaryResult(op, t) == CASE op = "Delete" -> NoValue [] op = "Not" -> t [] OTHER -> Null
ContractUnaryResult(op, t) == IF op = "Delete" /\ ~ t.super THEN NoValue ELSE Null
ReferenceUnaryResult(op, t) ==
  IF op = "Delete" /\ (t.loc = "Memory" \/ (t.loc = "Storage" /\ ~ t.pointer)) THEN NoValue ELSE Null

UnaryOperatorResult(op, t) ==
  CASE t.cat = "Integer" -> IntegerUnaryResult(op, t)
    [] t.cat = "FixedPoint" -> FixedPointUnaryResult(op, t)
    [] t.cat = "RationalNumber" -> RationalUnaryResult(op, t)
    [] t.cat = "FixedBytes" -> FixedBytesUnaryResult(op, t)
    [] t.cat = "Bool" -> BoolUnaryResult(op, t)
    [] t.cat = "Contract" -> ContractUnaryResult(op, t)
    [] IsReference(t) -> ReferenceUnaryResult(op, t)
    [] t.cat \in {"Address", "Enum", "Function"} /\ op = "Delete" -> NoValue
    [] OTHER -> Null

\* Bitwise operators on integers of unbounded size in two's complement
RationalBits == PrecisionBits + 2
BigBitwise(op(_, _), x, y) ==
  LET bit(n, k) == (n \div 2^k) % 2
      sum[k \in 0..RationalBits] ==
        IF k = 0 THEN 0
        ELSE LET b == op(bit(x % 2^RationalBits, k - 1), bit(y % 2^RationalBits, k - 1))
             IN  IF k = RationalBits THEN sum[k - 1] - b * 2^(k - 1) ELSE sum[k - 1] + b * 2^(k - 1)
  IN  sum[RationalBits]

RationalExp(a, exp) ==
  LET size == AbsInt(exp)
  IN  CASE exp = 0 -> Rational(1, 1)
        [] exp # 0 /\ (a.num = 0 \/ (a.num = 1 /\ a.den = 1)) -> Rational(a.num, a.den)
        [] exp # 0 /\ a.num = -1 /\ a.den = 1 -> Rational(1 - 2 * (size % 2), 1)
        [] OTHER ->
             IF size > ExponentMax \/ ~ FitsPrecisionExp(AbsInt(a.num), size) \/ ~ FitsPrecisionExp(a.den, size)
             THEN Null
             ELSE IF exp > 0 THEN Rational(a.num^size, a.den^size) ELSE Rational(a.den^size, a.num^size)

RationalShift(op, a, b) ==
  CASE b.num < 0 \/ b.num > ExponentMax -> Null
    [] b.num \in 0..ExponentMax /\ a.num = 0 -> Rational(0, 1)
    [] b.num \in 0..ExponentMax /\ a.num # 0 /\ op = "SHL" ->
         IF FitsPrecisionBase2(AbsInt(a.num), b.num) THEN Rational(a.num * 2^b.num, 1) ELSE Null
    [] b.num \in 0..ExponentMax /\ a.num # 0 /\ op = "SAR" ->
         IF b.num > MostSignificantBit(AbsInt(a.num)) THEN Rational(IF a.num < 0 THEN -1 ELSE 0, 1)
         ELSE IF a.num < 0 THEN Rational(Quotient(a.num + 1, 2^b.num) - 1, 1)
         ELSE Rational(a.num \div 2^b.num, 1)

\* The value of a binary operator on two literals, before the final check of its size
RationalResult(op, a, b) ==
  LET fractional == IsFractional(a) \/ IsFractional(b)
  IN  CASE op = "Add" -> Rational(a.num * b.den + b.num * a.den, a.den * b.den)
        [] op = "Sub" -> Rational(a.num * b.den - b.num * a.den, a.den * b.den)
        [] op = "Mul" -> Rational(a.num * b.num, a.den * b.den)
        [] op = "Div" /\ b.num # 0 -> Rational(a.num * b.den, a.den * b.num)
        [] op = "Mod" /\ b.num # 0 ->
             LET times == Quotient(a.num * b.den, a.den * b.num)
             IN  Rational(a.num * b.den - times * b.num * a.den, a.den * b.den)
        [] op = "Exp" /\ ~ IsFractional(b) -> RationalExp(a, b.num)
        [] op = "BitOr" /\ ~ fractional -> Rational(BigBitwise(LAMBDA x, y : x + y - x * y, a.num, b.num), 1)
        [] op = "BitXor" /\ ~ fractional -> Rational(BigBitwise(LAMBDA x, y : (x + y) % 2, a.num, b.num), 1)
        [] op = "BitAnd" /\ ~ fractional -> Rational(BigBitwise(LAMBDA x, y : x * y, a.num, b.num), 1)
        [] op \in {"SHL", "SAR"} /\ ~ fractional -> RationalShift(op, a, b)
        [] OTHER -> Null

FitsRational(t) ==
  t.num = 0 \/ (MostSignificantBit(AbsInt(t.num)) <= PrecisionBits /\ MostSignificantBit(t.den) <= PrecisionBits)

RECURSIVE BinaryOperatorResult(_, _, _)

IntegerBinaryResult(op, t, other) ==
  LET common == CommonType(t, other)
  IN  IF other.cat \notin {"RationalNumber", "FixedPoint", "Integer"} THEN Null
      ELSE IF op \in ShiftOps THEN IF IsValidShiftAndAmountType(op, other) THEN t ELSE Null
      ELSE IF common = Null \/ op \in BooleanOps \/ (op = "Exp" /\ (common.cat = "FixedPoint" \/ common.signed)) THEN Null
      ELSE common

RationalBinaryResult(op, t, other) ==
  LET common == CommonType(t, other)
      value == RationalResult(op, t, other)
  IN  CASE other.cat \in {"Integer", "FixedPoint"} -> IF common = Null THEN Null ELSE BinaryOperatorResult(op, common, other)
        [] other.cat = "RationalNumber" /\ op \in CompareOps ->
             IF MobileType(t) = Null \/ MobileType(other) = Null THEN Null
             ELSE BinaryOperatorResult(op, MobileType(t), MobileType(other))
        [] other.cat = "RationalNumber" /\ op \notin CompareOps ->
             IF value # Null /\ FitsRational(value) THEN value ELSE Null
        [] OTHER -> Null

FixedBytesBinaryResult(op, t, other) ==
  LET common == CommonType(t, other)
  IN  IF op \in ShiftOps THEN IF IsValidShiftAndAmountType(op, other) THEN t ELSE Null
      ELSE IF common # Null /\ common.cat = "FixedBytes" /\ op \in CompareOps \cup BitOps THEN common ELSE Null

FunctionBinaryResult(op, t, other) ==
  IF /\ other.cat = "Function" /\ op \in {"Equal", "NotEqual"}
     /\ \A f \in {t, other} : f.kind = "Internal" /\ ~ f.gasSet /\ ~ f.valueSet /\ ~ f.bound
  THEN CommonType(t, other) ELSE Null

BinaryOperatorResult(op, t, other) ==
  CASE t.cat = "Integer" -> IntegerBinaryResult(op, t, other)
    [] t.cat = "FixedPoint" -> IF op \in BitOps \cup BooleanOps \cup {"Exp"} THEN Null ELSE CommonType(t, other)
    [] t.cat = "RationalNumber" -> RationalBinaryResult(op, t, other)
    [] t.cat = "FixedBytes" -> FixedBytesBinaryResult(op, t, other)
    [] t.cat = "Bool" -> IF other.cat = "Bool" /\ op \in {"Equal", "NotEqual", "And", "Or"} THEN other ELSE Null
    [] t.cat = "Function" -> FunctionBinaryResult(op, t, other)
    [] t.cat \in {"Address", "Contract", "Enum"} -> IF op \in CompareOps THEN CommonType(t, other) ELSE Null
    [] OTHER -> Null

-----------------------------------------------------------------------------
(* Where values can be kept, and the space they take *)

CanBeStored(t) ==
  /\ t.cat \notin {"RationalNumber", "StringLiteral", "Tuple", "TypeType", "Modifier", "Magic", "InaccessibleDynamic"}
  /\ t.cat = "Function" => t.kind \in {"Internal", "External"}

RECURSIVE CanLiveOutsideStorage(_)
CanLiveOutsideStorage(t) ==
  CASE t.cat = "Array" -> CanLiveOutsideStorage(t.base)
    [] t.cat = "Contract" -> ~ t.super
    [] t.cat = "Function" -> t.kind \in {"Internal", "External"}
    [] OTHER -> t.cat \notin {"RationalNumber", "StringLiteral", "Tuple", "Mapping", "TypeType", "Modifier", "InaccessibleDynamic"}

IsValueType(t) ==
  \/ t.cat \in {"Address", "Integer", "FixedPoint", "FixedBytes", "Bool", "Enum", "Function", "InaccessibleDynamic"}
  \/ t.cat = "Contract" /\ ~ t.super

HasSimpleZeroValueInMemory(t) == ~ IsReference(t) /\ t.cat \notin {"Tuple", "Function"}

MemberValue(name, member) == IndexOf(Enums[name], member) - 1
EnumBytes(name) == IF Len(Enums[name]) <= 1 THEN 1 ELSE BytesOfNumber(Len(Enums[name]) - 1)

FunctionStorageBytes(t) == IF t.kind = "External" THEN AddressBytes + SelectorBytes ELSE InternalBytes

StorageBytes(t) ==
  CASE t.cat \in {"Address", "Contract"} -> AddressBytes
    [] t.cat \in {"Integer", "FixedPoint"} -> t.bits \div ByteBits
    [] t.cat = "FixedBytes" -> t.bytes
    [] t.cat = "Bool" -> 1
    [] t.cat = "Enum" -> EnumBytes(t.name)
    [] t.cat = "Function" -> FunctionStorageBytes(t)
    [] OTHER -> WordBytes

\* StructType::nativeMembers: mappings exist only in storage
StructMembers(t) ==
  LET kept == SelectSeq(Structs[t.name], LAMBDA m : t.loc = "Storage" \/ CanLiveOutsideStorage(m.type))
  IN  [k \in 1..Len(kept) |-> [kept[k] EXCEPT !.type = CopyForLocationIfReference(t.loc, @)]]
MemberIndex(t, name) == CHOOSE k \in 1..Len(StructMembers(t)) : StructMembers(t)[k].name = name

RECURSIVE StorageSize(_)
Layout(types) ==
  LET stored == SelectSeq(types, CanBeStored)
  IN  computeOffsets([k \in 1..Len(stored) |-> [bytes |-> StorageBytes(stored[k]), size |-> StorageSize(stored[k])]])
StructLayout(t) == LET m == StructMembers(t) IN Layout([k \in 1..Len(m) |-> m[k].type])

ArraySlots(t) ==
  LET perSlot == WordBytes \div StorageBytes(t.base)
  IN  IF StorageBytes(t.base) < WordBytes THEN (t.length + perSlot - 1) \div perSlot
      ELSE t.length * StorageSize(t.base)

StorageSize(t) ==
  CASE t.cat = "Array" -> IF IsDynamicallySized(t) THEN 1 ELSE Max({1, ArraySlots(t)})
    [] t.cat = "Struct" -> Max({1, StructLayout(t).size})
    [] OTHER -> 1

StorageOffsetsOfMember(t, name) == StructLayout(t).offsets[MemberIndex(t, name)]

\* ContractType::stateVariables: those of the most basic contract come first.
StateVariables(c) ==
  LET bases == Contracts[c].bases
      named(b) == [k \in 1..Len(Contracts[b].variables) |-> Contracts[b].variables[k] @@ [contract |-> b]]
      variables == Concat([k \in 1..Len(bases) |-> SelectSeq(named(bases[Len(bases) - k + 1]), LAMBDA v : ~ v.constant)])
      layout == Layout([k \in 1..Len(variables) |-> variables[k].type])
  IN  [k \in 1..Len(layout.offsets) |->
         [contract |-> variables[k].contract, name |-> variables[k].name, type |-> variables[k].type,
          slot |-> layout.offsets[k][1], byte |-> layout.offsets[k][2]]]

RECURSIVE SizeOnStack(_)
ArraySizeOnStack(t) == IF t.loc = "CallData" /\ IsDynamicallySized(t) THEN 2 ELSE 1
TupleSizeOnStack(t) ==
  LET sum[k \in 0..Len(t.components)] ==
        IF k = 0 THEN 0 ELSE sum[k - 1] + (IF t.components[k] = Null THEN 0 ELSE SizeOnStack(t.components[k]))
  IN  sum[Len(t.components)]
FunctionSizeOnStack(t) ==
  LET kind == IF t.kind \in {"SetGas", "SetValue"} THEN t.returns[1].kind ELSE t.kind
      one(b) == IF b THEN 1 ELSE 0
  IN  (CASE kind \in {"External", "DelegateCall"} -> 2
         [] kind \in {"BareCall", "BareCallCode", "BareDelegateCall", "BareStaticCall", "Internal",
                      "ArrayPush", "ArrayPop", "ByteArrayPush"} -> 1
         [] OTHER -> 0)
      + one(t.gasSet) + one(t.valueSet) + (IF t.bound THEN SizeOnStack(t.params[1]) ELSE 0)
TypeTypeSizeOnStack(t) == IF t.actual.cat = "Contract" /\ Contracts[t.actual.name].kind = "library" THEN 1 ELSE 0

SizeOnStack(t) ==
  CASE t.cat = "Array" -> ArraySizeOnStack(t)
    [] t.cat = "Contract" -> IF t.super THEN 0 ELSE 1
    [] t.cat = "Tuple" -> TupleSizeOnStack(t)
    [] t.cat = "Function" -> FunctionSizeOnStack(t)
    [] t.cat = "TypeType" -> TypeTypeSizeOnStack(t)
    [] t.cat \in {"StringLiteral", "Modifier", "Magic"} -> 0
    [] OTHER -> 1

SelectorBits == SelectorBytes * ByteBits
RoundUp(n) == ((n + WordBytes - 1) \div WordBytes) * WordBytes

RECURSIVE CalldataEncodedSize(_, _)
ArrayEncodedSize(t, padded) ==
  IF IsDynamicallySized(t) THEN WordBytes ELSE RoundUp(t.length * CalldataEncodedSize(t.base, padded))
\* zero if any member is of unknown size
StructEncodedSize(t, padded) ==
  LET m == StructMembers(t)
      size[k \in 1..Len(m)] == IF CanLiveOutsideStorage(m[k].type) THEN CalldataEncodedSize(m[k].type, padded) ELSE 0
      sum[k \in 0..Len(m)] == IF k = 0 THEN 0 ELSE sum[k - 1] + size[k]
  IN  IF \E k \in 1..Len(m) : size[k] = 0 THEN 0 ELSE sum[Len(m)]

CalldataEncodedSize(t, padded) ==
  CASE t.cat \in {"Address", "Contract", "Integer", "FixedPoint", "FixedBytes", "Bool", "Enum"} ->
         IF padded THEN WordBytes ELSE StorageBytes(t)
    [] t.cat = "Function" -> IF padded THEN RoundUp(StorageBytes(t)) ELSE StorageBytes(t)
    [] t.cat = "Array" -> ArrayEncodedSize(t, padded)
    [] t.cat = "Struct" -> StructEncodedSize(t, padded)
    [] t.cat = "InaccessibleDynamic" -> WordBytes
    [] OTHER -> 0

MemoryHeadSize(t) == IF IsReference(t) THEN WordBytes ELSE CalldataEncodedSize(t, TRUE)

MemoryMembers(t) == SelectSeq(Structs[t.name], LAMBDA m : CanLiveOutsideStorage(m.type))
MemoryOffset(members, n) ==
  LET sum[k \in 0..n] == IF k = 0 THEN 0 ELSE sum[k - 1] + MemoryHeadSize(members[k].type) IN sum[n]
MemoryOffsetOfMember(t, name) == MemoryOffset(StructMembers(t), MemberIndex(t, name) - 1)
MemorySize(t) ==
  IF t.cat = "Array" THEN t.length * MemoryHeadSize(t.base)
  ELSE MemoryOffset(MemoryMembers(t), Len(MemoryMembers(t)))

-----------------------------------------------------------------------------
(* How values cross the boundary of a contract *)

\* The structs inside a struct, through arrays; recursive: a cycle can be reached.
RECURSIVE InnerBase(_)
InnerBase(t) == IF t.cat = "Array" THEN InnerBase(t.base) ELSE t
InnerStructs(name) ==
  {InnerBase(Structs[name][k].type).name : k \in {j \in 1..Len(Structs[name]) : InnerBase(Structs[name][j].type).cat = "Struct"}}
ReachableStructs(names) ==
  LET at[k \in 0..Cardinality(DOMAIN Structs)] ==
        IF k = 0 THEN names ELSE at[k - 1] \cup UNION {InnerStructs(n) : n \in at[k - 1]}
  IN  at[Cardinality(DOMAIN Structs)]
IsRecursive(name) == \E n \in ReachableStructs({name}) : n \in ReachableStructs(InnerStructs(n))

EncodingType(t) ==
  CASE t.cat \in {"Address", "Integer", "FixedPoint", "FixedBytes", "Bool"} -> t
    [] t.cat = "Contract" -> IF t.super THEN Null ELSE Address(IsPayable(t.name))
    [] t.cat = "Array" -> IF t.loc = "Storage" THEN Uint ELSE CopyForLocation(t, "Memory", TRUE)
    [] t.cat = "Struct" -> IF t.loc = "Storage" THEN Uint ELSE t
    [] t.cat = "Enum" -> Integer(ByteBits * EnumBytes(t.name), FALSE)
    [] t.cat = "Function" -> IF t.kind = "External" THEN t ELSE Null
    [] t.cat = "Mapping" -> Uint
    [] OTHER -> Null

DecodingType(t) ==
  CASE t.cat = "Array" -> IF t.loc = "Storage" THEN Uint ELSE t
    [] t.cat = "InaccessibleDynamic" -> Uint
    [] OTHER -> EncodingType(t)

RECURSIVE CanBeUsedExternally(_, _)
RECURSIVE InterfaceType(_, _)
ArrayInterfaceType(t, inLibrary) ==
  IF inLibrary /\ t.loc = "Storage" THEN t
  ELSE IF IsByteArray(t) THEN CopyForLocation(t, "Memory", TRUE)
  ELSE LET base == InterfaceType(t.base, inLibrary) IN IF base = Null THEN Null ELSE Array("Memory", base, t.length)
StructInterfaceType(t, inLibrary) ==
  IF ~ CanBeUsedExternally(t, inLibrary) THEN Null
  ELSE IF inLibrary /\ t.loc = "Storage" THEN t ELSE CopyForLocation(t, "Memory", TRUE)
InterfaceType(t, inLibrary) ==
  CASE t.cat \in {"Address", "Integer", "FixedPoint", "FixedBytes", "Bool"} -> t
    [] t.cat \in {"Contract", "Enum"} ->
         IF t.cat = "Contract" /\ t.super THEN Null ELSE IF inLibrary THEN t ELSE EncodingType(t)
    [] t.cat = "Array" -> ArrayInterfaceType(t, inLibrary)
    [] t.cat = "Struct" -> StructInterfaceType(t, inLibrary)
    [] t.cat = "Function" -> IF t.kind = "External" THEN t ELSE Null
    [] t.cat = "Mapping" -> IF inLibrary THEN t ELSE Null
    [] OTHER -> Null

ArrayUsableExternally(t, inLibrary) ==
  (inLibrary /\ t.loc = "Storage") \/ IsByteArray(t) \/ CanBeUsedExternally(t.base, inLibrary)
StructUsableExternally(t, inLibrary) ==
  \/ inLibrary /\ t.loc = "Storage"
  \/ /\ ~ IsRecursive(t.name)
     /\ \A k \in 1..Len(Structs[t.name]) : CanBeUsedExternally(Structs[t.name][k].type, FALSE)
CanBeUsedExternally(t, inLibrary) ==
  CASE t.cat = "Array" -> ArrayUsableExternally(t, inLibrary)
    [] t.cat = "Struct" -> StructUsableExternally(t, inLibrary)
    [] OTHER -> InterfaceType(t, inLibrary) # Null

RECURSIVE IsDynamicallyEncoded(_)
StructDynamicallyEncoded(t) ==
  \E k \in 1..Len(MemoryMembers(t)) : IsDynamicallyEncoded(InterfaceType(MemoryMembers(t)[k].type, FALSE))
IsDynamicallyEncoded(t) ==
  CASE t.cat = "Array" -> IsDynamicallySized(t) \/ IsDynamicallyEncoded(t.base)
    [] t.cat = "Struct" -> StructDynamicallyEncoded(t)
    [] OTHER -> FALSE

RECURSIVE ClosestTemporaryType(_, _)
TupleClosestTemporaryType(t, target) ==
  Tuple([k \in 1..Len(target.components) |->
           IF t.components[k] = Null \/ target.components[k] = Null THEN Null
           ELSE ClosestTemporaryType(t.components[k], target.components[k])])
ClosestTemporaryType(t, target) ==
  IF t.cat = "Tuple" THEN TupleClosestTemporaryType(t, target)
  ELSE IF DataStoredIn(target, "Storage") THEN MobileType(t) ELSE target

FullEncodingType(t, inLibraryCall, encoderV2, packed) ==
  LET mobile == MobileType(t)
      interface == IF mobile = Null THEN Null ELSE InterfaceType(mobile, inLibraryCall)
      encoding == IF interface = Null THEN Null ELSE EncodingType(interface)
  IN  IF encoding = Null \/ (inLibraryCall /\ DataStoredIn(encoding, "Storage")) THEN encoding
      ELSE IF InnerBase(encoding).cat = "Struct" /\ (~ encoderV2 \/ packed) THEN Null
      ELSE encoding

-----------------------------------------------------------------------------
(* Functions and members.  A declaration is <<contract, "f" or "v", k>>:   *)
(* the k-th function or state variable of the contract.                    *)

VisibilityRank(v) == IndexOf(<<"Private", "Internal", "Public", "External">>, v)
IsPublic(d) == VisibilityRank(d.visibility) >= VisibilityRank("Public")
IsVisibleInDerivedContracts(d) == d.visibility \in {"Internal", "Public"}
IsVisibleAsLibraryMember(d) == d.visibility # "Private"

\* FunctionType(FunctionDefinition)
FunctionTypeOf(c, k, internal) ==
  LET f == Contracts[c].functions[k]
  IN  Function(f.params, f.returns, IF internal THEN "Internal" ELSE "External",
               IF internal /\ f.mutability = "Payable" THEN "NonPayable" ELSE f.mutability, <<c, "f", k>>)

\* FunctionType(VariableDeclaration): the getter takes the keys and indices on the way
\* to the value, and returns a struct as those of its members that are no mapping and
\* no array.
RECURSIVE GetterParams(_)
GetterParams(t) ==
  CASE t.cat = "Mapping" -> <<t.key>> \o GetterParams(t.value)
    [] t.cat = "Array" /\ ~ IsByteArray(t) -> <<Uint>> \o GetterParams(t.base)
    [] OTHER -> << >>
RECURSIVE GetterValue(_)
GetterValue(t) ==
  CASE t.cat = "Mapping" -> GetterValue(t.value)
    [] t.cat = "Array" /\ ~ IsByteArray(t) -> GetterValue(t.base)
    [] OTHER -> t
GetterMembers(t) ==
  SelectSeq(StructMembers(t), LAMBDA m : m.type.cat # "Mapping" /\ ~ (m.type.cat = "Array" /\ ~ IsByteArray(m.type)))
GetterTypeOf(c, k) ==
  LET t == Contracts[c].variables[k].type
      value == GetterValue(t)
      members == GetterMembers(value)
      returns == IF value.cat = "Struct" THEN [j \in 1..Len(members) |-> members[j].type] ELSE <<value>>
  IN  Function(GetterParams(t), [j \in 1..Len(returns) |-> CopyForLocationIfReference("Memory", returns[j])],
               "External", "View", <<c, "v", k>>)

NewExpressionType(c) ==
  LET constructor == Contracts[c].constructor
  IN  Function(constructor.params, <<Contract(c, FALSE)>>, "Creation",
               IF constructor.payable THEN "Payable" ELSE "NonPayable", << >>)

StructConstructorType(name) ==
  LET members == SelectSeq(Structs[name], LAMBDA m : CanLiveOutsideStorage(m.type))
  IN  Function([k \in 1..Len(members) |-> CopyForLocationIfReference("Memory", members[k].type)],
               <<Struct(name, "Memory", FALSE)>>, "Internal", "NonPayable", << >>)

ParameterTypes(f) == IF f.bound THEN Tail(f.params) ELSE f.params

ReturnTypesWithoutDynamicTypes(f) ==
  [k \in 1..Len(f.returns) |->
     IF f.kind \in {"External", "DelegateCall", "BareCall", "BareCallCode", "BareDelegateCall", "BareStaticCall"}
        /\ IsDynamicallySized(f.returns[k]) /\ ~ DataStoredIn(f.returns[k], "Storage")
     THEN InaccessibleDynamic ELSE f.returns[k]]

\* FunctionType::interfaceFunctionType
InterfaceFunctionType(f) ==
  LET inLibrary == Contracts[f.decl[1]].kind = "library"
      ext(s) == [k \in 1..Len(s) |-> InterfaceType(s[k], inLibrary)]
  IN  IF (\E t \in Range(ext(f.params)) \cup Range(ext(f.returns)) : t = Null) \/ (f.decl[2] = "v" /\ f.returns = << >>)
      THEN Null ELSE [f EXCEPT !.params = ext(f.params), !.returns = ext(f.returns)]

\* What externalSignature tells apart: the name and the parameters as they are encoded
RECURSIVE SignatureOf(_, _)
ArraySignature(t, structsByName) ==
  IF IsByteArray(t) THEN <<"bytes", t.kind>> ELSE <<"array", SignatureOf(t.base, structsByName), t.length>>
StructSignature(t, structsByName) ==
  IF structsByName THEN <<"name", t.name>>
  ELSE <<"struct", [k \in 1..Len(MemoryMembers(t)) |->
                      SignatureOf(InterfaceType(MemoryMembers(t)[k].type, FALSE), FALSE)]>>
SignatureOf(t, structsByName) ==
  CASE t.cat = "Address" -> <<"address">>
    [] t.cat = "Function" -> <<"function">>
    [] t.cat = "Array" -> ArraySignature(t, structsByName)
    [] t.cat = "Struct" -> StructSignature(t, structsByName)
    [] t.cat = "Mapping" -> <<"mapping", SignatureOf(t.key, structsByName), SignatureOf(t.value, structsByName)>>
    [] OTHER -> <<"plain", t>>

ExternalSignature(name, f) ==
  LET inLibrary == Contracts[f.decl[1]].kind = "library"
      params == InterfaceFunctionType(f).params
  IN  <<name, [k \in 1..Len(params) |-> <<SignatureOf(params[k], inLibrary), inLibrary /\ DataStoredIn(params[k], "Storage")>>]>>

\* ContractDefinition::interfaceFunctionList: the most derived contract comes first.
InterfaceFunctionList(c) ==
  LET defined(b) == [k \in 1..Len(Contracts[b].functions) |->
                       [name |-> Contracts[b].functions[k].name, type |-> FunctionTypeOf(b, k, FALSE),
                        public |-> IsPublic(Contracts[b].functions[k])]]
      getters(b) == [k \in 1..Len(Contracts[b].variables) |->
                       [name |-> Contracts[b].variables[k].name, type |-> GetterTypeOf(b, k),
                        public |-> IsPublic(Contracts[b].variables[k])]]
      bases == Contracts[c].bases
      all == Concat([k \in 1..Len(bases) |-> defined(bases[k]) \o getters(bases[k])])
      offered == SelectSeq(all, LAMBDA m : m.public /\ InterfaceFunctionType(m.type) # Null)
      step(seen, m) ==
        IF \E k \in 1..Len(seen) : ExternalSignature(seen[k].name, seen[k].type) = ExternalSignature(m.name, m.type)
        THEN seen ELSE Append(seen, [name |-> m.name, type |-> m.type])
  IN  Walk(step, << >>, offered)

AsCallableFunction(f, inLibrary, bound) ==
  LET public == IF f.decl[2] = "f" THEN IsPublic(Contracts[f.decl[1]].functions[f.decl[3]]) ELSE TRUE
  IN  [f EXCEPT !.params = [k \in 1..Len(@) |-> IF DataStoredIn(@[k], "CallData") THEN CopyForLocation(@[k], "Memory", TRUE) ELSE @[k]],
                !.kind = IF inLibrary THEN IF public THEN "DelegateCall" ELSE "Internal" ELSE @,
                !.bound = bound]

CanTakeArguments(f, arguments, self) ==
  /\ f.bound => IsImplicitlyConvertibleTo(self, f.params[1])
  /\ \/ f.arbitrary
     \/ /\ Len(arguments) = Len(ParameterTypes(f))
        /\ \A k \in 1..Len(arguments) : IsImplicitlyConvertibleTo(arguments[k], ParameterTypes(f)[k])

IsBareCall(f) == f.kind \in {"BareCall", "BareCallCode", "BareDelegateCall", "BareStaticCall", "ECRecover", "SHA256", "RIPEMD160"}
IsPureKind(f) == f.kind \in {"KECCAK256", "ECRecover", "SHA256", "RIPEMD160", "AddMod", "MulMod", "ObjectCreation", "ABIEncode",
                             "ABIEncodePacked", "ABIEncodeWithSelector", "ABIEncodeWithSignature", "ABIDecode"}
TakesSinglePackedBytesParameter(f) ==
  f.kind \in {"KECCAK256", "SHA256", "RIPEMD160", "BareCall", "BareCallCode", "BareDelegateCall", "BareStaticCall"}
PadArguments(f) ==
  f.kind \notin {"BareCall", "BareCallCode", "BareDelegateCall", "BareStaticCall", "SHA256", "RIPEMD160", "KECCAK256", "ABIEncodePacked"}

Member(name, type) == [name |-> name, type |-> type]

AddressMembers(t) ==
  LET bytes == ByteArray("Memory", FALSE)
      bare(kind, mutability) == Function(<<bytes>>, <<Bool, bytes>>, kind, mutability, << >>)
  IN  {Member("balance", Uint), Member("call", bare("BareCall", "Payable")), Member("callcode", bare("BareCallCode", "Payable")),
       Member("delegatecall", bare("BareDelegateCall", "NonPayable")), Member("staticcall", bare("BareStaticCall", "View"))}
      \cup (IF t.payable THEN {Member("send", Function(<<Uint>>, <<Bool>>, "Send", "NonPayable", << >>)),
                               Member("transfer", Function(<<Uint>>, << >>, "Transfer", "NonPayable", << >>))} ELSE {})

ArrayMembers(t) ==
  (IF IsString(t) THEN {} ELSE {Member("length", Uint)})
  \cup (IF IsDynamicallySized(t) /\ t.loc = "Storage" /\ ~ IsString(t)
        THEN {Member("push", Function(<<t.base>>, <<Uint>>, IF IsByteArray(t) THEN "ByteArrayPush" ELSE "ArrayPush", "NonPayable", << >>)),
              Member("pop", Function(<< >>, << >>, "ArrayPop", "NonPayable", << >>))} ELSE {})

\* super: of the functions with the same name and parameters, the first in the order of bases
SuperMembers(c) ==
  LET bases == Tail(Contracts[c].bases)
      all == Concat([b \in 1..Len(bases) |-> [k \in 1..Len(Contracts[bases[b]].functions) |-> <<bases[b], k>>]])
      def(p) == Contracts[p[1]].functions[p[2]]
      visible == SelectSeq(all, LAMBDA p : IsVisibleInDerivedContracts(def(p)) /\ def(p).implemented)
      step(seen, p) ==
        IF \E k \in 1..Len(seen) : def(seen[k]).name = def(p).name /\ SameTypes(def(seen[k]).params, def(p).params)
        THEN seen ELSE Append(seen, p)
      kept == Walk(step, << >>, visible)
  IN  {Member(def(kept[k]).name, FunctionTypeOf(kept[k][1], kept[k][2], TRUE)) : k \in 1..Len(kept)}

ContractMembers(t) ==
  IF t.super THEN SuperMembers(t.name)
  ELSE IF Contracts[t.name].kind = "library" THEN {}
  ELSE {Member(m.name, AsCallableFunction(m.type, FALSE, FALSE)) : m \in Range(InterfaceFunctionList(t.name))}

CopyAndSetGasOrValue(f, gas, value) == [f EXCEPT !.gasSet = @ \/ gas, !.valueSet = @ \/ value]
FunctionMembers(f) ==
  LET setter(kind, gas, value) ==
        [Function(<<Uint>>, <<CopyAndSetGasOrValue(f, gas, value)>>, kind, "NonPayable", << >>)
           EXCEPT !.gasSet = f.gasSet, !.valueSet = f.valueSet]
  IN  IF f.kind \notin {"External", "Creation", "BareCall", "BareCallCode", "BareDelegateCall", "BareStaticCall"} THEN {}
      ELSE (IF f.kind = "External" THEN {Member("selector", FixedBytes(SelectorBytes))} ELSE {})
           \cup (IF f.kind # "BareDelegateCall" /\ f.mutability = "Payable" THEN {Member("value", setter("SetValue", FALSE, TRUE))} ELSE {})
           \cup (IF f.kind # "Creation" THEN {Member("gas", setter("SetGas", TRUE, FALSE))} ELSE {})

\* ContractDefinition::inheritableMembers: one member for every name
InheritableMembers(c) ==
  LET visible == SelectSeq([k \in 1..Len(Contracts[c].functions) |-> Member(Contracts[c].functions[k].name, k)],
                           LAMBDA m : IsVisibleInDerivedContracts(Contracts[c].functions[m.type]))
      first == {k \in 1..Len(visible) : \A j \in 1..(k - 1) : visible[j].name # visible[k].name}
      variables == {k \in 1..Len(Contracts[c].variables) : IsVisibleInDerivedContracts(Contracts[c].variables[k])}
  IN  {Member(visible[k].name, FunctionTypeOf(c, visible[k].type, TRUE)) : k \in first}
      \cup {Member(Contracts[c].variables[k].name, Contracts[c].variables[k].type) : k \in variables}

TypeTypeMembers(t, scope) ==
  CASE t.actual.cat = "Contract" ->
         LET c == t.actual.name
             functions == Contracts[c].functions
         IN  (IF Contracts[c].kind # "library" THEN {}
              ELSE {Member(functions[k].name, AsCallableFunction(FunctionTypeOf(c, k, TRUE), TRUE, FALSE)) :
                      k \in {j \in 1..Len(functions) : IsVisibleAsLibraryMember(functions[j])}})
             \cup (IF scope \in DOMAIN Contracts /\ c \in Range(Contracts[scope].bases) THEN InheritableMembers(c) ELSE {})
    [] t.actual.cat = "Enum" -> {Member(name, t.actual) : name \in Range(Enums[t.actual.name])}
    [] OTHER -> {}

MagicMembers(t) ==
  LET bytes == ByteArray("Memory", FALSE)
      fun(params, returns, kind, mutability) == Function(params, returns, kind, mutability, << >>)
      abi(params, kind) == [fun(params, IF kind = "ABIDecode" THEN << >> ELSE <<bytes>>, kind, "Pure") EXCEPT !.arbitrary = TRUE]
  IN  CASE t.kind = "Block" ->
             {Member("coinbase", Address(TRUE)), Member("timestamp", Uint), Member("difficulty", Uint), Member("number", Uint),
              Member("gaslimit", Uint), Member("blockhash", fun(<<Uint>>, <<FixedBytes(WordBytes)>>, "BlockHash", "View")),
              Member("ethash", fun(<<Uint, FixedBytes(WordBytes), FixedBytes(WordBytes), Uint, Uint>>, <<Bool>>, "Ethash", "View"))}
        [] t.kind = "Message" ->
             {Member("sender", Address(TRUE)), Member("gas", Uint), Member("value", Uint), Member("data", ByteArray("CallData", FALSE)),
              Member("sig", FixedBytes(SelectorBytes))}
        [] t.kind = "Transaction" -> {Member("origin", Address(TRUE)), Member("gasprice", Uint)}
        [] t.kind = "ABI" ->
             {Member("encode", abi(<< >>, "ABIEncode")), Member("encodePacked", abi(<< >>, "ABIEncodePacked")),
              Member("encodeWithSelector", abi(<<FixedBytes(SelectorBytes)>>, "ABIEncodeWithSelector")),
              Member("encodeWithSignature", abi(<<ByteArray("Memory", TRUE)>>, "ABIEncodeWithSignature")),
              Member("decode", abi(<< >>, "ABIDecode"))}

NativeMembers(t, scope) ==
  CASE t.cat = "Address" -> AddressMembers(t)
    [] t.cat = "FixedBytes" -> {Member("length", Integer(ByteBits, FALSE))}
    [] t.cat = "Array" -> ArrayMembers(t)
    [] t.cat = "Struct" -> Range(StructMembers(t))
    [] t.cat = "Contract" -> ContractMembers(t)
    [] t.cat = "Function" -> FunctionMembers(t)
    [] t.cat = "TypeType" -> TypeTypeMembers(t, scope)
    [] t.cat = "Magic" -> MagicMembers(t)
    [] OTHER -> {}

\* Type::boundFunctions: "using L for T" attaches the library functions whose first
\* parameter takes the type.
BoundFunctions(t, scope) ==
  LET bases == Contracts[scope].bases
      uses == Concat([b \in 1..Len(bases) |-> Contracts[bases[b]].using])
      applies(u) == u.type = Null \/ SameType(CopyForLocationIfReference("Storage", t), CopyForLocationIfReference("Storage", u.type))
      libraries == {u.library : u \in {v \in Range(uses) : applies(v)}}
      candidates == UNION {{<<l, k>> : k \in 1..Len(Contracts[l].functions)} : l \in libraries}
      def(p) == Contracts[p[1]].functions[p[2]]
      bound(p) == AsCallableFunction(FunctionTypeOf(p[1], p[2], FALSE), TRUE, TRUE)
  IN  {Member(def(p).name, bound(p)) :
         p \in {q \in candidates : /\ IsVisibleAsLibraryMember(def(q)) /\ def(q).params # << >>
                                   /\ IsImplicitlyConvertibleTo(t, bound(q).params[1])}}

Members(t, scope) == NativeMembers(t, scope) \cup (IF scope \in DOMAIN Contracts THEN BoundFunctions(t, scope) ELSE {})

=============================================================================
