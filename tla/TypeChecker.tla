---------------------------- MODULE TypeChecker ----------------------------
(***************************************************************************)
(* The type checker (libsolidity/analysis/TypeChecker.cpp) and, first, the *)
(* checks of whole contracts (ContractLevelChecker.cpp).                   *)
(*                                                                         *)
(* A contract is the record Contracts[c]; bases is its linearisation, c    *)
(* itself first, and inherits the list of its bases as written, with the   *)
(* arguments that are given.  A definition is <<contract, "f" or "v", k>>. *)
(* Every check is the set of the errors it reports.                        *)
(*                                                                         *)
(* An expression is a record: node is its class, and the annotation is in  *)
(* its fields type, requested (lValueRequested), pure, lvalue, constant    *)
(* and, below a call, arguments: << >> or the argument types in a tuple of *)
(* their own.  Check(e, s) fills the annotation in, and puts the errors    *)
(* reported for e and below into errors; after a fatal error, which ends   *)
(* the analysis, type stays Null.  A failed assertion is an error too.     *)
(* s is the scope: [contract, returns: the return types or Null, emit].    *)
(*                                                                         *)
(* A declaration is [kind, id], for a local variable and a global one of   *)
(* the language also its type, and for a local one its role: "local",      *)
(* "parameter", "external" (parameter of an external function), "return".  *)
(***************************************************************************)
EXTENDS Types

CONSTANT Hash(_)                \* external: keccak256 of a signature, as a word

Unless(ok, error) == IF ok THEN {} ELSE {error}

HashSelector(signature) == Hash(signature) \div 2^(WordBits - SelectorBits)

Functions(c) == Contracts[c].functions
FunctionsOf(c) == [k \in 1..Len(Functions(c)) |-> <<c, "f", k>>]
VariablesOf(c) == [k \in 1..Len(Contracts[c].variables) |-> <<c, "v", k>>]
Raw(d) == IF d[2] = "f" THEN Functions(d[1])[d[3]] ELSE Contracts[d[1]].variables[d[3]]
Linearised(c, of(_)) == LET bases == Contracts[c].bases IN Concat([b \in 1..Len(bases) |-> of(bases[b])])
IsLibrary(c) == Contracts[c].kind = "library"

CallableType(d) ==
  AsCallableFunction(IF d[2] = "f" THEN FunctionTypeOf(d[1], d[3], TRUE) ELSE GetterTypeOf(d[1], d[3]), FALSE, FALSE)
EqualParameters(d, other) == SameTypes(CallableType(d).params, CallableType(other).params)
IsPartOfExternalInterface(d) ==
  IsPublic(Raw(d)) /\ (d[2] = "f" => ~ Raw(d).constructor /\ ~ Raw(d).fallback)

-----------------------------------------------------------------------------
(* Duplicates and overriding *)

CheckDuplicateFunctions(c) ==
  LET all == Range(FunctionsOf(c))
      named == {d \in all : ~ Raw(d).constructor /\ ~ Raw(d).fallback}
  IN  Unless(Cardinality({d \in all : Raw(d).constructor}) <= 1, "More than one constructor defined.")
      \cup Unless(Cardinality({d \in all : ~ Raw(d).constructor /\ Raw(d).fallback}) <= 1, "Only one fallback function is allowed.")
      \cup Unless(\A d, e \in named : d # e /\ Raw(d).name = Raw(e).name => ~ EqualParameters(d, e),
                  "Function with same name and arguments defined twice.")

CheckDuplicateEvents(c) ==
  LET events == Contracts[c].events
  IN  Unless(\A j, k \in 1..Len(events) : j # k /\ events[j].name = events[k].name => ~ SameTypes(events[j].params, events[k].params),
             "Event with same name and arguments defined twice.")

\* External may become public; nothing else of a function may change.
CheckFunctionOverride(d, super) ==
  LET f == Raw(d)
      g == Raw(super)
  IN  IF ~ EqualParameters(d, super) THEN {}
      ELSE Unless(SameTypes(CallableType(d).returns, CallableType(super).returns), "Overriding function return types differ.")
           \cup Unless(f.visibility = g.visibility \/ (g.visibility = "External" /\ f.visibility = "Public"),
                       "Overriding function visibility differs.")
           \cup Unless(f.mutability = g.mutability, "Overriding function changes state mutability.")

\* A function is compared with every function of its name in a more derived contract
\* and with those before it in its own.
CheckIllegalOverrides(c) ==
  LET functions == SelectSeq(Linearised(c, FunctionsOf), LAMBDA d : ~ Raw(d).constructor)
      modifiers == Linearised(c, LAMBDA b : Contracts[b].modifiers)
      first(k) == modifiers[CHOOSE j \in 1..k : modifiers[j].name = modifiers[k].name /\ \A i \in 1..(j - 1) : modifiers[i].name # modifiers[k].name]
      types(m) == [j \in 1..Len(m.params) |-> m.params[j].type]
  IN  UNION {CheckFunctionOverride(functions[j], functions[k]) :
               <<j, k>> \in {p \in (DOMAIN functions) \X (DOMAIN functions) : p[1] < p[2] /\ Raw(functions[p[1]]).name = Raw(functions[p[2]]).name}}
      \cup Unless(\A k \in DOMAIN modifiers : SameTypes(types(first(k)), types(modifiers[k])), "Override changes modifier signature.")
      \cup Unless(\A k \in DOMAIN modifiers, j \in DOMAIN functions : modifiers[k].name # Raw(functions[j]).name,
                  "Override changes function to modifier.")

-----------------------------------------------------------------------------
(* What is left to implement *)

\* checkAbstractFunctions, from the most basic contract on: for every name and parameters
\* whether it is implemented, and whether it is redeclared as abstract after that
Registered(c) ==
  LET bases == Contracts[c].bases
      of(b) == SelectSeq(VariablesOf(b), IsPartOfExternalInterface) \o SelectSeq(FunctionsOf(b), LAMBDA d : ~ Raw(d).constructor)
      all == Concat([b \in 1..Len(bases) |-> of(bases[Len(bases) + 1 - b])])
      implemented(d) == d[2] = "v" \/ Raw(d).implemented
      same(d, entry) == Raw(d).name = Raw(entry.decl).name /\ EqualParameters(d, entry.decl)
      step(entries, d) ==
        LET known == {k \in 1..Len(entries) : same(d, entries[k])}
        IN  IF known = {} THEN Append(entries, [decl |-> d, implemented |-> implemented(d), redeclared |-> FALSE])
            ELSE [entries EXCEPT ![CHOOSE k \in known : TRUE].implemented = @ \/ implemented(d),
                                 ![CHOOSE k \in known : TRUE].redeclared =
                                   @ \/ (entries[CHOOSE k \in known : TRUE].implemented /\ ~ implemented(d))]
  IN  Walk(step, << >>, all)

CheckAbstractFunctions(c) ==
  Unless(\A k \in DOMAIN Registered(c) : ~ Registered(c)[k].redeclared, "Redeclaring an already implemented function as abstract")

\* checkBaseConstructorArguments: where the arguments of every base constructor are
\* given: <<contract, "modifier", k, of>> or <<contract, "inherits", k, of>>; the first counts
ConstructorOf(b) == {k \in 1..Len(Functions(b)) : Functions(b)[k].constructor}
TheConstructor(b) == Functions(b)[CHOOSE k \in ConstructorOf(b) : TRUE]
BaseInvocations(b) ==
  IF ConstructorOf(b) = {} THEN << >>
  ELSE LET m == TheConstructor(b).modifiers
       IN  SelectSeq([k \in 1..Len(m) |-> <<b, "modifier", k, m[k].id>>], LAMBDA x : m[x[3]].kind = "base")
ArgumentNodes(b) ==
  LET inherits == Contracts[b].inherits
  IN  SelectSeq(BaseInvocations(b), LAMBDA x : TheConstructor(b).modifiers[x[3]].given /\ ConstructorOf(x[4]) # {})
      \o SelectSeq([k \in 1..Len(inherits) |-> <<b, "inherits", k, inherits[k].base>>],
                   LAMBDA x : inherits[x[3]].args # << >> /\ ConstructorOf(x[4]) # {})
BaseConstructorArguments(c) ==
  LET nodes == Linearised(c, ArgumentNodes)
  IN  [b \in {nodes[k][4] : k \in DOMAIN nodes} |-> SelectSeq(nodes, LAMBDA x : x[4] = b)[1]]

CheckBaseConstructorArguments(c) ==
  LET nodes == Linearised(c, ArgumentNodes)
      calls == Linearised(c, BaseInvocations)
  IN  Unless(\A j, k \in DOMAIN nodes : nodes[j][4] = nodes[k][4] => j = k, "Base constructor arguments given twice.")
      \cup Unless(\A k \in DOMAIN calls : TheConstructor(calls[k][1]).modifiers[calls[k][3]].given,
                  "Modifier-style base constructor call without arguments.")

UnimplementedFunctions(c) ==
  {Registered(c)[k].decl : k \in {j \in DOMAIN Registered(c) : ~ Registered(c)[j].implemented}}
  \cup {<<b, "constructor", 0>> : b \in {x \in Range(Contracts[c].bases) \ {c} :
                                           /\ ConstructorOf(x) # {} /\ TheConstructor(x).params # << >>
                                           /\ x \notin DOMAIN BaseConstructorArguments(c)}}

-----------------------------------------------------------------------------
(* Constructor, fallback function, interface and libraries *)

CheckConstructor(c) ==
  IF ConstructorOf(c) = {} THEN {}
  ELSE LET f == TheConstructor(c)
       IN  Unless(f.returns = << >>, "Non-empty returns directive for constructor.")
           \cup Unless(f.mutability \in {"NonPayable", "Payable"}, "Constructor must be payable or non-payable.")
           \cup Unless(f.visibility \in {"Public", "Internal"}, "Constructor must be public or internal.")

\* ContractDefinition::fallbackFunction: that of the most derived contract that has one
FallbackFunction(c) == SelectSeq(Linearised(c, FunctionsOf), LAMBDA d : Raw(d).fallback)
CheckFallbackFunction(c) ==
  IF FallbackFunction(c) = << >> THEN {}
  ELSE LET f == Raw(FallbackFunction(c)[1])
       IN  Unless(~ IsLibrary(c), "Libraries cannot have fallback functions.")
           \cup Unless(f.mutability \in {"NonPayable", "Payable"}, "Fallback function must be payable or non-payable.")
           \cup Unless(f.params = << >>, "Fallback function cannot take parameters.")
           \cup Unless(f.returns = << >>, "Fallback function cannot return values.")
           \cup Unless(f.visibility = "External", "Fallback function must be defined as external.")

ExternalTypeOf(d) == IF d[2] = "f" THEN FunctionTypeOf(d[1], d[3], TRUE) ELSE GetterTypeOf(d[1], d[3])
CheckExternalTypeClashes(c) ==
  LET offered == SelectSeq(Linearised(c, LAMBDA b : FunctionsOf(b) \o VariablesOf(b)),
                           LAMBDA d : IsPartOfExternalInterface(d) /\ InterfaceFunctionType(ExternalTypeOf(d)) # Null)
      signature(d) == ExternalSignature(Raw(d).name, ExternalTypeOf(d))
  IN  Unless(\A j, k \in DOMAIN offered : signature(offered[j]) = signature(offered[k]) => EqualParameters(offered[j], offered[k]),
             "Function overload clash during conversion to external types for arguments.")

ExternalIdentifier(f) == HashSelector(ExternalSignature(Raw(f.decl).name, f))
CheckHashCollisions(c) ==
  LET list == InterfaceFunctionList(c)
  IN  Unless(\A j, k \in DOMAIN list : ExternalIdentifier(list[j].type) = ExternalIdentifier(list[k].type) => j = k,
             "Function signature hash collision.")

CheckLibraryRequirements(c) ==
  IF ~ IsLibrary(c) THEN {}
  ELSE Unless(Contracts[c].inherits = << >>, "Library is not allowed to inherit.")
       \cup Unless(\A d \in Range(VariablesOf(c)) : Raw(d).constant, "Library cannot have non-constant state variables")

CheckContractLevel(c) ==
  CheckDuplicateFunctions(c) \cup CheckDuplicateEvents(c) \cup CheckIllegalOverrides(c) \cup CheckAbstractFunctions(c)
  \cup CheckBaseConstructorArguments(c) \cup CheckConstructor(c) \cup CheckFallbackFunction(c) \cup CheckExternalTypeClashes(c)
  \cup CheckHashCollisions(c) \cup CheckLibraryRequirements(c)

-----------------------------------------------------------------------------
(* The type checker *)

CONSTANT MaxEncodedSize         \* the largest unsigned

NotTyped == [type |-> Null, requested |-> FALSE, pure |-> FALSE, lvalue |-> FALSE, constant |-> FALSE,
             arguments |-> << >>, errors |-> {}]
\* A node as the parser and the name resolution leave it
Expression(class, fields) == [node |-> class] @@ fields @@ NotTyped

\* These are warnings.
Warnings == {"two copies to storage", "literal might overflow", "result of low-level call not used", "failure of send ignored"}
Accepted(x) == x.errors \subseteq Warnings

ErrorsOf(xs) == UNION {x.errors : x \in Range(xs) \ {Null}}
Annotate(e, type, pure, lvalue, errors) ==
  [e EXCEPT !.type = type, !.pure = pure, !.lvalue = lvalue, !.errors = errors]
Fatal(e, errors) == [e EXCEPT !.errors = errors]

\* The annotation of e, unless a fatal error has stopped the analysis below it
WithChildren(e, children, annotated) ==
  IF \E x \in Range(children) \ {Null} : x.type = Null THEN Fatal(e, ErrorsOf(children))
  ELSE [annotated EXCEPT !.errors = @ \cup ErrorsOf(children)]

RECURSIVE Check(_, _), CheckExpressionAssignment(_, _)

CheckAll(expressions, s) == [k \in 1..Len(expressions) |-> Check(expressions[k], s)]

\* expectType, on an expression that has been checked
Expected(x, t) == Unless(IsImplicitlyConvertibleTo(x.type, t), "not implicitly convertible to expected type")
ExpectType(e, t, s) ==
  LET x == Check(e, s) IN IF x.type = Null THEN x ELSE [x EXCEPT !.errors = @ \cup Expected(x, t)]
RequireLValue(e, s) ==
  LET x == Check([e EXCEPT !.requested = TRUE], s)
  IN  IF x.type = Null THEN x
      ELSE [x EXCEPT !.errors = @ \cup (IF x.constant THEN {"Cannot assign to a constant variable."}
                                        ELSE Unless(x.lvalue, "Expression has to be an lvalue."))]

RECURSIVE TypeSupportedByOldABIEncoder(_)
TypeSupportedByOldABIEncoder(t) ==
  \/ DataStoredIn(t, "Storage")
  \/ /\ t.cat # "Struct"
     /\ t.cat = "Array" => TypeSupportedByOldABIEncoder(t.base) /\ ~ (t.base.cat = "Array" /\ IsDynamicallySized(t.base))

-----------------------------------------------------------------------------
(* Declarations *)

VariableOf(d) == Contracts[d[1]].variables[d[3]]

\* Declaration::type
EventType(c, k) == Function(Contracts[c].events[k].params, << >>, "Event", "NonPayable", <<c, "e", k>>)
DeclarationType(d) ==
  CASE d.kind \in {"local", "magic"} -> d.type
    [] d.kind = "variable" -> VariableOf(d.id).type
    [] d.kind = "function" -> FunctionTypeOf(d.id[1], d.id[3], TRUE)
    [] d.kind = "event" -> EventType(d.id[1], d.id[3])
    [] d.kind = "contract" -> TypeType(Contract(d.id, FALSE))
    [] d.kind = "struct" -> TypeType(Struct(d.id, "Storage", TRUE))
    [] d.kind = "enum" -> TypeType(Enum(d.id))

IsVariable(d) == d.kind \in {"local", "variable"}
IsConstant(d) == d.kind = "variable" /\ VariableOf(d.id).constant
DeclarationIsLValue(d) == IsVariable(d) /\ ~ IsConstant(d) /\ (d.kind = "local" => d.role # "external")

\* FunctionType::parameterNames; << >> where the code has none
ParameterNames(f) ==
  LET names == CASE f.kind = "Creation" ->
                      LET c == f.returns[1].name IN IF ConstructorOf(c) = {} THEN << >> ELSE TheConstructor(c).paramNames
                 [] f.kind # "Creation" /\ f.decl = << >> -> << >>
                 [] f.decl # << >> /\ f.decl[2] = "f" -> Raw(f.decl).paramNames
                 [] f.decl # << >> /\ f.decl[2] = "e" -> Contracts[f.decl[1]].events[f.decl[3]].names
                 [] OTHER -> [k \in 1..Len(f.params) |-> ""]
  IN  IF f.bound /\ names # << >> THEN Tail(names) ELSE names

-----------------------------------------------------------------------------
(* Expressions other than calls and members *)

CheckConditional(e, s) ==
  LET condition == ExpectType(e.condition, Bool, s)
      true == Check(e.true, s)
      false == Check(e.false, s)
      x == [e EXCEPT !.condition = condition, !.true = true, !.false = false]
      a == MobileType(true.type)
      b == MobileType(false.type)
      common == CommonType(a, b)
  IN  WithChildren(x, <<condition, true, false>>,
            IF a = Null \/ b = Null THEN Fatal(x, {"Invalid mobile type."})
            ELSE Annotate(x, IF common = Null THEN a ELSE common, condition.pure /\ true.pure /\ false.pure, FALSE,
                          Unless(common # Null, "types of the branches do not match")
                          \cup Unless(~ e.requested, "Conditional expression as left value is not supported yet.")))

CheckExpressionAssignment(t, e) ==
  CASE e.node = "Tuple" ->
         LET types == IF t.cat = "Tuple" THEN t.components ELSE <<t>>
         IN  UNION {CheckExpressionAssignment(types[k], e.components[k]) :
                      k \in {j \in 1..Min({Len(types), Len(e.components)}) : types[j] # Null}}
    [] e.node # "Tuple" /\ t.cat = "Mapping" ->
         Unless(e.node = "Identifier" /\ e.decl.kind = "local" /\ e.decl.role \in {"local", "return"}, "Mappings cannot be assigned to.")
    [] OTHER -> {}

\* Storage copies are not buffered: with two of them, one source may be overwritten.
CheckDoubleStorageAssignment(left, right) ==
  LET n == Len(left.components)
      toStorage == {k \in 1..n : /\ left.components[k] # Null /\ IsReference(left.components[k])
                                 /\ left.components[k].loc = "Storage" /\ ~ left.components[k].pointer}
      fromStorage == {k \in toStorage : DataStoredIn(right.components[k], "Storage")}
  IN  IF Len(right.components) # n THEN {}
      ELSE Unless(~ (Cardinality(toStorage) >= 2 /\ fromStorage # {}), "two copies to storage")

CheckAssignment(e, s) ==
  LET left == RequireLValue(e.left, s)
      t == left.type
      isTuple == t.cat = "Tuple"
      simple == isTuple \/ e.op = "Assign"
      right == IF simple THEN ExpectType(e.right, t, s) ELSE Check(e.right, s)
      result == BinaryOperatorResult(e.op, t, right.type)
      x == [e EXCEPT !.left = left, !.right = right]
  IN  IF t = Null THEN Fatal(e, left.errors)
      ELSE WithChildren(x, <<left, right>>,
                 Annotate(x, IF isTuple THEN NoValue ELSE t, FALSE, FALSE,
                          CheckExpressionAssignment(t, left)
                          \cup Unless(isTuple => e.op = "Assign", "Compound assignment is not allowed for tuple types.")
                          \cup (IF isTuple /\ right.type.cat = "Tuple" THEN CheckDoubleStorageAssignment(t, right.type) ELSE {})
                          \cup (IF simple THEN {} ELSE Unless(result # Null /\ SameType(result, t), "Operator not compatible with types"))))

CheckTupleLValue(e, s) ==
  LET components == [k \in 1..Len(e.components) |-> IF e.components[k] = Null THEN Null ELSE RequireLValue(e.components[k], s)]
      types == [k \in 1..Len(components) |-> IF components[k] = Null THEN Null ELSE components[k].type]
      x == [e EXCEPT !.components = components]
  IN  IF e.inlineArray THEN Fatal(e, {"Inline array type cannot be declared as LValue."})
      ELSE WithChildren(x, components, Annotate(x, IF Len(types) = 1 THEN types[1] ELSE Tuple(types), FALSE, TRUE, {}))

InlineArrayType(types) ==
  LET step(common, t) == IF common = Null THEN Null ELSE CommonType(common, t)
  IN  IF types = << >> THEN Null ELSE Walk(step, MobileType(types[1]), Tail(types))

CheckTupleValue(e, s) ==
  LET components == CheckAll(e.components, s)
      types == [k \in 1..Len(components) |-> components[k].type]
      x == [e EXCEPT !.components = components]
      unmoved(k) == types[k].cat = "RationalNumber" /\ MobileType(types[k]) = Null
      element == InlineArrayType(types)
      pure == \A k \in 1..Len(components) : components[k].pure
      fatal == (IF Len(types) > 1 THEN Unless(\A k \in 1..Len(types) : ~ unmoved(k), "Invalid rational number.") ELSE {})
               \cup (IF ~ e.inlineArray THEN {}
                     ELSE Unless(NoValue \notin Range(types), "Array component cannot be empty.")
                          \cup Unless(\A k \in 1..Len(types) : MobileType(types[k]) # Null, "Invalid mobile type.")
                          \cup Unless(element # Null, "Unable to deduce common type for array elements.")
                          \cup Unless(element = Null \/ CanLiveOutsideStorage(element), "Type is only valid in storage."))
      value == IF e.inlineArray THEN Array("Memory", element, Len(types)) ELSE IF Len(types) = 1 THEN types[1] ELSE Tuple(types)
  IN  IF Null \in Range(e.components) THEN Fatal(e, {"Tuple component cannot be empty."})
      ELSE WithChildren(x, components,
                 IF fatal # {} THEN Fatal(x, fatal)
                 ELSE Annotate(x, value, pure, FALSE, Unless(NoValue \notin Range(types), "Tuple component cannot be empty.")))
CheckTuple(e, s) == IF e.requested THEN CheckTupleLValue(e, s) ELSE CheckTupleValue(e, s)

CheckUnary(e, s) ==
  LET modifying == e.op \in {"Inc", "Dec", "Delete"}
      sub == IF modifying THEN RequireLValue(e.sub, s) ELSE Check(e.sub, s)
      t == UnaryOperatorResult(e.op, sub.type)
      x == [e EXCEPT !.sub = sub]
  IN  WithChildren(x, <<sub>>, Annotate(x, IF t = Null THEN sub.type ELSE t, ~ modifying /\ sub.pure, FALSE,
                                 Unless(t # Null, "Unary operator cannot be applied to type")))

CheckBinary(e, s) ==
  LET left == Check(e.left, s)
      right == Check(e.right, s)
      result == BinaryOperatorResult(e.op, left.type, right.type)
      common == IF result = Null THEN left.type ELSE result
      narrow == common.cat \in {"Integer", "FixedPoint"} /\ common.bits # WordBits
      x == [e EXCEPT !.left = left, !.right = right]
  IN  WithChildren(x, <<left, right>>,
            [Annotate(x, IF e.op \in CompareOps THEN Bool ELSE common, left.pure /\ right.pure, FALSE,
                      Unless(result # Null, "Operator not compatible with types")
                      \cup Unless(~ (/\ e.op \in {"Exp", "SHL"} /\ left.type.cat = "RationalNumber"
                                     /\ right.type.cat # "RationalNumber" /\ narrow), "literal might overflow"))
             EXCEPT !.common = common])

\* Literal::looksLikeAddress: about as many hexadecimal digits as an address has
LooksLikeAddress(l) == l.token = "Number" /\ l.denomination = "none" /\ AbsInt(l.number.hexDigits - 2 * AddressBytes) <= 1
CheckLiteral(e) ==
  LET l == e.literal
      address == LooksLikeAddress(l)
      t == IF address THEN Address(TRUE) ELSE LiteralType(l)
      isHex == l.token = "Number" /\ l.number.hexDigits > 0
      errors == (IF address THEN Unless(l.number.hexDigits = 2 * AddressBytes /\ l.checksum, "invalid address literal") ELSE {})
                \cup Unless(l.denomination # "year", "Using years as a unit denomination is deprecated.")
  IN  CASE isHex /\ l.denomination # "none" -> Fatal(e, errors \cup {"Hexadecimal numbers cannot be used with unit denominations."})
        [] ~ (isHex /\ l.denomination # "none") /\ t = Null -> Fatal(e, errors \cup {"Invalid literal value."})
        [] OTHER -> Annotate(e, t, TRUE, FALSE, errors)

CheckElementaryTypeName(e) == Annotate(e, TypeType(e.name), TRUE, FALSE, {})

\* Overload resolution: without a call only a variable is meant.
ResolvedDeclaration(e) ==
  LET taking(d) == CanTakeArguments(DeclarationType(d), e.arguments[1], Null)
      matches == IF e.arguments = << >> THEN SelectSeq(e.candidates, IsVariable)
                 ELSE IF Len(e.candidates) = 1 THEN e.candidates ELSE SelectSeq(e.candidates, taking)
  IN  IF e.decl # Null THEN <<e.decl>> ELSE matches
CheckIdentifier(e) ==
  LET found == ResolvedDeclaration(e)
      d == found[1]
      t == DeclarationType(d)
  IN  IF Len(found) # 1 THEN Fatal(e, {"No unique declaration found after lookup."})
      ELSE [Annotate(e, t, IsConstant(d) \/ (d.kind = "magic" /\ t.cat = "Function"), DeclarationIsLValue(d),
                     Unless(e.name \notin {"sha3", "suicide"} \/ t.cat # "Function" \/ t.kind \notin {"KECCAK256", "Selfdestruct"},
                            "deprecated function"))
            EXCEPT !.decl = d, !.constant = IsConstant(d)]

CheckIndexAccess(e, s) ==
  LET base == Check(e.base, s)
      t == base.type
      none == e.index = Null
      wanted == CASE t.cat = "Mapping" -> t.key [] OTHER -> Uint
      index == IF none THEN Null
               ELSE IF t.cat = "Array" /\ IsString(t) THEN Check(e.index, s) ELSE ExpectType(e.index, wanted, s)
      x == [e EXCEPT !.base = base, !.index = index]
      fits == none \/ IsImplicitlyConvertibleTo(index.type, wanted)
      number == ~ none /\ index.type.cat = "RationalNumber"
      within(n) == Unless(~ (fits /\ number) \/ LiteralValue(index.type) < n, "Out of bounds array access.")
      given == Unless(~ none, "Index expression cannot be omitted.")
      pure == base.pure /\ (none \/ index.pure)
      length == IF none THEN Dynamic ELSE LiteralValue(index.type)
  IN  IF t = Null THEN Fatal(e, base.errors)
      ELSE WithChildren(x, <<base, index>>,
             CASE t.cat = "Array" ->
                    Annotate(x, t.base, pure, t.loc # "CallData",
                             given \cup Unless(none \/ ~ IsString(t), "Index access for string is not possible.")
                             \cup (IF IsString(t) \/ IsDynamicallySized(t) THEN {} ELSE within(t.length)))
               [] t.cat = "Mapping" -> Annotate(x, t.value, pure, TRUE, given)
               [] t.cat = "TypeType" ->
                    IF none \/ number THEN Annotate(x, TypeType(Array("Memory", t.actual, length)), pure, FALSE, {})
                    ELSE Fatal(x, {"Integer constant expected."})
               [] t.cat = "FixedBytes" ->
                    IF fits THEN Annotate(x, FixedBytes(1), pure, FALSE, given \cup within(t.bytes))
                    ELSE Fatal(x, {"Index expression cannot be represented as an unsigned integer."})
               [] OTHER -> Fatal(x, {"Indexed expression has to be a type, mapping or array"}))

-----------------------------------------------------------------------------
(* Members *)

MembersByName(t, name, s) == {m \in Members(t, s.contract) : m.name = name}
PossibleMembers(e, t, s) ==
  LET all == MembersByName(t, e.member, s)
  IN  IF Cardinality(all) <= 1 \/ e.arguments = << >> THEN all
      ELSE {m \in all : m.type.cat = "Function" => CanTakeArguments(m.type, e.arguments[1], t)}

\* The declaration of a member: the function, or the variable of a contract
MemberDeclaration(t, m) ==
  LET ofContract == t.cat = "TypeType" /\ t.actual.cat = "Contract"
      variables == IF ofContract THEN {d \in Range(VariablesOf(t.actual.name)) : Raw(d).name = m.name} ELSE {}
  IN  IF variables # {} THEN [kind |-> "variable", id |-> CHOOSE d \in variables : TRUE]
      ELSE IF m.type.cat = "Function" /\ m.type.decl # << >>
      THEN [kind |-> IF m.type.decl[2] = "v" THEN "variable" ELSE "function", id |-> m.type.decl]
      ELSE [kind |-> "none"]

MemberIsLValue(t, m) ==
  CASE t.cat = "Struct" -> TRUE
    [] t.cat = "Array" -> m.name = "length" /\ t.loc = "Storage" /\ IsDynamicallySized(t)
    [] t.cat = "TypeType" /\ t.actual.cat = "Contract" -> DeclarationIsLValue(MemberDeclaration(t, m))
    [] OTHER -> FALSE

CheckMemberAccess(e, s) ==
  LET sub == Check(e.sub, s)
      t == sub.type
      x == [e EXCEPT !.sub = sub]
      possible == PossibleMembers(e, t, s)
      m == CHOOSE n \in possible : TRUE
      onlyInStorage == MembersByName(t, e.member, s) = {} /\ MembersByName(CopyForLocationIfReference("Storage", t), e.member, s) # {}
      pure == (t.cat = "TypeType" /\ t.actual.cat = "Enum") \/ (t.cat = "Magic" /\ t.kind = "ABI")
  IN  WithChildren(x, <<sub>>,
        CASE possible = {} /\ onlyInStorage -> Fatal(x, {"Member is not available outside of storage."})
          [] possible = {} /\ ~ onlyInStorage -> Fatal(x, {"Member not found or not visible after argument-dependent lookup"})
          [] Cardinality(possible) > 1 -> Fatal(x, {"Member not unique after argument-dependent lookup"})
          [] OTHER ->
               [Annotate(x, m.type, pure, MemberIsLValue(t, m),
                         Unless(~ (m.type.cat = "Function" /\ m.type.bound) \/ IsImplicitlyConvertibleTo(t, m.type.params[1]),
                                "Function cannot be called on an object of this type"))
                EXCEPT !.decl = MemberDeclaration(t, m)])

-----------------------------------------------------------------------------
(* Calls.  The arguments have been checked. *)

\* Memory is the location of a converted reference, unless the argument has another.
CheckTypeConversion(call) ==
  LET named == call.fun.type.actual
      arg == call.args[1].type
      located == IF IsReference(named) THEN CopyForLocation(named, IF IsReference(arg) THEN arg.loc ELSE "Memory", named.pointer)
                 ELSE named
      payable == IsExplicitlyConvertibleTo(arg, Address(TRUE))
  IN  IF Len(call.args) # 1 THEN [type |-> named, errors |-> {"Exactly one argument expected for explicit type conversion."}]
      ELSE IF call.names # << >> THEN [type |-> named, errors |-> {"Type conversion cannot allow named arguments."}]
      ELSE [type |-> IF located.cat = "Address" THEN Address(payable) ELSE located,
            errors |-> Unless(IsExplicitlyConvertibleTo(arg, located), "Explicit type conversion not allowed")]

MemberNames(t) == [k \in 1..Len(MemoryMembers(t)) |-> MemoryMembers(t)[k].name]
\* typeCheckFunctionGeneralChecks: every parameter gets an argument that converts to it.
\* Extra arguments of a variadic function are not looked at here.
CheckGeneral(call, f) ==
  LET params == ParameterTypes(f)
      n == Len(params)
      given == Len(call.args)
      names == IF call.kind = "StructConstructorCall" THEN MemberNames(call.fun.type.actual) ELSE ParameterNames(f)
      counted == given >= n /\ (f.arbitrary \/ given <= n)
      distinct == \A j, k \in 1..Len(call.names) : call.names[j] = call.names[k] => j = k
      argument(k) == IF call.names = << >> THEN call.args[k]
                     ELSE call.args[CHOOSE j \in 1..Len(call.names) : call.names[j] = names[k]]
  IN  CASE ~ counted -> {"Wrong argument count"}
        [] counted /\ call.names # << >> /\ Len(names) # Len(call.names) -> {"Some argument names are missing or too many."}
        [] counted /\ call.names # << >> /\ Len(names) = Len(call.names) /\ ~ distinct -> {"Duplicate named argument"}
        [] counted /\ call.names # << >> /\ Len(names) = Len(call.names) /\ distinct /\ ~ (Range(names) \subseteq Range(call.names)) ->
             {"Named argument does not match function declaration."}
        [] OTHER -> Unless(\A k \in 1..n : IsImplicitlyConvertibleTo(argument(k).type, params[k]),
                           "Invalid type for argument in function call.")

CheckCall(call, f, s) ==
  Unless(f.kind = "BareStaticCall" => StaticCall, "staticcall is not supported by the VM version.")
  \cup Unless(f.kind = "Event" => s.emit, "Event invocations have to be prefixed by emit.")
  \cup CheckGeneral(call, f)

CheckABIEncode(call, f) ==
  LET packed == f.kind = "ABIEncodePacked"
      encoded(t) ==
        IF t.cat = "RationalNumber" /\ MobileType(t) = Null THEN {"Invalid rational number (too large or division by zero)."}
        ELSE IF t.cat = "RationalNumber" /\ packed THEN {"Cannot perform packed encoding for a literal."}
        ELSE Unless(FullEncodingType(t, FALSE, FALSE, ~ PadArguments(f)) # Null, "This type cannot be encoded.")
  IN  IF call.names # << >> THEN {"Named arguments cannot be used for functions that take arbitrary parameters."}
      ELSE CheckGeneral(call, f) \cup UNION {encoded(call.args[k].type) : k \in 1..Len(call.args)}

CheckABIDecode(call) ==
  LET args == call.args
      types == IF Len(args) >= 2 /\ args[2].node = "Tuple" THEN args[2].components ELSE << >>
      isType(k) == types[k].type.cat = "TypeType"
      decoded(k) == LET t == CopyForLocationIfReference("Memory", types[k].type.actual)
                    IN  IF t.cat = "Address" THEN Address(TRUE) ELSE t
  IN  [types |-> [k \in 1..Len(types) |-> IF isType(k) THEN decoded(k) ELSE NoValue],
       errors |-> Unless(Len(args) = 2, "This function takes two arguments")
                  \cup Unless(Len(args) < 1 \/ IsImplicitlyConvertibleTo(args[1].type, ByteArray("Memory", FALSE)),
                              "Invalid type for argument in function call.")
                  \cup Unless(Len(args) < 2 \/ args[2].node = "Tuple", "The second argument to abi.decode has to be a tuple of types.")
                  \cup Unless(\A k \in 1..Len(types) : isType(k), "Argument has to be a type name.")
                  \cup Unless(\A k \in 1..Len(types) : isType(k) => FullEncodingType(decoded(k), FALSE, FALSE, FALSE) # Null,
                              "Decoding type not supported.")]

AbiEncodeKinds == {"ABIEncode", "ABIEncodePacked", "ABIEncodeWithSelector", "ABIEncodeWithSignature"}
CheckFunctionCall(e, s) ==
  LET args == CheckAll(e.args, s)
      types == [k \in 1..Len(args) |-> args[k].type]
      fun == Check([e.fun EXCEPT !.arguments = IF e.names = << >> THEN <<types>> ELSE << >>], s)
      t == fun.type
      kind == CASE t.cat = "TypeType" /\ t.actual.cat = "Struct" -> "StructConstructorCall"
                [] t.cat = "TypeType" /\ t.actual.cat # "Struct" -> "TypeConversion"
                [] OTHER -> "FunctionCall"
      x == [e EXCEPT !.args = args, !.fun = fun, !.kind = kind]
      f == IF kind = "StructConstructorCall" THEN StructConstructorType(t.actual.name) ELSE t
      pureArgs == \A k \in 1..Len(args) : args[k].pure
      pure == pureArgs /\ (t.cat = "Function" => fun.pure /\ IsPureKind(f))
      conversion == CheckTypeConversion(x)
      decode == CheckABIDecode(x)
      result(returns, errors) ==
        Annotate(x, IF Len(returns) = 1 THEN returns[1] ELSE Tuple(returns), pure, FALSE, errors)
      called == CASE f.kind = "ABIDecode" -> result(decode.types, decode.errors)
                  [] f.kind \in AbiEncodeKinds -> result(f.returns, CheckABIEncode(x, f))
                  [] OTHER -> result(IF Returndata THEN f.returns ELSE ReturnTypesWithoutDynamicTypes(f), CheckCall(x, f, s))
  IN  IF Null \in Range(types) THEN Fatal(x, ErrorsOf(args))
      ELSE WithChildren(x, Append(args, fun),
                 CASE kind = "TypeConversion" -> Annotate(x, conversion.type, pure, FALSE, conversion.errors)
                   [] kind # "TypeConversion" /\ f.cat = "Function" -> called
                   [] OTHER -> Annotate(x, NoValue, pureArgs, FALSE, {"Type is not callable"}))

\* A contract depends on its bases and on those it creates.
RECURSIVE ContractDependenciesAreCyclic(_, _)
ContractDependenciesAreCyclic(c, seen) ==
  \/ c \in seen
  \/ \E d \in (Range(Contracts[c].bases) \ {c}) \cup Contracts[c].creates : ContractDependenciesAreCyclic(d, seen \cup {c})

CheckNew(e, s) ==
  LET t == e.name
      inMemory == CopyForLocationIfReference("Memory", t)
  IN  CASE t.cat = "Contract" ->
             IF Contracts[t.name].kind = "interface" THEN Fatal(e, {"Cannot instantiate an interface."})
             ELSE Annotate(e, NewExpressionType(t.name), FALSE, FALSE,
                           Unless(UnimplementedFunctions(t.name) = {}, "Trying to create an instance of an abstract contract.")
                           \cup Unless(ConstructorOf(t.name) = {} \/ IsPublic(TheConstructor(t.name)),
                                       "Contract with internal constructor cannot be created directly.")
                           \cup Unless(~ ContractDependenciesAreCyclic(s.contract, {}), "Circular reference for contract creation"))
        [] t.cat = "Array" ->
             IF ~ CanLiveOutsideStorage(t) THEN Fatal(e, {"Type cannot live outside storage."})
             ELSE Annotate(e, Function(<<Uint>>, <<inMemory>>, "ObjectCreation", "Pure", << >>), TRUE, FALSE,
                           Unless(IsDynamicallySized(t), "Length has to be placed in parentheses"))
        [] OTHER -> Fatal(e, {"Contract or array type expected."})

Check(e, s) ==
  CASE e.node = "Literal" -> CheckLiteral(e)
    [] e.node = "Identifier" -> CheckIdentifier(e)
    [] e.node = "Unary" -> CheckUnary(e, s)
    [] e.node = "Binary" -> CheckBinary(e, s)
    [] e.node = "Conditional" -> CheckConditional(e, s)
    [] e.node = "Assignment" -> CheckAssignment(e, s)
    [] e.node = "Tuple" -> CheckTuple(e, s)
    [] e.node = "FunctionCall" -> CheckFunctionCall(e, s)
    [] e.node = "MemberAccess" -> CheckMemberAccess(e, s)
    [] e.node = "IndexAccess" -> CheckIndexAccess(e, s)
    [] e.node = "New" -> CheckNew(e, s)
    [] e.node = "ElementaryTypeName" -> CheckElementaryTypeName(e)

-----------------------------------------------------------------------------
(* Statements *)

Statement(class, fields) == [node |-> class, errors |-> {}] @@ fields
RECURSIVE CheckStatement(_, _)
\* Parts that may be missing are Null.
CheckIfAny(x, s) == IF x = Null THEN Null ELSE CheckStatement(x, s)
Reported(x, parts, errors) == [x EXCEPT !.errors = errors \cup ErrorsOf(parts)]

CheckIf(x, s) ==
  LET y == [x EXCEPT !.condition = ExpectType(@, Bool, s), !.true = CheckStatement(@, s), !.false = CheckIfAny(@, s)]
  IN  Reported(y, <<y.condition, y.true, y.false>>, {})
CheckWhile(x, s) ==
  LET y == [x EXCEPT !.condition = ExpectType(@, Bool, s), !.body = CheckStatement(@, s)]
  IN  Reported(y, <<y.condition, y.body>>, {})
CheckFor(x, s) ==
  LET y == [x EXCEPT !.init = CheckIfAny(@, s), !.condition = IF @ = Null THEN Null ELSE ExpectType(@, Bool, s),
                     !.loop = CheckIfAny(@, s), !.body = CheckStatement(@, s)]
  IN  Reported(y, <<y.init, y.condition, y.loop, y.body>>, {})

CheckReturn(x, s) ==
  LET value == Check(x.expression, s)
      t == value.type
      expected == Tuple(s.returns)
      fits == CASE t.cat = "Tuple" ->
                     IF Len(t.components) # Len(s.returns) THEN {"Different number of arguments in return statement"}
                     ELSE Unless(IsImplicitlyConvertibleTo(t, expected), "Return argument type not implicitly convertible")
                [] t.cat # "Tuple" /\ Len(s.returns) # 1 -> {"Different number of arguments in return statement"}
                [] OTHER -> Unless(IsImplicitlyConvertibleTo(t, s.returns[1]), "Return argument type not implicitly convertible")
  IN  IF x.expression = Null THEN Reported(x, << >>, Unless(s.modifier \/ s.returns = << >>, "Return arguments required."))
      ELSE LET y == [x EXCEPT !.expression = value]
           IN  Reported(y, <<value>>, IF s.modifier THEN {"Return arguments not allowed."} ELSE IF t = Null THEN {} ELSE fits)

CheckEmit(x, s) ==
  LET call == Check(x.expression, [s EXCEPT !.emit = TRUE])
      isEvent == call.kind = "FunctionCall" /\ call.fun.type.cat = "Function" /\ call.fun.type.kind = "Event"
  IN  Reported([x EXCEPT !.expression = call], <<call>>,
               Unless(call.type = Null \/ isEvent, "Expression has to be an event invocation."))

\* A variable: [id, type], for a state variable also constant, value and visibility.
ValidForCalldata(t) == ArrayEncodedSize(t, TRUE) <= MaxEncodedSize
CheckLocalVariable(v, s) ==
  Unless(Contracts[s.contract].kind # "interface", "Variables cannot be declared in interfaces.")
  \cup Unless(~ (DataStoredIn(v.type, "Memory") \/ DataStoredIn(v.type, "CallData")) \/ CanLiveOutsideStorage(v.type),
              "Type is only valid in storage.")
  \cup Unless(~ (v.type.cat = "Array" /\ v.type.loc # "Storage") \/ ValidForCalldata(v.type), "Array is too large to be encoded.")

\* One variable of a declaration with a value; "var" leaves the type open, and is refused.
CheckDeclared(v, t, s) ==
  IF v.type = Null THEN {"Use of the var keyword is disallowed."}
  ELSE CheckLocalVariable(v, s) \cup Unless(IsImplicitlyConvertibleTo(t, v.type), "not implicitly convertible to expected type")
CheckVariableDeclaration(x, s) ==
  LET v == x.declarations[1]
      value == Check(x.value, s)
      types == IF value.type.cat = "Tuple" THEN value.type.components ELSE <<value.type>>
      n == Len(x.declarations)
      without == IF n # 1 \/ v = Null \/ v.type = Null THEN {"Use of the var keyword is disallowed."}
                 ELSE Unless(~ (IsReference(v.type) /\ v.type.loc = "Storage"), "Uninitialized storage pointer.")
                      \cup Unless(v.type.cat # "Mapping", "Uninitialized mapping.")
                      \cup CheckLocalVariable(v, s)
      with == Unless(Len(types) = n, "Different number of components on the left hand side than on the right hand side")
              \cup UNION {CheckDeclared(x.declarations[k], types[k], s) :
                            k \in {j \in 1..Min({n, Len(types)}) : x.declarations[j] # Null}}
  IN  IF x.value = Null THEN Reported(x, << >>, without)
      ELSE Reported([x EXCEPT !.value = value], <<value>>, IF value.type = Null THEN {} ELSE with)

CheckExpressionStatement(x, s) ==
  LET e == Check(x.expression, s)
      kind == IF e.node = "FunctionCall" /\ e.fun.type.cat = "Function" THEN e.fun.type.kind ELSE ""
  IN  Reported([x EXCEPT !.expression = e], <<e>>,
               Unless(~ (e.type.cat = "RationalNumber" /\ MobileType(e.type) = Null), "Invalid rational number.")
               \cup Unless(kind \notin {"BareCall", "BareCallCode", "BareDelegateCall", "BareStaticCall"}, "result of low-level call not used")
               \cup Unless(kind # "Send", "failure of send ignored"))

\* A use of a Solidity identifier in inline assembly
CheckAssemblyUse(x) ==
  LET d == x.decl
      t == DeclarationType(d)
      inStorage == d.kind = "variable" \/ DataStoredIn(t, "Storage")
      suffixed == x.suffix \in {"slot", "offset"}
  IN  CASE IsVariable(d) /\ IsConstant(d) -> {"Constant variables not supported by inline assembly."}
        [] IsVariable(d) /\ ~ IsConstant(d) /\ suffixed ->
             IF ~ inStorage THEN {"The suffixes _offset and _slot can only be used on storage variables."}
             ELSE Unless(x.use = "read", "Storage variables cannot be assigned to.")
        [] IsVariable(d) /\ ~ IsConstant(d) /\ ~ suffixed ->
             IF d.kind # "local" THEN {"Only local variables are supported."}
             ELSE IF DataStoredIn(t, "Storage") THEN {"You have to use the _slot or _offset suffix"}
             ELSE Unless(SizeOnStack(t) = 1, "Only types that use one stack slot are supported.")
        [] ~ IsVariable(d) /\ suffixed -> {"The suffixes _offset and _slot can only be used on storage variables."}
        [] ~ IsVariable(d) /\ ~ suffixed /\ x.use = "write" -> {"Only local variables can be assigned to in inline assembly."}
        [] OTHER -> Unless(d.kind \in {"function", "contract"} /\ (d.kind = "contract" => IsLibrary(d.id)), "Expected a library.")
CheckInlineAssembly(x) ==
  Reported(x, << >>, UNION {CheckAssemblyUse(y) : y \in {z \in Range(x.operations) : z.use \in {"read", "write"}}})

CheckBlock(x, s) ==
  LET y == [x EXCEPT !.statements = [k \in 1..Len(@) |-> CheckStatement(@[k], s)]] IN Reported(y, y.statements, {})

CheckStatement(x, s) ==
  CASE x.node = "Block" -> CheckBlock(x, s)
    [] x.node = "If" -> CheckIf(x, s)
    [] x.node = "While" -> CheckWhile(x, s)
    [] x.node = "For" -> CheckFor(x, s)
    [] x.node = "Return" -> CheckReturn(x, s)
    [] x.node = "Emit" -> CheckEmit(x, s)
    [] x.node = "VariableDeclaration" -> CheckVariableDeclaration(x, s)
    [] x.node = "Expression" -> CheckExpressionStatement(x, s)
    [] x.node = "InlineAssembly" -> CheckInlineAssembly(x)
    [] x.node \in {"Continue", "Break", "Throw", "Placeholder"} -> x

-----------------------------------------------------------------------------
(* Definitions *)

ScopeOf(c) == [contract |-> c, returns |-> << >>, modifier |-> FALSE, emit |-> FALSE]

CheckParameter(t, f, library) ==
  LET public == IsPublic(f)
  IN  (IF t.cat = "Mapping" THEN Unless(library \/ ~ public, "Mapping types for parameters only in internal or library functions.")
       ELSE Unless(~ public \/ CanLiveOutsideStorage(t), "Type is required to live outside storage.")
            \cup Unless(~ public \/ InterfaceType(t, library) # Null,
                        "Internal or recursive type is not allowed for public or external functions."))
      \cup Unless(~ public \/ TypeSupportedByOldABIEncoder(t), "This type is only supported in the new experimental ABI encoder.")
      \cup Unless(~ (DataStoredIn(t, "Memory") \/ DataStoredIn(t, "CallData")) \/ CanLiveOutsideStorage(t), "Type is only valid in storage.")
      \cup Unless(~ (t.cat = "Array" /\ t.loc # "Storage") \/ ValidForCalldata(t), "Array is too large to be encoded.")

\* visitManually: the arguments of a modifier, or of a base constructor
CheckModifierInvocation(m, bases, s) ==
  LET args == CheckAll(m.args, s)
      isBase == m.kind = "base" /\ m.id \in Range(bases)
      modifier == Contracts[m.id[1]].modifiers[m.id[3]]
      params == CASE m.kind = "modifier" -> [k \in 1..Len(modifier.params) |-> modifier.params[k].type]
                  [] isBase -> IF ConstructorOf(m.id) = {} THEN << >> ELSE TheConstructor(m.id).params
      errors == IF m.kind # "modifier" /\ ~ isBase THEN {"Referenced declaration is neither modifier nor base class."}
                ELSE IF Len(params) # Len(args) THEN {"Wrong argument count for modifier invocation"}
                ELSE Unless(\A k \in 1..Len(args) : args[k].type # Null => IsImplicitlyConvertibleTo(args[k].type, params[k]),
                            "Invalid type for argument in modifier invocation.")
  IN  Reported([m EXCEPT !.args = args], args, errors)

CheckFunctionDefinition(c, f) ==
  LET kind == Contracts[c].kind
      library == kind = "library"
      s == [ScopeOf(c) EXCEPT !.returns = f.returns]
      modifiers == [k \in 1..Len(f.modifiers) |->
                      CheckModifierInvocation(f.modifiers[k], IF f.constructor THEN Contracts[c].bases ELSE << >>, s)]
      body == IF f.implemented THEN CheckStatement(f.body, s) ELSE f.body
      offered == IsPublic(f) /\ ~ f.constructor /\ ~ f.fallback
      errors ==
        (IF f.mutability # "Payable" THEN {}
         ELSE Unless(~ library, "Library functions cannot be payable.")
              \cup Unless(f.constructor \/ f.fallback \/ offered, "Internal functions cannot be payable."))
        \cup UNION {CheckParameter(t, f, library) : t \in Range(f.params) \cup Range(f.returns)}
        \cup Unless(\A j, k \in 1..Len(modifiers) : j # k /\ modifiers[j].kind = "base" /\ modifiers[k].kind = "base"
                                                     => modifiers[j].id # modifiers[k].id, "Base constructor already provided.")
        \cup (IF kind # "interface" THEN Unless(~ (library /\ f.constructor), "Constructor cannot be defined in libraries.")
              ELSE Unless(~ f.implemented, "Functions in interfaces cannot have an implementation.")
                   \cup Unless(f.visibility = "External", "Functions in interfaces must be declared external.")
                   \cup Unless(~ f.constructor, "Constructor cannot be defined in interfaces."))
        \cup (IF f.implemented THEN {}
              ELSE Unless(~ f.constructor, "Constructor must be implemented if declared.")
                   \cup Unless(~ library \/ IsPublic(f), "Internal library function must be implemented if declared."))
  IN  Reported([f EXCEPT !.body = body, !.modifiers = modifiers], modifiers \o (IF f.implemented THEN <<body>> ELSE << >>), errors)

CheckStateVariable(c, k) ==
  LET v == Contracts[c].variables[k]
      value == IF v.value = Null THEN Null ELSE ExpectType(v.value, v.type, ScopeOf(c))
      getter == GetterTypeOf(c, k)
      errors ==
        Unless(Contracts[c].kind # "interface", "Variables cannot be declared in interfaces.")
        \cup (IF ~ v.constant THEN {}
              ELSE Unless(IsValueType(v.type) \/ (v.type.cat = "Array" /\ IsByteArray(v.type)), "Constants of non-value type not yet implemented.")
                   \cup Unless(v.value # Null, "Uninitialized constant variable.")
                   \cup Unless(v.value = Null \/ value.pure, "Initial value for constant variable has to be compile-time constant."))
        \cup (IF ~ IsPublic(v) THEN {}
              ELSE Unless(\A t \in Range(getter.params) \cup Range(getter.returns) : TypeSupportedByOldABIEncoder(t),
                          "types only supported for getters in the new experimental ABI encoder")
                   \cup Unless(InterfaceFunctionType(getter) # Null, "Internal or recursive type is not allowed for public state variables.")
                   \cup Unless(~ (v.type.cat = "Mapping" /\ IsDynamicallySized(v.type.key) /\ v.visibility = "Public"),
                               "Dynamically-sized keys for public mappings are not supported."))
  IN  Reported([v EXCEPT !.value = value], <<value>>, errors)

CheckEventDefinition(event) ==
  LET indexed == Cardinality({k \in 1..Len(event.params) : event.indexed[k]})
      ofType(t) == Unless(CanLiveOutsideStorage(t), "Type is required to live outside storage.")
                   \cup Unless(InterfaceType(t, FALSE) # Null, "Internal or recursive type is not allowed as event parameter type.")
                   \cup Unless(TypeSupportedByOldABIEncoder(t), "This type is only supported in the new experimental ABI encoder.")
  IN  UNION {ofType(t) : t \in Range(event.params)}
      \cup Unless(indexed <= (IF event.anonymous THEN 4 ELSE 3), "More than 4 indexed arguments for event.")

\* The base as it is written in "contract C is B(args)"
CheckInheritanceSpecifier(c, base) ==
  LET b == base.base
      args == CheckAll(base.args, ScopeOf(c))
      params == IF Contracts[b].kind = "interface" \/ ConstructorOf(b) = {} THEN << >> ELSE TheConstructor(b).params
      errors == Unless(Contracts[c].kind # "interface", "Interfaces cannot inherit.")
                \cup Unless(~ IsLibrary(b), "Libraries cannot be inherited from.")
                \cup (IF args = << >> THEN {}
                      ELSE Unless(Len(params) = Len(args), "Wrong argument count for constructor call")
                           \cup Unless(\A k \in 1..Min({Len(args), Len(params)}) :
                                         args[k].type # Null => IsImplicitlyConvertibleTo(args[k].type, params[k]),
                                       "Invalid type for argument in constructor call."))
  IN  Reported([base EXCEPT !.args = args], args, errors)

CheckUsingForDirective(u) == Unless(IsLibrary(u.library), "Library name expected.")

\* Members are stored, and no struct contains itself but through a mapping or an array
\* of dynamic size.
RECURSIVE DirectStruct(_), ContainsStruct(_, _)
DirectStruct(t) == CASE t.cat = "Array" /\ ~ IsDynamicallySized(t) -> DirectStruct(t.base)
                     [] t.cat = "Struct" -> {t.name}
                     [] OTHER -> {}
ContainsStruct(name, seen) ==
  name \in seen \/ \E k \in 1..Len(Structs[name]) : \E inner \in DirectStruct(Structs[name][k].type) : ContainsStruct(inner, seen \cup {name})
CheckStructDefinition(name) ==
  Unless(\A k \in 1..Len(Structs[name]) : CanBeStored(Structs[name][k].type), "Type cannot be used in struct.")
  \cup Unless(~ ContainsStruct(name, {}), "Recursive struct definition.")

CheckModifierDefinition(c, m) ==
  LET body == CheckStatement(m.body, [ScopeOf(c) EXCEPT !.modifier = TRUE])
  IN  Reported([m EXCEPT !.body = body], <<body>>, UNION {CheckLocalVariable(m.params[k], ScopeOf(c)) : k \in 1..Len(m.params)})

CheckContractDefinition(c) ==
  LET d == Contracts[c]
      y == [d EXCEPT !.inherits = [k \in 1..Len(@) |-> CheckInheritanceSpecifier(c, @[k])],
                     !.variables = [k \in 1..Len(@) |-> CheckStateVariable(c, k)],
                     !.functions = [k \in 1..Len(@) |-> CheckFunctionDefinition(c, @[k])],
                     !.modifiers = [k \in 1..Len(@) |-> CheckModifierDefinition(c, @[k])]]
  IN  Reported(y, y.inherits \o y.variables \o y.functions \o y.modifiers,
               UNION {CheckEventDefinition(d.events[k]) : k \in 1..Len(d.events)}
               \cup UNION {CheckUsingForDirective(d.using[k]) : k \in 1..Len(d.using)})

\* Definitions with their annotations, for the code generator
DefinitionOf(d) ==
  CASE d[2] = "f" -> CheckFunctionDefinition(d[1], Functions(d[1])[d[3]])
    [] d[2] = "v" -> CheckStateVariable(d[1], d[3])
    [] d[2] = "m" -> CheckModifierDefinition(d[1], Contracts[d[1]].modifiers[d[3]])

\* What the analysis accepts: no error in any contract or struct
ProgramErrors(contracts) ==
  UNION ({CheckContractDefinition(c).errors : c \in contracts} \cup {CheckContractLevel(c) : c \in contracts}
         \cup {CheckStructDefinition(name) : name \in DOMAIN Structs})
ProgramAccepted(contracts) == ProgramErrors(contracts) \subseteq Warnings

=============================================================================
