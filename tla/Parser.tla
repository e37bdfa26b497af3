------------------------------- MODULE Parser ------------------------------
(***************************************************************************)
(* Parser (libsolidity/parsing) on ParserBase and the tokens of            *)
(* liblangutil: recursive descent with one token of lookahead, and a path  *)
(* with indices that is read before it is known whether it is a type or an *)
(* expression.  A token is its kind and, for names and literals, its text. *)
(* A fatal error is an exception: nothing is read after it.  Locations and *)
(* documentation comments are left out; inline assembly is one token.      *)
(***************************************************************************)
EXTENDS Walking

CONSTANTS MaxDepth,     \* so deep the functions of the parser may call each other: 2560
          Sources,      \* what is written: [unit, deep, edits]
          SpareTokens   \* what takes the place of a token

VARIABLES source,       \* one of Sources, once it is written
          text,         \* its tokens
          edited,       \* one of them is not as it was written
          parsed        \* what Parser::parse made of it

parserVars == <<source, text, edited, parsed>>

-----------------------------------------------------------------------------
(* Tokens (Token.h) *)

Token(kind) == [t |-> kind, v |-> ""]
Ident(name) == [t |-> "Identifier", v |-> name]

PrecedenceLevels ==
  <<{"Comma"}, {}, {"Conditional"}, {"Or"}, {"And"}, {"Equal", "NotEqual"},
    {"LessThan", "GreaterThan", "LessThanOrEqual", "GreaterThanOrEqual"}, {"BitOr"}, {"BitXor"}, {"BitAnd"},
    {"SHL", "SAR", "SHR"}, {"Add", "Sub"}, {"Mul", "Div", "Mod"}, {"Exp"}>>
AssignmentOps ==
  {"Assign", "AssignBitOr", "AssignBitXor", "AssignBitAnd", "AssignShl", "AssignSar", "AssignShr",
   "AssignAdd", "AssignSub", "AssignMul", "AssignDiv", "AssignMod"}
Precedence(t) ==
  IF t \in AssignmentOps THEN 2
  ELSE LET at == {n \in 1..Len(PrecedenceLevels) : t \in PrecedenceLevels[n]} IN IF at = {} THEN 0 ELSE CHOOSE n \in at : TRUE

CountOps == {"Inc", "Dec"}
UnaryOps == {"Not", "BitNot", "Inc", "Dec", "Delete", "Add", "Sub"}
ElementaryTypeNames ==
  {"Int", "UInt", "Bytes", "Byte", "String", "Address", "Bool", "Fixed", "UFixed", "IntM", "UIntM", "BytesM", "FixedMxN", "UFixedMxN"}
VariableVisibility == {"Public", "Private", "Internal"}
VisibilitySpecifiers == VariableVisibility \cup {"External"}
LocationSpecifiers == {"Memory", "Storage", "CallData"}
StateMutability(allowConstant) == {"Pure", "View", "Payable"} \cup (IF allowConstant THEN {"Constant"} ELSE {})
SubDenominations == {"SubWei", "SubSzabo", "SubFinney", "SubEther"} \cup {"SubSecond", "SubMinute", "SubHour", "SubDay", "SubWeek", "SubYear"}

-----------------------------------------------------------------------------
(* The parser: where it is, whether it threw, how many errors it reported, *)
(* how deep it is, m_insideModifier.  What a function returns is r.out,    *)
(* the parser afterwards r.p.                                              *)

Null == [k |-> "Null"]

StartParser(tokens) == [text |-> tokens, at |-> 1, thrown |-> FALSE, errors |-> 0, depth |-> 0, modifier |-> FALSE, endless |-> FALSE]

Ahead(p, n) ==
  IF p.thrown THEN [t |-> "Thrown", v |-> ""]
  ELSE IF p.at + n > Len(p.text) THEN [t |-> "EOS", v |-> ""] ELSE p.text[p.at + n]
Current(p) == Ahead(p, 0).t
CurrentLiteral(p) == Ahead(p, 0).v
Peek(p) == Ahead(p, 1).t
Advance(p) == IF Current(p) \in {"EOS", "Thrown"} THEN p ELSE [p EXCEPT !.at = @ + 1]

ParserError(p) == IF p.thrown THEN p ELSE [p EXCEPT !.errors = @ + 1]
FatalParserError(p) == IF p.thrown THEN p ELSE [p EXCEPT !.errors = @ + 1, !.thrown = TRUE]
ExpectToken(p, kind) == IF Current(p) = kind THEN Advance(p) ELSE FatalParserError(p)

\* RecursionGuard
Enter(p) == LET q == [p EXCEPT !.depth = @ + 1] IN IF q.depth >= MaxDepth THEN FatalParserError(q) ELSE q
Leave(p, q, out) == [p |-> [q EXCEPT !.depth = p.depth], out |-> out]
Got(p, out) == [p |-> p, out |-> out]

\* A loop: a round reads a token or throws, so there is at most one round more than tokens.
Repeat(more(_), step(_), r) ==
  LET RECURSIVE Rounds(_, _)
      Rounds(x, n) ==
        IF x.p.thrown \/ ~more(x) THEN x
        ELSE IF n = 0 THEN [x EXCEPT !.p.thrown = TRUE, !.p.endless = TRUE]
        ELSE Rounds(Settled(step(x)), n - 1)
  IN  Rounds(r, Len(r.p.text) + 2 - r.p.at)

ExpectIdentifierToken(p) == Got(ExpectToken(p, "Identifier"), CurrentLiteral(p))
ParseIdentifier(p) == LET r == ExpectIdentifierToken(Enter(p)) IN Leave(p, r.p, [k |-> "Identifier", name |-> r.out])
CreateEmptyParameterList(p) == Leave(p, Enter(p), << >>)

RECURSIVE ParseExpression(_, _), ParseBinaryExpression(_, _, _), ParseUnaryExpression(_, _), ParseLeftHandSideExpression(_, _),
          ParsePrimaryExpression(_), ParseTypeName(_, _), ParseVariableDeclaration(_, _, _), ParseParameterList(_, _, _),
          ParseFunctionHeader(_, _, _), ParseStatement(_), ParseBlock(_)

-----------------------------------------------------------------------------
(* Expressions *)

\* "[" and perhaps an expression, up to the "]"
ParseIndex(p) == IF Current(Advance(p)) = "RBrack" THEN Got(Advance(p), Null) ELSE ParseExpression(Advance(p), Null)

ParseFunctionCallListArguments(p0) ==
  LET p == Enter(p0)
      more(r) == Current(r.p) # "RParen"
      step(r) == LET e == ParseExpression(ExpectToken(r.p, "Comma"), Null) IN Got(e.p, Append(r.out, e.out))
      first == ParseExpression(p, Null)
      all == IF Current(p) = "RParen" THEN Got(p, << >>) ELSE Repeat(more, step, Got(first.p, <<first.out>>))
  IN  Leave(p0, all.p, all.out)

\* f(1, 2) or f({a: 1, b: 2}): [args, names]
ParseFunctionCallArguments(p0) ==
  LET p == Enter(p0)
      more(r) == Current(r.p) # "RBrace"
      step(r) ==
        LET name == ExpectIdentifierToken(IF r.out.names = << >> THEN r.p ELSE ExpectToken(r.p, "Comma"))
            value == ParseExpression(ExpectToken(name.p, "Colon"), Null)
            trailing == Current(value.p) = "Comma" /\ Peek(value.p) = "RBrace"
        IN  Got(IF trailing THEN Advance(ParserError(value.p)) ELSE value.p,
                [args |-> Append(r.out.args, value.out), names |-> Append(r.out.names, name.out)])
      named == Repeat(more, step, Got(Advance(p), [args |-> << >>, names |-> << >>]))
      list == ParseFunctionCallListArguments(p)
  IN  IF Current(p) = "LBrace" THEN Leave(p0, ExpectToken(named.p, "RBrace"), named.out)
      ELSE Leave(p0, list.p, [args |-> list.out, names |-> << >>])

ParseExpression(p0, partial) ==
  LET left == ParseBinaryExpression(Enter(p0), 4, partial)
      token == Current(left.p)
      right == ParseExpression(Advance(left.p), Null)
      no == ParseExpression(ExpectToken(right.p, "Colon"), Null)
  IN  IF token \in AssignmentOps
      THEN Leave(p0, right.p, [k |-> "Assignment", op |-> token, left |-> left.out, right |-> right.out])
      ELSE IF token = "Conditional"
      THEN Leave(p0, no.p, [k |-> "Conditional", cond |-> left.out, yes |-> right.out, no |-> no.out])
      ELSE Leave(p0, left.p, left.out)

ParseBinaryExpression(p0, minPrecedence, partial) ==
  LET first == ParseUnaryExpression(Enter(p0), partial)
      highest == Precedence(Current(first.p))
      level(r, precedence) ==
        LET more(x) == Precedence(Current(x.p)) = precedence
            step(x) == LET right == ParseBinaryExpression(Advance(x.p), precedence + 1, Null)
                       IN  Got(right.p, [k |-> "Binary", op |-> Current(x.p), left |-> x.out, right |-> right.out])
        IN  Repeat(more, step, r)
      levels == IF highest < minPrecedence THEN << >> ELSE [n \in 1..(highest + 1 - minPrecedence) |-> highest + 1 - n]
      all == Walk(level, first, levels)
  IN  Leave(p0, all.p, all.out)

ParseUnaryExpression(p0, partial) ==
  LET p == Enter(p0)
      sub == ParseUnaryExpression(Advance(p), Null)
      operand == ParseLeftHandSideExpression(p, partial)
      token == Current(operand.p)
  IN  IF partial = Null /\ Current(p) \in UnaryOps \cup CountOps
      THEN Leave(p0, sub.p, [k |-> "Unary", op |-> Current(p), prefix |-> TRUE, sub |-> sub.out])
      ELSE IF token \in CountOps THEN Leave(p0, Advance(operand.p), [k |-> "Unary", op |-> token, prefix |-> FALSE, sub |-> operand.out])
      ELSE Leave(p0, operand.p, operand.out)

ParseLeftHandSideExpression(p0, partial) ==
  LET p == Enter(p0)
      new == ParseTypeName(ExpectToken(p, "New"), FALSE)
      start == IF partial # Null THEN Got(p, partial)
               ELSE IF Current(p) = "New" THEN Got(new.p, [k |-> "New", type |-> new.out]) ELSE ParsePrimaryExpression(p)
      more(r) == Current(r.p) \in {"LBrack", "Period", "LParen"}
      step(r) ==
        LET index == ParseIndex(r.p)
            member == ExpectIdentifierToken(Advance(r.p))
            call == ParseFunctionCallArguments(Advance(r.p))
        IN  CASE Current(r.p) = "LBrack" -> Got(ExpectToken(index.p, "RBrack"), [k |-> "Index", base |-> r.out, index |-> index.out])
              [] Current(r.p) = "Period" -> Got(member.p, [k |-> "Member", base |-> r.out, name |-> member.out])
              [] Current(r.p) = "LParen" ->
                   Got(ExpectToken(call.p, "RParen"), [k |-> "Call", base |-> r.out, args |-> call.out.args, names |-> call.out.names])
      all == Repeat(more, step, start)
  IN  Leave(p0, all.p, all.out)

\* The parts of a tuple (a part may be missing) or of an inline array, from the bracket on
ParseComponents(p, close) ==
  LET missing(r) == Current(r.p) \in {"Comma", close}
      \* one part, if the last one was followed by a comma
      part(r) == LET e == ParseExpression(r.p, Null)
                 IN  IF ~missing(r) THEN Got(e.p, Append(r.out, e.out))
                     ELSE IF close = "RBrack" THEN Got(ParserError(r.p), r.out) ELSE Got(r.p, Append(r.out, Null))
      more(r) == Current(r.p) # close
      step(r) == part(Got(ExpectToken(r.p, "Comma"), r.out))
  IN  IF Current(p) = close THEN Got(p, << >>) ELSE Repeat(more, step, part(Got(p, << >>)))

ParsePrimaryExpression(p0) ==
  LET p == Enter(p0)
      token == Current(p)
      literal(sub) == [k |-> "Literal", t |-> token, v |-> CurrentLiteral(p), sub |-> sub]
      close == IF token = "LParen" THEN "RParen" ELSE "RBrack"
      components == ParseComponents(Advance(p), close)
  IN  CASE token = "Number" /\ Peek(p) \in SubDenominations -> Leave(p0, Advance(Advance(p)), literal(Peek(p)))
        [] token \in {"TrueLiteral", "FalseLiteral", "StringLiteral"} \/ (token = "Number" /\ Peek(p) \notin SubDenominations) ->
             Leave(p0, Advance(p), literal(""))
        [] token = "Identifier" -> Leave(p0, Advance(p), [k |-> "Identifier", name |-> CurrentLiteral(p)])
        [] token \in {"LParen", "LBrack"} ->
             Leave(p0, ExpectToken(components.p, close), [k |-> "Tuple", parts |-> components.out, array |-> token = "LBrack"])
        [] token \in ElementaryTypeNames -> Leave(p0, Advance(p), [k |-> "ElementaryType", t |-> token, v |-> CurrentLiteral(p)])
        [] OTHER -> Leave(p0, FatalParserError(p), Null)

-----------------------------------------------------------------------------
(* Type names and declarations *)

\* { mutability specifier }: "constant" is not one any more.
ParseStateMutability(p) ==
  IF Current(p) = "Constant" THEN Got(Advance(ParserError(p)), "View") ELSE Got(Advance(p), Current(p))

ParseUserDefinedTypeName(p0) ==
  LET first == ExpectIdentifierToken(Enter(p0))
      more(r) == Current(r.p) = "Period"
      step(r) == LET name == ExpectIdentifierToken(Advance(r.p)) IN Got(name.p, Append(r.out, name.out))
      all == Repeat(more, step, Got(first.p, <<first.out>>))
  IN  Leave(p0, all.p, [k |-> "UserDefined", path |-> all.out])

ParseTypeNameSuffix(p0, type) ==
  LET more(r) == Current(r.p) = "LBrack"
      step(r) == LET length == ParseIndex(r.p)
                 IN  Got(ExpectToken(length.p, "RBrack"), [k |-> "Array", base |-> r.out, length |-> length.out])
      all == Repeat(more, step, Got(Enter(p0), type))
  IN  Leave(p0, all.p, all.out)

Elementary(token, mutability) == [k |-> "Elementary", t |-> token.t, v |-> token.v, mutability |-> mutability]

\* Mutant: only "address" takes a state mutability, but no other type refuses it.
ParseElementaryTypeNameWithAny(p) ==
  LET token == Ahead(p, 0)
      q == Advance(p)
      mutability == ParseStateMutability(q)
  IN  IF Current(q) \notin StateMutability(FALSE) THEN Got(q, Elementary(token, "NonPayable"))
      ELSE Got(mutability.p, Elementary(token, IF token.t = "Address" THEN mutability.out ELSE "NonPayable"))

ParseElementaryTypeName(p) ==
  LET token == Ahead(p, 0)
      q == Advance(p)
      mutability == ParseStateMutability(q)
  IN  IF Current(q) \notin StateMutability(FALSE) THEN Got(q, Elementary(token, "NonPayable"))
      ELSE IF token.t = "Address" THEN Got(mutability.p, Elementary(token, mutability.out))
      ELSE Got(Advance(ParserError(q)), Elementary(token, "NonPayable"))

ParseMapping(p0) ==
  LET p == ExpectToken(ExpectToken(Enter(p0), "Mapping"), "LParen")
      key == Elementary(Ahead(p, 0), "NonPayable")
      value == ParseTypeName(ExpectToken(Advance(p), "Arrow"), FALSE)
  IN  IF Current(p) \notin ElementaryTypeNames THEN Leave(p0, FatalParserError(p), Null)
      ELSE Leave(p0, ExpectToken(value.p, "RParen"), [k |-> "Mapping", key |-> key, value |-> value.out])

FunctionTypeName(header) ==
  [k |-> "FunctionType", params |-> header.params, returns |-> header.returns,
   visibility |-> header.visibility, mutability |-> header.mutability]

ParseFunctionType(p0) ==
  LET header == ParseFunctionHeader(Enter(p0), TRUE, FALSE) IN Leave(p0, header.p, FunctionTypeName(header.out))

ParseTypeName(p0, allowVar) ==
  LET p == Enter(p0)
      token == Current(p)
      type == CASE token \in ElementaryTypeNames -> ParseElementaryTypeName(p)
                [] token = "Var" -> Got(Advance(IF allowVar THEN p ELSE ParserError(p)), Null)
                [] token = "Function" -> ParseFunctionType(p)
                [] token = "Mapping" -> ParseMapping(p)
                [] token = "Identifier" -> ParseUserDefinedTypeName(p)
                [] OTHER -> Got(FatalParserError(p), Null)
      suffixed == ParseTypeNameSuffix(type.p, type.out)
  IN  IF type.out = Null THEN Leave(p0, type.p, Null) ELSE Leave(p0, suffixed.p, suffixed.out)

\* What may stand between the type of a variable and its name
ParseVariableSpecifiers(p, options, type) ==
  LET allowed(t) ==
        \/ t = "Constant"
        \/ "isStateVariable" \in options /\ t \in VariableVisibility
        \/ "allowIndexed" \in options /\ t = "Indexed"
        \/ "allowLocationSpecifier" \in options /\ t \in LocationSpecifiers
      more(r) == allowed(Current(r.p))
      step(r) ==
        LET t == Current(r.p)
            set(field) == Got(Advance(r.p), [r.out EXCEPT ![field] = t])
            wrong == Got(Advance(ParserError(r.p)), r.out)
        IN  CASE t \in VariableVisibility -> IF r.out.visibility # "Default" THEN wrong ELSE set("visibility")
              [] t \in LocationSpecifiers -> IF r.out.location # "Unspecified" \/ type = Null THEN wrong ELSE set("location")
              [] t = "Indexed" -> Got(Advance(r.p), [r.out EXCEPT !.indexed = TRUE])
              [] t = "Constant" -> Got(Advance(r.p), [r.out EXCEPT !.constant = TRUE])
  IN  Repeat(more, step, Got(p, [visibility |-> "Default", location |-> "Unspecified", indexed |-> FALSE, constant |-> FALSE]))

ParseVariableDeclaration(p0, options, lookAheadType) ==
  LET p == Enter(p0)
      type == IF lookAheadType # Null THEN Got(p, lookAheadType) ELSE ParseTypeName(p, "allowVar" \in options)
      is == ParseVariableSpecifiers(type.p, options, type.out)
      name == IF "allowEmptyName" \in options /\ Current(is.p) # "Identifier" THEN Got(is.p, "") ELSE ExpectIdentifierToken(is.p)
      value == IF "allowInitialValue" \in options /\ Current(name.p) = "Assign"
               THEN ParseExpression(Advance(name.p), Null) ELSE Got(name.p, Null)
  IN  Leave(p0, value.p,
            [k |-> "Variable", type |-> type.out, name |-> name.out, value |-> value.out, visibility |-> is.out.visibility,
             state |-> "isStateVariable" \in options, indexed |-> is.out.indexed, constant |-> is.out.constant,
             location |-> is.out.location])

ParseParameterList(p0, given, allowEmpty) ==
  LET options == given \cup {"allowEmptyName"}
      p == ExpectToken(Enter(p0), "LParen")
      first == ParseVariableDeclaration(p, options, Null)
      more(r) == Current(r.p) # "RParen"
      step(r) ==
        LET next == ParseVariableDeclaration(ExpectToken(r.p, "Comma"), options, Null)
        IN  IF Current(r.p) = "Comma" /\ Peek(r.p) = "RParen" THEN Got(FatalParserError(r.p), r.out) ELSE Got(next.p, Append(r.out, next.out))
      all == IF allowEmpty /\ Current(p) = "RParen" THEN Got(p, << >>) ELSE Repeat(more, step, Got(first.p, <<first.out>>))
  IN  Leave(p0, Advance(all.p), all.out)

\* A name with arguments: of a modifier, or of a base contract
ParseInvocation(p0, name) ==
  LET arguments == ParseFunctionCallListArguments(Advance(name.p))
  IN  IF Current(name.p) = "LParen"
      THEN Leave(p0, ExpectToken(arguments.p, "RParen"), [name |-> name.out, given |-> TRUE, args |-> arguments.out])
      ELSE Leave(p0, name.p, [name |-> name.out, given |-> FALSE, args |-> << >>])
ParseModifierInvocation(p) == ParseInvocation(p, ParseIdentifier(Enter(p)))
ParseInheritanceSpecifier(p) == ParseInvocation(p, ParseUserDefinedTypeName(Enter(p)))

\* The specifiers and modifiers of a function.  One that has no name can be the type of a
\* state variable: then they end at its name, or at the visibility of the variable.
ParseFunctionSpecifiers(p, nameless, allowModifiers) ==
  LET variable(r) == nameless /\ Peek(r.p) \in {"Semicolon", "Assign"}
      typeEnds(r) == nameless /\ r.out.visibility \in {"External", "Internal"} /\ r.out.modifiers = << >>
      more(r) ==
        LET t == Current(r.p)
        IN  CASE allowModifiers /\ t = "Identifier" -> ~variable(r)
              [] t \in VisibilitySpecifiers -> ~(r.out.visibility # "Default" /\ typeEnds(r))
              [] OTHER -> t \in StateMutability(TRUE)
      step(r) ==
        LET t == Current(r.p)
            modifier == ParseModifierInvocation(r.p)
            mutability == ParseStateMutability(r.p)
            wrong == Got(Advance(ParserError(r.p)), r.out)
        IN  CASE t = "Identifier" -> Got(modifier.p, [r.out EXCEPT !.modifiers = Append(@, modifier.out)])
              [] t \in VisibilitySpecifiers ->
                   IF r.out.visibility # "Default" THEN wrong ELSE Got(Advance(r.p), [r.out EXCEPT !.visibility = t])
              [] OTHER -> IF r.out.mutability # "NonPayable" THEN wrong ELSE Got(mutability.p, [r.out EXCEPT !.mutability = mutability.out])
  IN  Repeat(more, step, Got(p, [visibility |-> "Default", mutability |-> "NonPayable", modifiers |-> << >>]))

ParseFunctionHeader(p0, forceEmptyName, allowModifiers) ==
  LET p == Enter(p0)
      isConstructor == Current(p) = "Constructor"
      q == Advance(p)
      name == IF isConstructor \/ forceEmptyName \/ Current(q) = "LParen" THEN Got(q, "")
              ELSE IF Current(q) = "Constructor" THEN Got(FatalParserError(q), "") ELSE ExpectIdentifierToken(q)
      params == ParseParameterList(name.p, {"allowLocationSpecifier"}, TRUE)
      is == ParseFunctionSpecifiers(params.p, name.out = "" /\ ~isConstructor, allowModifiers)
      returns == IF Current(is.p) = "Returns" THEN ParseParameterList(Advance(is.p), {"allowLocationSpecifier"}, FALSE)
                 ELSE CreateEmptyParameterList(is.p)
  IN  Leave(p0, returns.p,
            [constructor |-> isConstructor, name |-> name.out, params |-> params.out, returns |-> returns.out,
             visibility |-> is.out.visibility, mutability |-> is.out.mutability, modifiers |-> is.out.modifiers])

-----------------------------------------------------------------------------
(* Statements *)

\* An expression, a declaration, or something that may still be both
PeekStatementType(p) ==
  LET token == Current(p)
      next == Peek(p)
  IN  IF token \in {"Mapping", "Function", "Var"} THEN "VariableDeclaration"
      ELSE IF token \notin ElementaryTypeNames \cup {"Identifier"} THEN "Expression"
      ELSE IF token \in ElementaryTypeNames /\ next \in StateMutability(FALSE) THEN "VariableDeclaration"
      ELSE IF next = "Identifier" \/ next \in LocationSpecifiers THEN "VariableDeclaration"
      ELSE IF next \in {"LBrack", "Period"} THEN "IndexAccessStructure"
      ELSE "Expression"

\* a.b.c[1][2] or uint[1][2]: [path, indices]
ParsePath(p) ==
  LET first == ParseIdentifier(p)
      more(r) == Current(r.p) = "Period"
      step(r) == LET id == ParseIdentifier(Advance(r.p)) IN Got(id.p, Append(r.out, id.out))
  IN  Repeat(more, step, Got(first.p, <<first.out>>))
ParseIndexAccessedPath(p) ==
  LET path == IF Current(p) = "Identifier" THEN ParsePath(p)
              ELSE Got(Advance(p), <<[k |-> "ElementaryType", t |-> Current(p), v |-> CurrentLiteral(p)]>>)
      more(r) == Current(r.p) = "LBrack"
      step(r) == LET index == ParseIndex(r.p) IN Got(ExpectToken(index.p, "RBrack"), Append(r.out, index.out))
      indices == Repeat(more, step, Got(path.p, << >>))
  IN  Got(indices.p, [path |-> path.out, indices |-> indices.out])

NoPath == [path |-> << >>, indices |-> << >>]

TypeNameFromIndexAccessStructure(p, iap) ==
  LET front == iap.path[1]
      named == IF front.k = "ElementaryType" THEN Elementary(front, "NonPayable")
               ELSE [k |-> "UserDefined", path |-> [n \in 1..Len(iap.path) |-> iap.path[n].name]]
      array(type, length) == [k |-> "Array", base |-> type, length |-> length]
  IN  IF iap = NoPath THEN Got(p, Null) ELSE Leave(p, Enter(p), Walk(array, named, iap.indices))

ExpressionFromIndexAccessStructure(p, iap) ==
  LET member(e, identifier) == [k |-> "Member", base |-> e, name |-> identifier.name]
      index(e, i) == [k |-> "Index", base |-> e, index |-> i]
  IN  IF iap = NoPath THEN Got(p, Null) ELSE Leave(p, Enter(p), Walk(index, Walk(member, iap.path[1], Tail(iap.path)), iap.indices))

\* Mutant: a location does not make it a declaration.
TryParseBeforeName(p) ==
  LET iap == ParseIndexAccessedPath(p)
  IN  IF PeekStatementType(p) # "IndexAccessStructure" THEN Got(p, [type |-> PeekStatementType(p), iap |-> NoPath])
      ELSE Got(iap.p, [type |-> IF Current(iap.p) = "Identifier" THEN "VariableDeclaration" ELSE "Expression", iap |-> iap.out])

TryParseIndexAccessedPath(p) ==
  LET iap == ParseIndexAccessedPath(p)
      declares == Current(iap.p) \in {"Identifier"} \cup LocationSpecifiers
  IN  IF PeekStatementType(p) # "IndexAccessStructure" THEN Got(p, [type |-> PeekStatementType(p), iap |-> NoPath])
      ELSE Got(iap.p, [type |-> IF declares THEN "VariableDeclaration" ELSE "Expression", iap |-> iap.out])

ParseExpressionStatement(p0, partial) ==
  LET e == ParseExpression(Enter(p0), partial) IN Leave(p0, e.p, [k |-> "ExpressionStatement", e |-> e.out])

DeclarationStatement(variables, value) == [k |-> "Declaration", variables |-> variables, value |-> value]

\* var (a, , b): the names
ParseVarList(p) ==
  LET untyped(name) == [k |-> "Variable", type |-> Null, name |-> name, value |-> Null, visibility |-> "Default", state |-> FALSE,
                        indexed |-> FALSE, constant |-> FALSE, location |-> "Unspecified"]
      one(r) == LET name == ExpectIdentifierToken(r.p)
                IN  IF Current(r.p) \in {"Comma", "RParen"} THEN Got(r.p, Append(r.out, Null)) ELSE Got(name.p, Append(r.out, untyped(name.out)))
      more(r) == Current(r.p) # "RParen"
      step(r) == one(Got(ExpectToken(r.p, "Comma"), r.out))
      all == IF Current(p) = "RParen" THEN Got(p, << >>) ELSE Repeat(more, step, one(Got(p, << >>)))
  IN  Got(Advance(all.p), all.out)

ParseVariableDeclarationStatement(p0, lookAheadType) ==
  LET p == Enter(p0)
      declared == ParseVariableDeclaration(p, {"allowVar", "allowLocationSpecifier"}, lookAheadType)
      variables == IF lookAheadType = Null /\ Current(p) = "Var" /\ Peek(p) = "LParen" THEN ParseVarList(Advance(Advance(p)))
                   ELSE Got(declared.p, <<declared.out>>)
      value == IF Current(variables.p) = "Assign" THEN ParseExpression(Advance(variables.p), Null) ELSE Got(variables.p, Null)
  IN  Leave(p0, value.p, DeclarationStatement(variables.out, value.out))

\* What begins with "(": a tuple that is declared or an expression
ParseTupleStatement(p0, p) ==
  LET comma(r) == Current(r.p) = "Comma"
      skip(r) == Got(Advance(r.p), Append(r.out, Null))
      empty == Repeat(comma, skip, Got(ExpectToken(p, "LParen"), << >>))
      try == TryParseIndexAccessedPath(empty.p)
      options == {"allowLocationSpecifier"}
      type == TypeNameFromIndexAccessStructure(try.p, try.out.iap)
      variable == ParseVariableDeclaration(type.p, options, type.out)
      more(r) == Current(r.p) # "RParen"
      missing(q) == Current(q) \in {"Comma", "RParen"}
      declare(r) == LET q == ExpectToken(r.p, "Comma")
                        next == ParseVariableDeclaration(q, options, Null)
                    IN  IF missing(q) THEN Got(q, Append(r.out, Null)) ELSE Got(next.p, Append(r.out, next.out))
      variables == Repeat(more, declare, Got(variable.p, Append(empty.out, variable.out)))
      value == ParseExpression(ExpectToken(ExpectToken(variables.p, "RParen"), "Assign"), Null)
      begun == ExpressionFromIndexAccessStructure(try.p, try.out.iap)
      component == ParseExpression(begun.p, begun.out)
      add(r) == LET q == ExpectToken(r.p, "Comma")
                    e == ParseExpression(q, Null)
                IN  IF missing(q) THEN Got(q, Append(r.out, Null)) ELSE Got(e.p, Append(r.out, e.out))
      components == Repeat(more, add, Got(component.p, Append(empty.out, component.out)))
      rest == ParseExpressionStatement(ExpectToken(components.p, "RParen"), [k |-> "Tuple", parts |-> components.out, array |-> FALSE])
  IN  IF try.out.type = "VariableDeclaration" THEN Leave(p0, value.p, DeclarationStatement(variables.out, value.out))
      ELSE Leave(p0, rest.p, rest.out)

ParseSimpleStatement(p0) ==
  LET p == Enter(p0)
      try == TryParseIndexAccessedPath(p)
      type == TypeNameFromIndexAccessStructure(try.p, try.out.iap)
      declaration == ParseVariableDeclarationStatement(type.p, type.out)
      begun == ExpressionFromIndexAccessStructure(try.p, try.out.iap)
      expression == ParseExpressionStatement(begun.p, begun.out)
  IN  IF Current(p) = "LParen" THEN ParseTupleStatement(p0, p)
      ELSE IF try.out.type = "VariableDeclaration" THEN Leave(p0, declaration.p, declaration.out)
      ELSE Leave(p0, expression.p, expression.out)

\* keyword "(" condition ")"
ParseCondition(p, keyword) ==
  LET e == ParseExpression(ExpectToken(ExpectToken(p, keyword), "LParen"), Null) IN Got(ExpectToken(e.p, "RParen"), e.out)

ParseIfStatement(p0) ==
  LET cond == ParseCondition(Enter(p0), "If")
      then == ParseStatement(cond.p)
      else == IF Current(then.p) = "Else" THEN ParseStatement(Advance(then.p)) ELSE Got(then.p, Null)
  IN  Leave(p0, else.p, [k |-> "If", cond |-> cond.out, then |-> then.out, else |-> else.out])

ParseWhileStatement(p0) ==
  LET cond == ParseCondition(Enter(p0), "While")
      body == ParseStatement(cond.p)
  IN  Leave(p0, body.p, [k |-> "While", cond |-> cond.out, body |-> body.out])

ParseDoWhileStatement(p0) ==
  LET body == ParseStatement(ExpectToken(Enter(p0), "Do"))
      cond == ParseCondition(body.p, "While")
  IN  Leave(p0, ExpectToken(cond.p, "Semicolon"), [k |-> "DoWhile", cond |-> cond.out, body |-> body.out])

ParseForStatement(p0) ==
  LET p == ExpectToken(ExpectToken(Enter(p0), "For"), "LParen")
      init == IF Current(p) = "Semicolon" THEN Got(p, Null) ELSE ParseSimpleStatement(p)
      q == ExpectToken(init.p, "Semicolon")
      cond == IF Current(q) = "Semicolon" THEN Got(q, Null) ELSE ParseExpression(q, Null)
      r == ExpectToken(cond.p, "Semicolon")
      loop == IF Current(r) = "RParen" THEN Got(r, Null) ELSE ParseExpressionStatement(r, Null)
      body == ParseStatement(ExpectToken(loop.p, "RParen"))
  IN  Leave(p0, body.p, [k |-> "For", init |-> init.out, cond |-> cond.out, loop |-> loop.out, body |-> body.out])

ParseEmitStatement(p) ==
  LET path == ParsePath(Advance(p))
      event == ExpressionFromIndexAccessStructure(path.p, [path |-> path.out, indices |-> << >>])
      call == ParseFunctionCallArguments(ExpectToken(event.p, "LParen"))
  IN  IF Current(Advance(p)) # "Identifier" THEN Got(FatalParserError(p), Null)
      ELSE Got(ExpectToken(call.p, "RParen"),
               [k |-> "Emit", call |-> [k |-> "Call", base |-> event.out, args |-> call.out.args, names |-> call.out.names]])

ParseInlineAssembly(p0) ==
  LET p == ExpectToken(Enter(p0), "Assembly")
      q == IF Current(p) # "StringLiteral" THEN p ELSE IF CurrentLiteral(p) = "evmasm" THEN Advance(p) ELSE FatalParserError(p)
  IN  Leave(p0, ExpectToken(q, "AssemblyBlock"), [k |-> "InlineAssembly"])

ParseReturn(p) ==
  LET e == IF Current(Advance(p)) = "Semicolon" THEN Got(Advance(p), Null) ELSE ParseExpression(Advance(p), Null)
  IN  Got(e.p, [k |-> "Return", e |-> e.out])

ParseBlock(p0) ==
  LET more(r) == Current(r.p) # "RBrace"
      step(r) == LET s == ParseStatement(r.p) IN Got(s.p, Append(r.out, s.out))
      all == Repeat(more, step, Got(ExpectToken(Enter(p0), "LBrace"), << >>))
  IN  Leave(p0, ExpectToken(all.p, "RBrace"), [k |-> "Block", statements |-> all.out])

\* The statements that a semicolon ends
ParseTerminated(p) ==
  LET token == Current(p)
  IN  CASE token \in {"Continue", "Break", "Throw"} -> Got(Advance(p), [k |-> token])
        [] token = "Return" -> ParseReturn(p)
        [] token = "Emit" -> ParseEmitStatement(p)
        [] token = "Identifier" /\ p.modifier /\ CurrentLiteral(p) = "_" -> Got(Advance(p), [k |-> "Placeholder"])
        [] OTHER -> ParseSimpleStatement(p)

ParseStatement(p0) ==
  LET p == Enter(p0)
      s == CASE Current(p) = "If" -> ParseIfStatement(p)
             [] Current(p) = "While" -> ParseWhileStatement(p)
             [] Current(p) = "Do" -> ParseDoWhileStatement(p)
             [] Current(p) = "For" -> ParseForStatement(p)
             [] Current(p) = "LBrace" -> ParseBlock(p)
             [] Current(p) = "Assembly" -> ParseInlineAssembly(p)
             [] OTHER -> LET t == ParseTerminated(p) IN Got(ExpectToken(t.p, "Semicolon"), t.out)
  IN  Leave(p0, s.p, s.out)

-----------------------------------------------------------------------------
(* Contracts and source units *)

ParseModifierDefinition(p0) ==
  LET name == ExpectIdentifierToken(ExpectToken([Enter(p0) EXCEPT !.modifier = TRUE], "Modifier"))
      params == IF Current(name.p) = "LParen" THEN ParseParameterList(name.p, {"allowIndexed", "allowLocationSpecifier"}, TRUE)
                ELSE CreateEmptyParameterList(name.p)
      body == ParseBlock(params.p)
  IN  Leave(p0, [body.p EXCEPT !.modifier = FALSE], [k |-> "Modifier", name |-> name.out, params |-> params.out, body |-> body.out])

ParseEventDefinition(p0) ==
  LET name == ExpectIdentifierToken(ExpectToken(Enter(p0), "Event"))
      params == ParseParameterList(name.p, {"allowIndexed"}, TRUE)
      anonymous == Current(params.p) = "Anonymous"
  IN  Leave(p0, ExpectToken(IF anonymous THEN Advance(params.p) ELSE params.p, "Semicolon"),
            [k |-> "Event", name |-> name.out, params |-> params.out, anonymous |-> anonymous])

ParseUsingDirective(p0) ==
  LET library == ParseUserDefinedTypeName(ExpectToken(Enter(p0), "Using"))
      p == ExpectToken(library.p, "For")
      type == IF Current(p) = "Mul" THEN Got(Advance(p), Null) ELSE ParseTypeName(p, FALSE)
  IN  Leave(p0, ExpectToken(type.p, "Semicolon"), [k |-> "Using", library |-> library.out, type |-> type.out])

ParseStructDefinition(p0) ==
  LET name == ExpectIdentifierToken(ExpectToken(Enter(p0), "Struct"))
      more(r) == Current(r.p) # "RBrace"
      step(r) == LET member == ParseVariableDeclaration(r.p, {}, Null) IN Got(ExpectToken(member.p, "Semicolon"), Append(r.out, member.out))
      members == Repeat(more, step, Got(ExpectToken(name.p, "LBrace"), << >>))
  IN  Leave(p0, ExpectToken(members.p, "RBrace"), [k |-> "Struct", name |-> name.out, members |-> members.out])

ParseEnumValue(p) == LET r == ExpectIdentifierToken(Enter(p)) IN Leave(p, r.p, r.out)

ParseEnumDefinition(p0) ==
  LET name == ExpectIdentifierToken(ExpectToken(Enter(p0), "Enum"))
      more(r) == Current(r.p) # "RBrace"
      following(p) == IF Current(p) = "Identifier" THEN p ELSE FatalParserError(p)
      step(r) == LET value == ParseEnumValue(r.p)
                 IN  Got(IF Current(value.p) = "RBrace" THEN value.p ELSE following(ExpectToken(value.p, "Comma")), Append(r.out, value.out))
      members == Repeat(more, step, Got(ExpectToken(name.p, "LBrace"), << >>))
      p == IF members.out = << >> THEN ParserError(members.p) ELSE members.p
  IN  Leave(p0, ExpectToken(p, "RBrace"), [k |-> "Enum", name |-> name.out, members |-> members.out])

StateVariable == {"isStateVariable", "allowInitialValue"}

ParseFunctionDefinitionOrFunctionTypeStateVariable(p0) ==
  LET header == ParseFunctionHeader(Enter(p0), FALSE, TRUE)
      isFunction == \/ header.out.constructor \/ header.out.modifiers # << >> \/ header.out.name # ""
                    \/ Current(header.p) \in {"Semicolon", "LBrace"}
      body == IF Current(header.p) = "Semicolon" THEN Got(Advance(header.p), Null) ELSE ParseBlock(header.p)
      type == ParseTypeNameSuffix(header.p, FunctionTypeName(header.out))
      variable == ParseVariableDeclaration(type.p, StateVariable, type.out)
  IN  IF isFunction THEN Leave(p0, body.p, [k |-> "Function", header |-> header.out, body |-> body.out])
      ELSE Leave(p0, ExpectToken(variable.p, "Semicolon"), variable.out)

ParseContractPart(p) ==
  LET token == Current(p)
      variable == ParseVariableDeclaration(p, StateVariable, Null)
  IN  CASE token \in {"Function", "Constructor"} -> ParseFunctionDefinitionOrFunctionTypeStateVariable(p)
        [] token = "Struct" -> ParseStructDefinition(p)
        [] token = "Enum" -> ParseEnumDefinition(p)
        [] token \in {"Identifier", "Mapping"} \cup ElementaryTypeNames -> Got(ExpectToken(variable.p, "Semicolon"), variable.out)
        [] token = "Modifier" -> ParseModifierDefinition(p)
        [] token = "Event" -> ParseEventDefinition(p)
        [] token = "Using" -> ParseUsingDirective(p)
        [] OTHER -> Got(FatalParserError(p), Null)

ContractKinds == {"Interface", "Contract", "Library"}

ParseContractDefinition(p0) ==
  LET p == Enter(p0)
      name == ExpectIdentifierToken(Advance(p))
      base(r) == LET b == ParseInheritanceSpecifier(Advance(r.p)) IN Got(b.p, Append(r.out, b.out))
      comma(r) == Current(r.p) = "Comma"
      bases == IF Current(name.p) = "Is" THEN Repeat(comma, base, base(Got(name.p, << >>))) ELSE Got(name.p, << >>)
      more(r) == Current(r.p) # "RBrace"
      part(r) == LET node == ParseContractPart(r.p) IN Got(node.p, Append(r.out, node.out))
      nodes == Repeat(more, part, Got(ExpectToken(bases.p, "LBrace"), << >>))
  IN  Leave(p0, ExpectToken(nodes.p, "RBrace"),
            [k |-> "Contract", kind |-> Current(p), name |-> name.out, bases |-> bases.out, nodes |-> nodes.out])

ParsePragmaDirective(p0) ==
  LET take(r) == LET token == Ahead(r.p, 0)
                 IN  IF token.t = "Illegal" THEN Got(Advance(ParserError(r.p)), r.out) ELSE Got(Advance(r.p), Append(r.out, token))
      more(r) == Current(r.p) \notin {"Semicolon", "EOS"}
      all == Repeat(more, take, take(Got(ExpectToken(Enter(p0), "Pragma"), << >>)))
  IN  Leave(p0, ExpectToken(all.p, "Semicolon"), [k |-> "Pragma", tokens |-> all.out])

\* as x
ParseAlias(p) == IF Current(p) = "As" THEN ExpectIdentifierToken(Advance(p)) ELSE Got(p, "")

ParseImportDirective(p0) ==
  LET p == ExpectToken(Enter(p0), "Import")
      path(q) == IF Current(q) = "StringLiteral" THEN Got(Advance(q), CurrentLiteral(q)) ELSE Got(FatalParserError(q), "")
      from(q) == path(IF Ahead(q, 0) = Ident("from") THEN Advance(q) ELSE FatalParserError(q))
      symbol(r) == LET id == ParseIdentifier(Advance(r.p))
                       alias == ParseAlias(id.p)
                   IN  Got(alias.p, Append(r.out, [name |-> id.out.name, alias |-> alias.out]))
      comma(r) == Current(r.p) = "Comma"
      symbols == Repeat(comma, symbol, symbol(Got(p, << >>)))
      star == ExpectIdentifierToken(ExpectToken(Advance(p), "As"))
      whole == LET unit == ParseAlias(path(p).p) IN Got(unit.p, [k |-> "Import", path |-> path(p).out, unit |-> unit.out, symbols |-> << >>])
      some == LET file == from(ExpectToken(symbols.p, "RBrace"))
              IN  Got(file.p, [k |-> "Import", path |-> file.out, unit |-> "", symbols |-> symbols.out])
      all == LET file == from(star.p) IN Got(file.p, [k |-> "Import", path |-> file.out, unit |-> star.out, symbols |-> << >>])
      import == CASE Current(p) = "StringLiteral" -> whole
                  [] Current(p) = "LBrace" -> some
                  [] Current(p) = "Mul" -> all
                  [] OTHER -> Got(FatalParserError(p), Null)
  IN  Leave(p0, ExpectToken(import.p, "Semicolon"), import.out)

\* Parser::parse
ParseSourceUnit(tokens) ==
  LET more(r) == Current(r.p) # "EOS"
      step(r) == LET node == CASE Current(r.p) = "Pragma" -> ParsePragmaDirective(r.p)
                               [] Current(r.p) = "Import" -> ParseImportDirective(r.p)
                               [] Current(r.p) \in ContractKinds -> ParseContractDefinition(r.p)
                               [] OTHER -> Got(FatalParserError(r.p), Null)
                 IN  Got(node.p, Append(r.out, node.out))
      all == Repeat(more, step, Got(StartParser(tokens), << >>))
  IN  [errors |-> all.p.errors, endless |-> all.p.endless, depth |-> all.p.depth, out |-> IF all.p.thrown THEN << >> ELSE all.out]

-----------------------------------------------------------------------------
(* The grammar (docs/grammar.txt) read the other way: the tokens a tree is *)
(* written with, specifiers in one order.  It is no part of the compiler.  *)

Keyword(kind) == <<Token(kind)>>
Keywords(kinds) == [n \in 1..Len(kinds) |-> Token(kinds[n])]
Name(name) == IF name = "" THEN << >> ELSE <<Ident(name)>>
Opt(given, tokens) == IF given THEN tokens ELSE << >>
Specifier(is, default) == IF is = default THEN << >> ELSE Keyword(is)
Separated(parts, separator) ==
  Concat([n \in 1..Len(parts) |-> IF n = 1 THEN parts[n] ELSE Keyword(separator) \o parts[n]])
InParens(tokens) == Keyword("LParen") \o tokens \o Keyword("RParen")
InBraces(tokens) == Keyword("LBrace") \o tokens \o Keyword("RBrace")
Path(names) == Separated([n \in 1..Len(names) |-> Name(names[n])], "Period")

RECURSIVE Written(_)

CommaList(nodes) == Separated([n \in 1..Len(nodes) |-> Written(nodes[n])], "Comma")
WrittenAll(nodes) == Concat([n \in 1..Len(nodes) |-> Written(nodes[n])])

WrittenArguments(args, names) ==
  IF names = << >> THEN InParens(CommaList(args))
  ELSE InParens(InBraces(Separated([n \in 1..Len(args) |-> Name(names[n]) \o Keyword("Colon") \o Written(args[n])], "Comma")))
WrittenHeader(h) ==
  InParens(CommaList(h.params)) \o Specifier(h.visibility, "Default") \o Specifier(h.mutability, "NonPayable")
WrittenReturns(h) == Opt(h.returns # << >>, Keyword("Returns") \o InParens(CommaList(h.returns)))
WrittenInvocation(i, name) == name \o Opt(i.given, InParens(CommaList(i.args)))
WrittenModifiers(h) == Concat([n \in 1..Len(h.modifiers) |-> WrittenInvocation(h.modifiers[n], Written(h.modifiers[n].name))])
WrittenBases(c) == Separated([n \in 1..Len(c.bases) |-> WrittenInvocation(c.bases[n], Path(c.bases[n].name.path))], "Comma")
Initialised(tokens, value) == tokens \o Opt(value # Null, Keyword("Assign") \o Written(value))

WrittenVariable(v) ==
  Initialised((IF v.type = Null THEN Keyword("Var") ELSE Written(v.type)) \o Specifier(v.visibility, "Default")
              \o Opt(v.indexed, Keyword("Indexed")) \o Opt(v.constant, Keyword("Constant")) \o Specifier(v.location, "Unspecified")
              \o Name(v.name), v.value)

WrittenDeclaration(s) ==
  LET untyped == \A n \in 1..Len(s.variables) : s.variables[n] = Null \/ s.variables[n].type = Null
      one(v) == IF v = Null THEN << >> ELSE IF untyped THEN Name(v.name) ELSE Written(v)
      all == Separated([n \in 1..Len(s.variables) |-> one(s.variables[n])], "Comma")
  IN  Initialised(IF Len(s.variables) = 1 THEN Written(s.variables[1])
                  ELSE Opt(untyped, Keyword("Var")) \o InParens(all), s.value)

WrittenExpression(e) ==
  CASE e.k = "Identifier" -> Name(e.name)
    [] e.k = "Literal" -> <<[t |-> e.t, v |-> e.v]>> \o Specifier(e.sub, "")
    [] e.k = "ElementaryType" -> <<[t |-> e.t, v |-> e.v]>>
    [] e.k = "Tuple" -> IF e.array THEN Keyword("LBrack") \o CommaList(e.parts) \o Keyword("RBrack") ELSE InParens(CommaList(e.parts))
    [] e.k = "Unary" -> IF e.prefix THEN Keyword(e.op) \o Written(e.sub) ELSE Written(e.sub) \o Keyword(e.op)
    [] e.k \in {"Binary", "Assignment"} -> Written(e.left) \o Keyword(e.op) \o Written(e.right)
    [] e.k = "Conditional" -> Written(e.cond) \o Keyword("Conditional") \o Written(e.yes) \o Keyword("Colon") \o Written(e.no)
    [] e.k = "New" -> Keyword("New") \o Written(e.type)
    [] e.k = "Index" -> Written(e.base) \o Keyword("LBrack") \o Written(e.index) \o Keyword("RBrack")
    [] e.k = "Member" -> Written(e.base) \o Keyword("Period") \o Name(e.name)
    [] e.k = "Call" -> Written(e.base) \o WrittenArguments(e.args, e.names)

WrittenType(t) ==
  CASE t.k = "Elementary" -> <<[t |-> t.t, v |-> t.v]>> \o Specifier(t.mutability, "NonPayable")
    [] t.k = "UserDefined" -> Path(t.path)
    [] t.k = "Array" -> Written(t.base) \o Keyword("LBrack") \o Written(t.length) \o Keyword("RBrack")
    [] t.k = "Mapping" -> Keyword("Mapping") \o InParens(Written(t.key) \o Keyword("Arrow") \o Written(t.value))
    [] t.k = "FunctionType" -> Keyword("Function") \o WrittenHeader(t) \o WrittenReturns(t)

Terminated(tokens) == tokens \o Keyword("Semicolon")

WrittenStatement(s) ==
  CASE s.k = "Block" -> InBraces(WrittenAll(s.statements))
    [] s.k = "If" -> Keyword("If") \o InParens(Written(s.cond)) \o Written(s.then) \o Opt(s.else # Null, Keyword("Else") \o Written(s.else))
    [] s.k = "While" -> Keyword("While") \o InParens(Written(s.cond)) \o Written(s.body)
    [] s.k = "DoWhile" -> Terminated(Keyword("Do") \o Written(s.body) \o Keyword("While") \o InParens(Written(s.cond)))
    [] s.k = "For" ->
         Keyword("For") \o InParens((IF s.init = Null THEN Keyword("Semicolon") ELSE Written(s.init)) \o Terminated(Written(s.cond))
                                    \o (IF s.loop = Null THEN << >> ELSE Written(s.loop.e))) \o Written(s.body)
    [] s.k \in {"Continue", "Break", "Throw"} -> Terminated(Keyword(s.k))
    [] s.k = "Return" -> Terminated(Keyword("Return") \o Written(s.e))
    [] s.k = "Emit" -> Terminated(Keyword("Emit") \o Written(s.call))
    [] s.k = "Placeholder" -> Terminated(Name("_"))
    [] s.k = "InlineAssembly" -> Keywords(<<"Assembly", "AssemblyBlock">>)
    [] s.k = "ExpressionStatement" -> Terminated(Written(s.e))
    [] s.k = "Declaration" -> Terminated(WrittenDeclaration(s))

WrittenPart(d) ==
  CASE d.k = "Pragma" -> Terminated(Keyword("Pragma") \o d.tokens)
    [] d.k = "Import" ->
         LET file == <<[t |-> "StringLiteral", v |-> d.path]>>
             alias(name) == Opt(name # "", Keyword("As") \o Name(name))
             symbol(s) == Name(s.name) \o alias(s.alias)
             symbols == Separated([n \in 1..Len(d.symbols) |-> symbol(d.symbols[n])], "Comma")
             what == IF d.symbols = << >> THEN Keyword("Mul") \o alias(d.unit) ELSE InBraces(symbols)
         IN  Terminated(Keyword("Import") \o Opt(d.unit # "" \/ d.symbols # << >>, what \o Name("from")) \o file)
    [] d.k = "Contract" ->
         Keyword(d.kind) \o Name(d.name) \o Opt(d.bases # << >>, Keyword("Is") \o WrittenBases(d)) \o InBraces(WrittenAll(d.nodes))
    [] d.k = "Function" ->
         (IF d.header.constructor THEN Keyword("Constructor") ELSE Keyword("Function") \o Name(d.header.name))
         \o WrittenHeader(d.header) \o WrittenModifiers(d.header) \o WrittenReturns(d.header)
         \o (IF d.body = Null THEN Keyword("Semicolon") ELSE Written(d.body))
    [] d.k = "Struct" ->
         LET members == [n \in 1..Len(d.members) |-> Terminated(Written(d.members[n]))]
         IN  Keyword("Struct") \o Name(d.name) \o InBraces(Concat(members))
    [] d.k = "Enum" -> Keyword("Enum") \o Name(d.name) \o InBraces(Separated([n \in 1..Len(d.members) |-> Name(d.members[n])], "Comma"))
    [] d.k = "Modifier" ->
         Keyword("Modifier") \o Name(d.name) \o Opt(d.params # << >>, InParens(CommaList(d.params))) \o Written(d.body)
    [] d.k = "Event" ->
         Terminated(Keyword("Event") \o Name(d.name) \o InParens(CommaList(d.params)) \o Opt(d.anonymous, Keyword("Anonymous")))
    [] d.k = "Using" -> Terminated(Keyword("Using") \o Path(d.library.path) \o Keyword("For")
                                   \o (IF d.type = Null THEN Keyword("Mul") ELSE Written(d.type)))

Written(n) ==
  CASE n.k = "Null" -> << >>
    [] n.k = "Variable" -> WrittenVariable(n) \o Opt(n.state, Keyword("Semicolon"))
    [] n.k \in {"Identifier", "Literal", "ElementaryType", "Tuple", "Unary", "Binary", "Assignment", "Conditional", "New", "Index",
                "Member", "Call"} -> WrittenExpression(n)
    [] n.k \in {"Elementary", "UserDefined", "Array", "Mapping", "FunctionType"} -> WrittenType(n)
    [] n.k \in {"Pragma", "Import", "Contract", "Function", "Struct", "Enum", "Modifier", "Event", "Using"} -> WrittenPart(n)
    [] OTHER -> WrittenStatement(n)

WrittenUnit(unit) == WrittenAll(unit)

-----------------------------------------------------------------------------
(* A source is written, perhaps with one slip, and parsed.  The operators  *)
(* are parameters of the actions because TLC collects statistics for all   *)
(* that an action mentions.                                                *)

NotParsed == [errors |-> 0, endless |-> FALSE, depth |-> 0, out |-> << >>]

\* Nothing is written yet.
NoSource == [unit |-> << >>, deep |-> FALSE, edits |-> FALSE]
ParserInit == source = NoSource /\ text = << >> /\ edited = FALSE /\ parsed = NotParsed

WriteBy(written(_), units) ==
  /\ text = << >>
  /\ \E s \in units : source' = s /\ text' = written(s.unit)
  /\ UNCHANGED <<edited, parsed>>

Slips(tokens) ==
  LET without(n, between) == SubSeq(tokens, 1, n - 1) \o between \o SubSeq(tokens, n + 1, Len(tokens))
  IN  UNION {{without(n, between) : between \in {<< >>, <<tokens[n], tokens[n]>>} \cup {<<t>> : t \in SpareTokens}} : n \in 1..Len(tokens)}

SlipBy(slips(_)) ==
  /\ text # << >> /\ ~edited /\ parsed = NotParsed /\ source.edits
  /\ text' \in slips(text) \ {text}
  /\ edited' = TRUE
  /\ UNCHANGED <<source, parsed>>

ParseBy(parse(_)) ==
  /\ text # << >> /\ parsed = NotParsed
  /\ parsed' = parse(text)
  /\ UNCHANGED <<source, text, edited>>

-----------------------------------------------------------------------------
\* A unit that is written with no more parentheses than the order of precedence asks for is
\* parsed to that unit, and one that is nested too deeply is refused (Parser::parse and the
\* lookahead of parseSimpleStatement); in the end the recursion depth is zero again.
ParsedAsWritten ==
  parsed # NotParsed /\ ~edited =>
    IF source.deep THEN parsed.errors > 0
    ELSE parsed = [errors |-> 0, endless |-> FALSE, depth |-> 0, out |-> source.unit]

\* How often a token is there; "constant" or "indexed" once more says nothing new.
Times(token, tokens) ==
  Cardinality({n \in 1..Len(tokens) : tokens[n] = token /\ ~(token.t \in {"Constant", "Indexed"} /\ n > 1 /\ tokens[n - 1] = token)})

\* The parser comes to an end, and what it accepts without an error says all that is written:
\* no token that was slipped in, doubled or lost is passed over.  Specifiers of a function may
\* come in any order.
NothingIgnored ==
  parsed # NotParsed =>
    /\ ~parsed.endless
    /\ parsed.errors = 0 =>
         LET said == WrittenUnit(parsed.out)
         IN  Len(said) <= Len(text) /\ \A n \in 1..Len(text) : Times(text[n], said) = Times(text[n], text)

=============================================================================
