---------------------------- MODULE MC_Contract ----------------------------
(***************************************************************************)
(* Contracts from their syntax trees to what they do when they are called: *)
(* the sample contracts (their text is in SampleContract) are type-checked *)
(* and compiled, deployed by running their creation code, and then called  *)
(* with calldata, any calls in any order.  A call is sent, then executed   *)
(* completely; what a failing call wrote is discarded, as the EVM does.    *)
(***************************************************************************)
EXTENDS ContractCompiler

CONSTANTS MaxList, MaxText,     \* how long the arrays get
          Menus,                \* the contracts and what is called of them
          Lengths,              \* what the length of a list is set to
          MaxSteps              \* the instructions of one call

VARIABLES program,      \* the contract that was deployed, its code and what is called
          storage,
          call, answer

vars == <<program, storage, call, answer>>

-----------------------------------------------------------------------------
(* Syntax trees *)

U3 == Integer(3, FALSE)
U6 == Integer(6, FALSE)
S6 == Integer(6, TRUE)
Byte1 == FixedBytes(1)
Stored(t) == [t EXCEPT !.pointer = FALSE]
U3List == Stored(Array("Storage", U3, Dynamic))
Text == Stored(ByteArray("Storage", FALSE))

Num(n) == Expression("Literal", [value |-> n, literal |-> [token |-> "Number", number |-> NumberLiteral(n, 0, 0, 1),
                                                          denomination |-> "none", checksum |-> TRUE]])
Ref(d) == Expression("Identifier", [name |-> "", candidates |-> << >>, decl |-> d])
Of(name, k) == Ref([kind |-> "variable", id |-> <<name, "v", k>>])
Par(id, t) == Ref([kind |-> "local", id |-> id, type |-> t, role |-> "parameter"])
Loc(id, t) == Ref([kind |-> "local", id |-> id, type |-> t, role |-> "local"])
Out(id, t) == Ref([kind |-> "local", id |-> id, type |-> t, role |-> "return"])
Bin(op, x, y) == Expression("Binary", [op |-> op, left |-> x, right |-> y, common |-> Null])
Set(x, op, y) == Expression("Assignment", [op |-> op, left |-> x, right |-> y])
At(x, y) == Expression("IndexAccess", [base |-> x, index |-> y])
Dot(x, name) == Expression("MemberAccess", [sub |-> x, member |-> name, decl |-> Null])
Apply(f, args) == Expression("FunctionCall", [fun |-> f, args |-> args, names |-> << >>, kind |-> ""])
Un(op, prefix, x) == Expression("Unary", [op |-> op, prefix |-> prefix, sub |-> x])
Pair(x, y) == Expression("Tuple", [components |-> <<x, y>>, inlineArray |-> FALSE])
TypeName(t) == Expression("ElementaryTypeName", [name |-> t])
Super(name) == Ref([kind |-> "magic", id |-> "super", type |-> Contract(name, TRUE)])
Require == Ref([kind |-> "magic", id |-> "require", type |-> Function(<<Bool>>, << >>, "Require", "Pure", "")])

Effect(x) == Statement("Expression", [expression |-> x])
Block(ss) == Statement("Block", [statements |-> ss])
Ret(x) == Statement("Return", [expression |-> x])
IfThen(x, ss) == Statement("If", [condition |-> x, true |-> Block(ss), false |-> Null])
For(init, condition, loop, ss) ==
  Statement("For", [init |-> init, condition |-> condition, loop |-> loop, body |-> Block(ss)])
Let(id, t, x) == Statement("VariableDeclaration", [declarations |-> <<[id |-> id, type |-> t]>>, value |-> x])

Fn(name, params, names, returns, modifiers, body) ==
  [name |-> name, params |-> params, paramNames |-> names, returns |-> returns,
   returnNames |-> [k \in 1..Len(returns) |-> "r"], body |-> Block(body), modifiers |-> modifiers,
   mutability |-> "NonPayable", visibility |-> "Public", implemented |-> TRUE, constructor |-> FALSE, fallback |-> FALSE, errors |-> {}]
Variable(name, t, value) ==
  [name |-> name, type |-> t, constant |-> FALSE, value |-> value, visibility |-> "Public", errors |-> {}]
ContractOf(bases, inherits, variables, modifiers, functions) ==
  [kind |-> "contract", bases |-> bases, payable |-> FALSE, using |-> << >>, constructor |-> [params |-> << >>, payable |-> FALSE],
   events |-> << >>, inherits |-> inherits, creates |-> {}, errors |-> {},
   variables |-> variables, modifiers |-> modifiers, functions |-> functions]
Simple(variables, functions, name) == ContractOf(<<name>>, << >>, variables, << >>, functions)

-----------------------------------------------------------------------------
(* The contracts *)

Tally == [kind |-> "modifier", id |-> <<"Packed", "m", 1>>, args |-> << >>, given |-> TRUE, errors |-> {}]
BaseContract ==
  Simple(<<Variable("a", U3, Num(5))>>,
         <<Fn("raise", <<U3>>, <<"x">>, << >>, << >>, <<Effect(Set(Of("Base", 1), "Add", Par("x", U3)))>>)>>, "Base")
PackedContract ==
  LET a == Of("Base", 1)
      b == Of("Packed", 1)
      c == Of("Packed", 2)
      x == Par("x", U3)
  IN  ContractOf(<<"Packed", "Base">>, <<[base |-> "Base", args |-> << >>, errors |-> {}]>>,
        <<Variable("b", S6, Null), Variable("c", U3, Null)>>,
        <<[name |-> "tally", params |-> << >>, errors |-> {},
           body |-> Block(<<Effect(Un("Inc", FALSE, c)), Statement("Placeholder", [id |-> 0]), Effect(Set(c, "Add", Num(2)))>>)]>>,
        <<Fn("set", <<U3, S6>>, <<"x", "y">>, << >>, << >>, <<Effect(Set(a, "Assign", x)), Effect(Set(b, "Assign", Par("y", S6)))>>),
          Fn("exchange", << >>, << >>, << >>, << >>, <<Effect(Set(Pair(a, c), "Assign", Pair(c, a)))>>),
          Fn("raise", <<U3>>, <<"x">>, << >>, << >>,
             <<Effect(Apply(Dot(Super("Packed"), "raise"), <<x>>)), Effect(Set(b, "Assign", Bin("Sub", Apply(TypeName(S6), <<a>>), Num(7))))>>),
          Fn("guarded", <<U3>>, <<"x">>, <<Bool>>, <<Tally>>,
             <<IfThen(Bin("Equal", x, c), <<Ret(Bin("Equal", x, x))>>), Effect(Apply(Require, <<Bin("NotEqual", a, x)>>)),
               Effect(Set(a, "Assign", x))>>)>>)
ListsContract ==
  LET xs == Of("Lists", 1)
      ys == Of("Lists", 2)
      i == Loc("i", Uint)
      v == Par("v", U3)
  IN  Simple(<<Variable("xs", U3List, Null), Variable("ys", U3List, Null)>>,
        <<Fn("push", <<U3>>, <<"v">>, <<Uint>>, << >>, <<Ret(Apply(Dot(xs, "push"), <<v>>))>>),
          Fn("pop", << >>, << >>, << >>, << >>, <<Effect(Apply(Dot(xs, "pop"), << >>))>>),
          Fn("add", <<Uint, U3>>, <<"j", "v">>, << >>, << >>, <<Effect(Set(At(xs, Par("j", Uint)), "Add", v))>>),
          Fn("copy", << >>, << >>, << >>, << >>, <<Effect(Set(ys, "Assign", xs))>>),
          Fn("clear", << >>, << >>, << >>, << >>, <<Effect(Un("Delete", TRUE, ys))>>),
          Fn("resize", <<Uint>>, <<"n">>, << >>, << >>, <<Effect(Set(Dot(xs, "length"), "Assign", Par("n", Uint)))>>),
          Fn("total", << >>, << >>, <<Uint>>, << >>,
             <<For(Let("i", Uint, Num(0)), Bin("LessThan", i, Dot(xs, "length")), Effect(Un("Inc", FALSE, i)),
                   <<IfThen(Bin("Equal", At(xs, i), Num(1)), <<Statement("Continue", [id |-> 0])>>),
                     Effect(Set(Out("r", Uint), "Add", At(xs, i)))>>)>>)>>, "Lists")
TextContract ==
  LET s == Of("Text", 1)
      t == Of("Text", 2)
      m == Of("Text", 3)
      v == Par("v", Byte1)
  IN  Simple(<<Variable("s", Text, Null), Variable("t", Text, Null), Variable("m", Mapping(Uint, U6), Null)>>,
        <<Fn("append", <<Byte1>>, <<"v">>, <<Uint>>, << >>, <<Ret(Apply(Dot(s, "push"), <<v>>))>>),
          Fn("chop", << >>, << >>, << >>, << >>, <<Effect(Apply(Dot(s, "pop"), << >>))>>),
          Fn("put", <<Uint, Byte1>>, <<"j", "v">>, << >>, << >>, <<Effect(Set(At(s, Par("j", Uint)), "Assign", v))>>),
          Fn("keep", << >>, << >>, << >>, << >>, <<Effect(Set(t, "Assign", s))>>),
          Fn("wipe", << >>, << >>, << >>, << >>, <<Effect(Un("Delete", TRUE, s))>>),
          Fn("note", <<Uint>>, <<"k">>, << >>, << >>,
             <<Effect(Set(At(m, Par("k", Uint)), "Assign",
                       Bin("Sub", Apply(TypeName(U6), <<Dot(s, "length")>>), Num(3))))>>)>>, "Text")

SampleContracts ==
  [name \in {"Base", "Packed", "Lists", "Text"} |->
     CASE name = "Base" -> BaseContract [] name = "Packed" -> PackedContract
       [] name = "Lists" -> ListsContract [] name = "Text" -> TextContract]
NoStructs == << >>
NoEnums == << >>

\* The hash of a signature: distinct selectors, the names numbered
Names == <<"set", "exchange", "raise", "guarded", "a", "b", "c", "push", "pop", "add", "copy", "clear", "resize", "total",
           "xs", "ys", "append", "chop", "put", "keep", "wipe", "note", "s", "t", "m">>
Selector(name) == IF name \in Elements(Names) THEN IndexOf(Names, name) ELSE 0
SignatureHash(signature) == Selector(signature[1]) * 2^(WordBits - SelectorBits)

-----------------------------------------------------------------------------
(* Calls *)

Sent(name, args) == [name |-> name, args |-> args, paid |-> FALSE, cut |-> FALSE]
\* Words of calldata with higher bits set that the type does not have, too
CallsOf(menu) ==
  CASE menu = "Packed" ->
         {Sent("set", args) : args \in {<<13, 61>>, <<0, 95>>, <<6, 3>>}} \cup {Sent("raise", <<x>>) : x \in {1, 62}}
         \cup {Sent("guarded", <<x>>) : x \in {2, 11, 29}}
         \cup {Sent(f, << >>) : f \in {"exchange", "a", "b", "unknown"}}
         \cup {[Sent("exchange", << >>) EXCEPT !.paid = TRUE], [Sent("set", <<13, 61>>) EXCEPT !.cut = TRUE]}
    [] menu = "Copying" ->
         {Sent("push", <<13>>)} \cup {Sent("add", <<i, 4>>) : i \in {0, 4}}
         \cup {Sent(f, << >>) : f \in {"pop", "copy", "clear"}} \cup {Sent("ys", <<4>>)}
    [] menu = "Resizing" ->
         {Sent("push", <<13>>)} \cup {Sent("add", <<i, 4>>) : i \in {0, 4}} \cup {Sent("resize", <<n>>) : n \in Lengths}
         \cup {Sent(f, << >>) : f \in {"pop", "total"}} \cup {Sent("xs", <<i>>) : i \in {1, 4}}
    [] menu = "Text" ->
         {Sent("append", <<3 * 2^9>>)} \cup {Sent("put", <<i, 5 * 2^9 + 1>>) : i \in {0, 4}}
         \cup {Sent("note", <<1>>)} \cup {Sent("m", <<k>>) : k \in {0, 1}}
         \cup {Sent(f, << >>) : f \in {"chop", "keep", "wipe", "s", "t"}}
ContractIn(menu) == IF menu \in {"Copying", "Resizing"} THEN "Lists" ELSE menu

NoCall == [name |-> ""]
NoProgram == [name |-> "", menu |-> "", runtime |-> << >>]
NoAnswer == [name |-> "", status |-> "none", output |-> << >>]

CallData(x) ==
  LET data == <<Selector(x.name) \div 2^ByteBits, Selector(x.name) % 2^ByteBits>>
              \o Concat([k \in 1..Len(x.args) |-> BigEndian(x.args[k])])
  IN  IF x.cut THEN SubSeq(data, 1, Len(data) - 1) ELSE data
World(x) == [caller |-> 1, value |-> IF x.paid THEN 1 ELSE 0, self |-> 2, success |-> TRUE, returned |-> << >>]
Memory0 == [k \in 0..255 |-> 0]
Executed(compiled, x, slots) ==
  Run0(Contract0(compiled.code, compiled.entries, << >>, Memory0, slots, CallData(x), World(x)), MaxSteps)

-----------------------------------------------------------------------------
(* The state, as the language sees it *)

Slot(k) == IF k \in DOMAIN storage THEN storage[k] ELSE 0
Field(word, byte, bytes) == (word \div 2^(byte * ByteBits)) % 2^(bytes * ByteBits)
DataOf(p) == Spread(BigEndian(p))
EntryOf(p, key) == Spread(BigEndian(key) \o BigEndian(p))

\* The first elements of an array are the lower bytes of a slot.
List(p) ==
  [i \in 1..Slot(p) |-> Field(Slot(DataOf(p) + (i - 1) \div WordBytes), (i - 1) % WordBytes, 1)]
\* The bytes of a short text are in its slot, from the highest on, with twice the length
\* in the lowest byte; of a long one, the slot has twice the length and one.
TextLength(p) == IF Slot(p) % 2 = 0 THEN Field(Slot(p), 0, 1) \div 2 ELSE Slot(p) \div 2
TextOf(p) ==
  [i \in 1..TextLength(p) |->
     IF Slot(p) % 2 = 0 THEN Field(Slot(p), WordBytes - i, 1)
     ELSE Field(Slot(DataOf(p) + (i - 1) \div WordBytes), WordBytes - 1 - ((i - 1) % WordBytes), 1)]

Is(name) == program.name = name
A == IF Is("Packed") THEN Field(Slot(0), 0, 1) ELSE 5
B == IF Is("Packed") THEN LET bits == Field(Slot(0), 1, 2) IN IF bits >= 32 THEN bits - 64 ELSE bits ELSE 0
C == IF Is("Packed") THEN Field(Slot(0), 3, 1) ELSE 0
Xs == IF Is("Lists") THEN List(0) ELSE << >>
Ys == IF Is("Lists") THEN List(1) ELSE << >>
S == IF Is("Text") THEN TextOf(0) ELSE << >>
T == IF Is("Text") THEN TextOf(1) ELSE << >>
M == LET keys == IF Is("Text") THEN {k \in {0, 1} : Slot(EntryOf(2, k)) # 0} ELSE {}
     IN  [k \in keys |-> Slot(EntryOf(2, k))]

Decoded(name, output) ==
  LET words == [k \in 1..(Len(output) \div WordBytes) |-> FromBigEndian(SubSeq(output, (k - 1) * WordBytes + 1, k * WordBytes))]
  IN  IF name \in {"s", "t"} THEN SubSeq(output, 2 * WordBytes + 1, 2 * WordBytes + words[2]) ELSE words
Answer ==
  CASE answer.status \in {"STOP", "RETURN"} -> <<"returned", Decoded(answer.name, answer.output)>>
    [] answer.status \in {"REVERT", "INVALID"} -> <<"failed">>
    [] OTHER -> <<answer.status>>

-----------------------------------------------------------------------------
Init == program = NoProgram /\ storage = << >> /\ call = NoCall /\ answer = NoAnswer

\* What the analysis accepts is compiled once, and deployed: the creation code runs and
\* returns.  (The phases of the compiler are parameters: TLC explores a definition before it
\* evaluates it, but not its parameters.)
Deploy(accept(_), compile(_), construct(_)) ==
  /\ program = NoProgram
  /\ \E menu \in Menus : \E name \in {ContractIn(menu)} :
       /\ accept({name} \cup Range(Contracts[name].bases))
       /\ program' = [name |-> name, menu |-> menu, runtime |-> Settled(compile(name))]
       /\ \E made \in {Executed(construct(name), Sent("", << >>), << >>)} :
            /\ storage' = made.storage
            /\ answer' = IF made.status = "RETURN" THEN NoAnswer ELSE [NoAnswer EXCEPT !.status = made.status]
  /\ UNCHANGED call

Send ==
  /\ program # NoProgram /\ call = NoCall
  /\ \E x \in CallsOf(program.menu) :
       /\ x.name = "push" => Len(Xs) < MaxList
       /\ x.name = "append" => Len(S) < MaxText
       /\ call' = x
  /\ answer' = NoAnswer
  /\ UNCHANGED <<program, storage>>

Perform ==
  /\ call # NoCall
  /\ \E machine \in {Executed(program.runtime, call, storage)} :
       /\ answer' = [name |-> call.name, status |-> machine.status, output |-> machine.output]
       /\ storage' = IF machine.status \in {"STOP", "RETURN"} THEN machine.storage ELSE storage
  /\ call' = NoCall
  /\ UNCHANGED program

Next == Deploy(ProgramAccepted, CompileContract, CompileConstructor) \/ Send \/ Perform

Spec == Init /\ [][Next]_vars

-----------------------------------------------------------------------------
(* Properties *)

Meaning == INSTANCE SampleContract
             WITH Calls <- UNION {CallsOf(menu) : menu \in Menus},
                  Modulus <- 8, Half <- 32, Word <- Base, ByteAt <- 2^(WordBits - ByteBits),
                  a <- A, b <- B, c <- C, m <- M, xs <- Xs, ys <- Ys, s <- S, t <- T, answer <- Answer

\* The compiled contracts implement what their text means: every call changes the
\* variables and returns what the language says, whatever the calls before it were, or
\* fails where the language says so and changes nothing (ContractCompiler,
\* ExpressionCompiler, ArrayUtils and LValue together).
ImplementsMeaning == Meaning!Spec

\* The slots of the array at p, n elements long
SlotsOf(p, n) == {p} \cup {DataOf(p) + k : k \in 0..((n + WordBytes - 1) \div WordBytes - 1)}

\* No storage is left behind: every slot that is not zero belongs to a variable or to an
\* element of an array, and no bits of a text lie past its end
\* (ArrayUtils::clearDynamicArray, resizeDynamicArray, popStorageArrayElement and
\* copyArrayToStorage).  What a list left behind when it was overwritten is not counted:
\* see CopyClearsLeftovers.
NoStorageLeft ==
  LET past(p) == IF Slot(p) % 2 = 0 THEN Field(Slot(p), 1, WordBytes - 1 - TextLength(p))
                 ELSE LET rest == (- TextLength(p)) % WordBytes
                      IN  Field(Slot(DataOf(p) + (TextLength(p) - 1) \div WordBytes), 0, rest)
  IN  CASE Is("") -> TRUE
        [] Is("Packed") -> DOMAIN storage \subseteq {0}
        [] Is("Lists") -> DOMAIN storage \subseteq SlotsOf(0, Len(Xs)) \cup SlotsOf(1, MaxList)
        [] Is("Text") -> /\ DOMAIN storage \subseteq SlotsOf(0, Len(S)) \cup SlotsOf(1, Len(T)) \cup {EntryOf(2, 0), EntryOf(2, 1)}
                         /\ past(0) = 0 /\ past(1) = 0

\* ArrayUtils.cpp:276, after the elements are copied: "zero-out leftovers in target".
CopyClearsLeftovers ==
  Is("Lists") /\ answer.name = "copy" => DOMAIN storage \subseteq SlotsOf(0, Len(Xs)) \cup SlotsOf(1, Len(Ys))

=============================================================================
