--------------------------- MODULE SampleContract --------------------------
(***************************************************************************)
(* What the sample contracts of MC_Contract do as the language defines it: *)
(* every variable is independent of the others, arithmetic wraps around in *)
(* its type, arrays are sequences, and a call takes effect completely or   *)
(* not at all.  Nothing here knows of slots, bytes, selectors or jumps.    *)
(*                                                                         *)
(*   contract Base {                                                       *)
(*     uint3 public a = 5;                                                 *)
(*     function raise(uint3 x) public { a += x; }                          *)
(*   }                                                                     *)
(*   contract Packed is Base {                                             *)
(*     int6 public b;  uint3 public c;                                     *)
(*     modifier tally { c++; _; c += 2; }                                  *)
(*     function set(uint3 x, int6 y) public { a = x; b = y; }              *)
(*     function exchange() public { (a, c) = (c, a); }                     *)
(*     function raise(uint3 x) public { super.raise(x); b = int6(a) - 7; } *)
(*     function guarded(uint3 x) public tally returns (bool)               *)
(*     { if (x == c) return true; require(a != x); a = x; }                *)
(*   }                                                                     *)
(*   contract Lists {                                                      *)
(*     uint3[] public xs;  uint3[] public ys;                              *)
(*     function push(uint3 v) public returns (uint) { return xs.push(v); } *)
(*     function pop() public { xs.pop(); }                                 *)
(*     function add(uint i, uint3 v) public { xs[i] += v; }                *)
(*     function copy() public { ys = xs; }                                 *)
(*     function clear() public { delete ys; }                              *)
(*     function resize(uint n) public { xs.length = n; }                   *)
(*     function total() public returns (uint s)                            *)
(*     { for (uint i = 0; i < xs.length; i++)                              *)
(*       { if (xs[i] == 1) continue; s += xs[i]; } }                       *)
(*   }                                                                     *)
(*   contract Text {                                                       *)
(*     bytes public s;  bytes public t;  mapping(uint => uint6) public m;  *)
(*     function append(byte v) public returns (uint) { return s.push(v); } *)
(*     function chop() public { s.pop(); }                                 *)
(*     function put(uint i, byte v) public { s[i] = v; }                   *)
(*     function keep() public { t = s; }                                   *)
(*     function wipe() public { delete s; }                                *)
(*     function note(uint k) public { m[k] = uint6(s.length) - 3; }        *)
(*   }                                                                     *)
(***************************************************************************)
EXTENDS Integers, Sequences

CONSTANTS Calls,        \* what callers send: [name, args, paid, cut]
          Modulus,      \* of uint3
          Half,         \* int6 is -Half..Half - 1, uint6 0..2 * Half - 1
          Word,         \* the modulus of uint
          ByteAt        \* a byte is the leftmost of a word, a multiple of ByteAt

VARIABLES a, b, c, m, xs, ys, s, t,
          call,         \* the call that is being executed
          answer        \* what the last call returned

store == <<a, b, c, m, xs, ys, s, t>>
vars == <<a, b, c, m, xs, ys, s, t, call, answer>>

NoCall == [name |-> ""]
NoAnswer == <<"none">>
Failed == <<"failed">>

Unsigned3(x) == x % Modulus
Signed6(x) == ((x + Half) % (2 * Half)) - Half
Unsigned6(x) == x % (2 * Half)
Byte(w) == w \div ByteAt
Num(x) == IF x THEN 1 ELSE 0
Extended(x) == x % Word
Count(x) == Len(x) + 1

Init ==
  /\ a = 5 /\ b = 0 /\ c = 0 /\ m = << >>
  /\ xs = << >> /\ ys = << >> /\ s = << >> /\ t = << >>
  /\ call = NoCall /\ answer = NoAnswer

Send ==
  /\ call = NoCall
  /\ call' \in Calls
  /\ answer' = NoAnswer
  /\ UNCHANGED store

\* A call ends: what it returns, or that it failed
Returns(name, values) ==
  /\ call # NoCall /\ call.name = name /\ ~ call.paid /\ ~ call.cut
  /\ call' = NoCall
  /\ answer' = <<"returned", values>>
Fails ==
  /\ call # NoCall
  /\ \/ call.paid \/ call.cut \/ call.name = "unknown"
     \/ call.name = "guarded" /\ Unsigned3(call.args[1]) # Unsigned3(c + 1) /\ Unsigned3(call.args[1]) = a
     \/ call.name = "pop" /\ xs = << >>
     \/ call.name \in {"add", "xs"} /\ call.args[1] >= Len(xs)
     \/ call.name = "ys" /\ call.args[1] >= Len(ys)
     \/ call.name = "chop" /\ s = << >>
     \/ call.name = "put" /\ call.args[1] >= Len(s)
  /\ call' = NoCall
  /\ answer' = Failed
  /\ UNCHANGED store

Set ==
  /\ Returns("set", << >>)
  /\ a' = Unsigned3(call.args[1]) /\ b' = Signed6(call.args[2])
  /\ UNCHANGED <<c, m, xs, ys, s, t>>
Exchange ==
  /\ Returns("exchange", << >>)
  /\ a' = c /\ c' = a
  /\ UNCHANGED <<b, m, xs, ys, s, t>>
Raise ==
  /\ Returns("raise", << >>)
  /\ a' = Unsigned3(a + call.args[1])
  /\ b' = a' - 7
  /\ UNCHANGED <<c, m, xs, ys, s, t>>
\* The modifier goes on after the function has returned.
Guarded ==
  LET x == Unsigned3(call.args[1])
      early == x = Unsigned3(c + 1)
  IN  /\ Returns("guarded", <<Num(early)>>)
      /\ early \/ a # x
      /\ a' = IF early THEN a ELSE x
      /\ c' = Unsigned3(c + 3)
      /\ UNCHANGED <<b, m, xs, ys, s, t>>

Push ==
  /\ Returns("push", <<Count(xs)>>)
  /\ xs' = Append(xs, Unsigned3(call.args[1]))
  /\ UNCHANGED <<a, b, c, m, ys, s, t>>
Pop ==
  /\ Returns("pop", << >>)
  /\ xs # << >> /\ xs' = SubSeq(xs, 1, Len(xs) - 1)
  /\ UNCHANGED <<a, b, c, m, ys, s, t>>
Add ==
  /\ Returns("add", << >>)
  /\ call.args[1] < Len(xs)
  /\ xs' = [xs EXCEPT ![call.args[1] + 1] = Unsigned3(@ + call.args[2])]
  /\ UNCHANGED <<a, b, c, m, ys, s, t>>
Copy ==
  /\ Returns("copy", << >>)
  /\ ys' = xs
  /\ UNCHANGED <<a, b, c, m, xs, s, t>>
Clear ==
  /\ Returns("clear", << >>)
  /\ ys' = << >>
  /\ UNCHANGED <<a, b, c, m, xs, s, t>>
\* Elements that are added are zero.
Resize ==
  LET n == call.args[1]
  IN  /\ Returns("resize", << >>)
      /\ xs' = [k \in 1..n |-> IF k <= Len(xs) THEN xs[k] ELSE 0]
      /\ UNCHANGED <<a, b, c, m, ys, s, t>>
Total ==
  LET sum[k \in 0..Len(xs)] == IF k = 0 THEN 0 ELSE sum[k - 1] + (IF xs[k] = 1 THEN 0 ELSE xs[k])
  IN  Returns("total", <<sum[Len(xs)]>>) /\ UNCHANGED store

AppendByte ==
  /\ Returns("append", <<Count(s)>>)
  /\ s' = Append(s, Byte(call.args[1]))
  /\ UNCHANGED <<a, b, c, m, xs, ys, t>>
Chop ==
  /\ Returns("chop", << >>)
  /\ s # << >> /\ s' = SubSeq(s, 1, Len(s) - 1)
  /\ UNCHANGED <<a, b, c, m, xs, ys, t>>
Put ==
  /\ Returns("put", << >>)
  /\ call.args[1] < Len(s)
  /\ s' = [s EXCEPT ![call.args[1] + 1] = Byte(call.args[2])]
  /\ UNCHANGED <<a, b, c, m, xs, ys, t>>
Keep ==
  /\ Returns("keep", << >>)
  /\ t' = s
  /\ UNCHANGED <<a, b, c, m, xs, ys, s>>
Wipe ==
  /\ Returns("wipe", << >>)
  /\ s' = << >>
  /\ UNCHANGED <<a, b, c, m, xs, ys, t>>
\* A value of zero is the same as no entry.
Note ==
  LET value == Unsigned6(Len(s) - 3)
      keys == (DOMAIN m \ {call.args[1]}) \cup (IF value = 0 THEN {} ELSE {call.args[1]})
  IN  /\ Returns("note", << >>)
      /\ m' = [k \in keys |-> IF k = call.args[1] THEN value ELSE m[k]]
      /\ UNCHANGED <<a, b, c, xs, ys, s, t>>

\* The getters
Get ==
  /\ UNCHANGED store
  /\ \/ Returns("a", <<a>>)
     \/ Returns("b", <<Extended(b)>>)
     \/ Returns("xs", <<xs[call.args[1] + 1]>>) /\ call.args[1] < Len(xs)
     \/ Returns("ys", <<ys[call.args[1] + 1]>>) /\ call.args[1] < Len(ys)
     \/ Returns("s", s)
     \/ Returns("t", t)
     \/ Returns("m", <<IF call.args[1] \in DOMAIN m THEN m[call.args[1]] ELSE 0>>)

Next ==
  \/ Send \/ Fails \/ Set \/ Exchange \/ Raise \/ Guarded
  \/ Push \/ Pop \/ Add \/ Copy \/ Clear \/ Resize \/ Total
  \/ AppendByte \/ Chop \/ Put \/ Keep \/ Wipe \/ Note \/ Get

Spec == Init /\ [][Next]_vars

=============================================================================
