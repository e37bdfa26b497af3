------------------------ MODULE MC_StandardCompiler ------------------------
(***************************************************************************)
(* Instances of StandardCompiler for TLC: requests that leave as much      *)
(* behind as they can, followed by requests that say as little as they can.*)
(***************************************************************************)
EXTENDS StandardCompiler

CONSTANTS a, b, none, lib1, ev1, ev2

Plain == [parse |-> "ok", imports |-> {}, defect |-> NoDefect, fatal |-> FALSE,
          warns |-> FALSE, contract |-> FALSE, deployable |-> FALSE, deps |-> {},
          query |-> FALSE]
Deploys == [Plain EXCEPT !.contract = TRUE, !.deployable = TRUE]
Creates == [Deploys EXCEPT !.imports = {b}, !.deps = {b}, !.query = TRUE]
Broken == [Plain EXCEPT !.parse = "error", !.imports = {a, b}]
IllTyped == [Deploys EXCEPT !.defect = "types"]

Cyclic == [Plain EXCEPT !.imports = {a, b}]

Texts == {Deploys, Creates, Broken, IllTyped, Cyclic}
Read == {NotFound, Deploys, Cyclic}

Identity == [n \in Name |-> n]
ToB == [n \in Name |-> b]
BothRemappings == {Identity, ToB}

Content(c) == [kind |-> "content", text |-> c, match |-> TRUE]
Mismatch == [kind |-> "content", text |-> Deploys, match |-> FALSE]
Urls(c, failures, mismatches) ==
  [kind |-> "urls", text |-> c, failures |-> failures, mismatches |-> mismatches]
Invalid == [kind |-> "invalid"]

Minimal == [shape |-> "ok", sources |-> [n \in {b} |-> Content(Deploys)], responses |-> {},
            malformed |-> "none", evmVersion |-> Absent, optimize |-> Absent,
            remapping |-> Identity, libraries |-> none, literal |-> FALSE,
            selection |-> {}]

Full == [Minimal EXCEPT !.sources = [n \in {a} |-> Content(Creates)], !.responses = {a},
            !.evmVersion = ev2, !.optimize = TRUE, !.remapping = ToB, !.libraries = lib1,
            !.literal = TRUE, !.selection = {<<a, Star>>}]

Both(x, y) == [n \in {a, b} |-> IF n = a THEN x ELSE y]

GoodRequests ==
  { Minimal, Full,
    [Minimal EXCEPT !.sources = Both(Content(Creates), Content(Deploys)),
                    !.selection = {<<b, b>>}],
    [Full EXCEPT !.sources = Both(Urls(Broken, 1, 1), Mismatch), !.selection = {<<a, NoName>>}],
    [Full EXCEPT !.sources = Both(Content(IllTyped), Urls(NotFound, 1, 1))],
    [Full EXCEPT !.sources = Both(Content(Deploys), Invalid)],
    [Minimal EXCEPT !.sources = [n \in {a} |-> Urls(NotFound, 0, 0)]],
    [Minimal EXCEPT !.sources = [n \in {a} |-> Content(Deploys)], !.selection = {<<Star, a>>}],
    [Minimal EXCEPT !.shape = "language"] }
  \cup {[Full EXCEPT !.malformed = part] :
           part \in AuxiliaryParts \cup {SettingNames[k] : k \in 1..Len(SettingNames)}}

NoRequestedSets == {{}}

=============================================================================
