----------------------------- MODULE MC_Imports -----------------------------
(***************************************************************************)
(* What CompilerStack does with imports: the remapping a path is rewritten *)
(* with, the text remappings are given and published as, and the order the *)
(* sources are analysed in.  The three share no state, so each is explored *)
(* while the other two have nothing to do.                                 *)
(***************************************************************************)
EXTENDS ImportOrder, Remapping

CONSTANTS a, b

\* Contexts and prefixes that are prefixes of each other, and one that matches nothing.
SomeContexts == {<< >>, <<a>>, <<a, b>>, <<b>>}
SomePrefixes == {<<a>>, <<a, a>>, <<b>>}
SomeTargets == {<<b, b>>}
SomePaths == {<<a>>, <<a, a, b>>, <<b, a>>}
SomeImporters == {<<a>>, <<a, b, a>>}

NothingToOrder == imports = [s \in Source |-> {}] /\ isLibrary = [s \in Source |-> TRUE] /\ Init
NothingToRemap == remappings = << >> /\ path = <<a>> /\ context = <<a>> /\ RemapInit
NothingToRead == text = << >>

ImportsInit ==
  \/ Init /\ NothingToRemap /\ NothingToRead
  \/ NothingToOrder /\ RemapInit /\ NothingToRead
  \/ NothingToOrder /\ NothingToRemap /\ TextInit

ImportsNext ==
  \/ Next /\ UNCHANGED <<remapVars, text>>
  \/ RemapNext /\ UNCHANGED <<vars, text>>

allVars == <<vars, remapVars, text>>

ImportsSpec == ImportsInit /\ [][ImportsNext]_allVars

=============================================================================
