----------------------------- MODULE Remapping -----------------------------
(***************************************************************************)
(* CompilerStack::applyRemapping (libsolidity/interface/CompilerStack.cpp):*)
(* the loop that chooses, among the remappings, the one an import path is  *)
(* rewritten with.  Paths are sequences of characters.  sanitizePath only  *)
(* changes the separators of some platforms and is left out.               *)
(*                                                                         *)
(* At the end, CompilerStack::parseRemapping, which reads                  *)
(* "context:prefix=target", and the text createMetadata writes for a       *)
(* remapping, on every short text.                                         *)
(***************************************************************************)
EXTENDS Naturals, Sequences

CONSTANTS Char,
          Contexts, Prefixes, Targets,   \* what remappings are made of
          MaxRemappings,                 \* bound on their number
          Paths, Importers               \* import paths, and sources they are found in

ASSUME RemappingAssumption ==
  /\ Contexts \cup Prefixes \cup Targets \cup Paths \cup Importers \subseteq Seq(Char)
  /\ << >> \notin Prefixes               \* asserted by setRemappings
  /\ MaxRemappings \in Nat

VARIABLES remappings,       \* m_remappings
          path, context,    \* the arguments
          i,                \* the loop's position
          longestPrefix, longestContext,
          best,             \* history: which remapping bestMatchTarget is from, or 0
          bestMatchTarget

remapVars == <<remappings, path, context, i, longestPrefix, longestContext, best, bestMatchTarget>>

Remappings == [context : Contexts, prefix : Prefixes, target : Targets]

RemapInit ==
  /\ remappings \in UNION {[1..n -> Remappings] : n \in 0..MaxRemappings}
  /\ path \in Paths /\ context \in Importers
  /\ i = 1
  /\ longestPrefix = 0 /\ longestContext = 0
  /\ best = 0 /\ bestMatchTarget = << >>

IsPrefixOf(a, b) == Len(a) <= Len(b) /\ \A k \in 1..Len(a) : a[k] = b[k]

\* Mutant: a shorter prefix is skipped also in a closer context.
SkipsShorterPrefix(r) ==
  \/ Len(r.context) < longestContext
  \/ ~IsPrefixOf(r.context, context)
  \/ Len(r.prefix) < longestPrefix
  \/ ~IsPrefixOf(r.prefix, path)

\* The four "continue" of the loop.
Skips(r) ==
  \/ Len(r.context) < longestContext
  \/ ~IsPrefixOf(r.context, context)
  \/ Len(r.prefix) < longestPrefix /\ Len(r.context) = longestContext
  \/ ~IsPrefixOf(r.prefix, path)

Skip ==
  /\ i <= Len(remappings)
  /\ Skips(remappings[i])
  /\ i' = i + 1
  /\ UNCHANGED <<remappings, path, context, longestPrefix, longestContext, best, bestMatchTarget>>

Take ==
  /\ i <= Len(remappings)
  /\ ~Skips(remappings[i])
  /\ longestContext' = Len(remappings[i].context)
  /\ longestPrefix' = Len(remappings[i].prefix)
  /\ best' = i
  /\ bestMatchTarget' = remappings[i].target
  /\ i' = i + 1
  /\ UNCHANGED <<remappings, path, context>>

RemapNext == Skip \/ Take

RemapSpec == RemapInit /\ [][RemapNext]_remapVars

\* What applyRemapping returns after the loop.
Result == bestMatchTarget \o SubSeq(path, longestPrefix + 1, Len(path))

-----------------------------------------------------------------------------
Matches(r) == IsPrefixOf(r.context, context) /\ IsPrefixOf(r.prefix, path)

\* r is as close to the importing source as q is, or closer, and if it is as close its
\* prefix is not shorter.
Closer(r, q) ==
  \/ Len(r.context) > Len(q.context)
  \/ Len(r.context) = Len(q.context) /\ Len(r.prefix) >= Len(q.prefix)

\* The remapping chosen among those looked at so far is a match, no other match is
\* closer, and of equally close matches it is the last; without a match there is none.
\* So the choice does not depend on the order, but for equally close remappings.
ChosenIsClosest ==
  LET matching == {j \in 1..(i - 1) : Matches(remappings[j])}
  IN  IF matching = {} THEN best = 0
      ELSE /\ best \in matching
           /\ \A j \in matching : /\ Closer(remappings[best], remappings[j])
                                  /\ j > best => ~Closer(remappings[j], remappings[best])

\* The result is the target followed by what the prefix did not match; a path that no
\* remapping matches is not changed.
PathRewritten ==
  IF best = 0 THEN Result = path
  ELSE \E rest \in {SubSeq(path, n, Len(path)) : n \in 1..(Len(path) + 1)} :
         /\ path = remappings[best].prefix \o rest
         /\ Result = remappings[best].target \o rest

-----------------------------------------------------------------------------
(* The text of a remapping *)

CONSTANTS Letter, Colon, Equals,
          MaxLength     \* bound on the length of texts

ASSUME TextAssumption == MaxLength \in Nat /\ {Colon, Equals} \cap Letter = {} /\ Colon # Equals

VARIABLE text

\* std::find: the first position of c in s[from..to], or to + 1.
Find(s, from, to, c) ==
  LET found == {k \in from..to : s[k] = c}
  IN  IF found = {} THEN to + 1 ELSE CHOOSE k \in found : \A l \in found : k <= l

Parts(c, p, t) == [context |-> c, prefix |-> p, target |-> t]

\* parseRemapping: the set of its result, empty for boost::none.
ParseRemapping(s) ==
  LET eq == Find(s, 1, Len(s), Equals)
      colon == Find(s, 1, eq - 1, Colon)
      parts == IF colon = eq
               THEN Parts(<< >>, SubSeq(s, 1, eq - 1), SubSeq(s, eq + 1, Len(s)))
               ELSE Parts(SubSeq(s, 1, colon - 1), SubSeq(s, colon + 1, eq - 1),
                          SubSeq(s, eq + 1, Len(s)))
  IN  IF eq > Len(s) \/ parts.prefix = << >> THEN {} ELSE {parts}

\* Mutant: an empty context is written without its colon.
FormatOmittingContext(r) ==
  (IF r.context = << >> THEN << >> ELSE Append(r.context, Colon))
    \o Append(r.prefix, Equals) \o r.target

\* What createMetadata writes.
Format(r) == Append(r.context, Colon) \o Append(r.prefix, Equals) \o r.target

TextInit == text \in UNION {[1..n -> Letter \cup {Colon, Equals}] : n \in 0..MaxLength}

-----------------------------------------------------------------------------
\* A remapping that was read from a text is the one the metadata gives back when it is
\* compiled again, also if there are more colons and "=" than one.
MetadataReproducesRemapping ==
  \A r \in ParseRemapping(text) : ParseRemapping(Format(r)) = {r}

=============================================================================
