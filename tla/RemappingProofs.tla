-------------------------- MODULE RemappingProofs --------------------------
(***************************************************************************)
(* For all remappings, paths and contexts: the loop of applyRemapping      *)
(* chooses the closest match and rewrites the path with it, and what       *)
(* createMetadata writes for a remapping is read back as that remapping.   *)
(***************************************************************************)
EXTENDS Remapping, SequenceTheorems, WellFoundedInduction, TLAPS

\* What the loop keeps in its variables.
LoopType ==
  /\ remappings \in Seq(Remappings)
  /\ i \in 1..(Len(remappings) + 1)
  /\ best \in 0..(i - 1)
  /\ longestPrefix \in Nat /\ longestContext \in Nat

\* The lengths are those of the chosen remapping, or 0: this is what the comparisons of
\* the loop rely on.
LengthsOfBest ==
  /\ best = 0 => longestPrefix = 0 /\ longestContext = 0
  /\ best # 0 => /\ longestPrefix = Len(remappings[best].prefix)
                 /\ longestContext = Len(remappings[best].context)

LoopInv == LoopType /\ LengthsOfBest /\ ChosenIsClosest

\* Every remapping has lengths that are natural numbers.
LEMMA RemappingLengths ==
  ASSUME NEW r \in Remappings
  PROVE  Len(r.context) \in Nat /\ Len(r.prefix) \in Nat
<1>1. r.context \in Seq(Char) /\ r.prefix \in Seq(Char)
  BY RemappingAssumption DEF Remappings
<1>2. QED
  BY <1>1

\* Closeness is transitive.
LEMMA CloserTransitive ==
  ASSUME NEW p, NEW q, NEW t, Closer(p, q), Closer(q, t),
         Len(p.context) \in Nat, Len(p.prefix) \in Nat,
         Len(q.context) \in Nat, Len(q.prefix) \in Nat,
         Len(t.context) \in Nat, Len(t.prefix) \in Nat
  PROVE  Closer(p, t)
<1> DEFINE pc == Len(p.context)  pp == Len(p.prefix)
           qc == Len(q.context)  qp == Len(q.prefix)
           tc == Len(t.context)  tp == Len(t.prefix)
<1>1. pc \in Nat /\ pp \in Nat /\ qc \in Nat /\ qp \in Nat /\ tc \in Nat /\ tp \in Nat
  OBVIOUS
<1>2. (pc > qc \/ (pc = qc /\ pp >= qp)) /\ (qc > tc \/ (qc = tc /\ qp >= tp))
  BY DEF Closer
<1>3. pc > tc \/ (pc = tc /\ pp >= tp)
  <2> HIDE DEF pc, pp, qc, qp, tc, tp
  <2>1. QED
    BY <1>1, <1>2
<1>4. QED
  BY <1>3 DEF Closer

\* Before the first iteration nothing has been looked at.
LEMMA LoopInvInit == RemapInit => LoopInv
<1>1. SUFFICES ASSUME RemapInit PROVE LoopInv
  OBVIOUS
<1>2. PICK n \in 0..MaxRemappings : remappings \in [1..n -> Remappings]
  BY <1>1 DEF RemapInit
<1>3. n \in Nat
  BY RemappingAssumption
<1>4. remappings \in Seq(Remappings) /\ Len(remappings) = n
  BY <1>2, <1>3
<1>5. LoopType
  BY <1>1, <1>3, <1>4 DEF RemapInit, LoopType
<1>6. LengthsOfBest
  BY <1>1 DEF RemapInit, LengthsOfBest
<1>7. ChosenIsClosest
  <2>1. {j \in 1..(i - 1) : Matches(remappings[j])} = {}
    BY <1>1 DEF RemapInit
  <2>2. QED
    BY <1>1, <2>1 DEF RemapInit, ChosenIsClosest
<1>8. QED
  BY <1>5, <1>6, <1>7 DEF LoopInv

\* The matches among the first n remappings.
Matching(n) == {j \in 1..n : Matches(remappings[j])}

\* An iteration that skips keeps the choice: the remapping is no match or not as close.
LEMMA SkipKeepsChoice ==
  ASSUME LoopInv, Skip
  PROVE  LoopInv'
<1> DEFINE r == remappings[i]
<1>1. /\ remappings \in Seq(Remappings) /\ i \in 1..(Len(remappings) + 1)
      /\ i <= Len(remappings) /\ best \in 0..(i - 1)
      /\ longestPrefix \in Nat /\ longestContext \in Nat
  BY DEF LoopInv, LoopType, Skip
<1>2. i \in 1..Len(remappings) /\ i \in Nat /\ r \in Remappings
  BY <1>1
<1>3. Len(r.context) \in Nat /\ Len(r.prefix) \in Nat
  BY <1>2, RemappingLengths
<1>4. LoopType'
  BY <1>1 DEF LoopType, Skip
<1>5. LengthsOfBest'
  BY DEF LoopInv, LengthsOfBest, Skip
<1>6. Matching(i - 1)' = Matching(i)
  BY <1>1 DEF Matching, Matches, Skip
<1>7. ChosenIsClosest'
  <2>1. CASE ~Matches(r)
    <3>1. Matching(i) = Matching(i - 1)
      BY <2>1, <1>1 DEF Matching
    <3>2. QED
      BY <3>1, <1>6 DEF LoopInv, ChosenIsClosest, Matching, Skip, Closer
  <2>2. CASE Matches(r)
    <3>1. \/ Len(r.context) < longestContext
          \/ Len(r.prefix) < longestPrefix /\ Len(r.context) = longestContext
      BY <2>2 DEF Skip, Skips, Matches
    <3>2. best # 0
      BY <3>1, <1>3 DEF LoopInv, LengthsOfBest
    <3>3. /\ longestPrefix = Len(remappings[best].prefix)
          /\ longestContext = Len(remappings[best].context)
      BY <3>2 DEF LoopInv, LengthsOfBest
    <3>4. Closer(remappings[best], r) /\ ~Closer(r, remappings[best])
      BY SMTT(30), <3>1, <3>3, <1>1, <1>3 DEF Closer
    <3>5. Matching(i - 1) # {} /\ best \in Matching(i - 1)
          /\ \A j \in Matching(i - 1) : /\ Closer(remappings[best], remappings[j])
                                        /\ j > best => ~Closer(remappings[j], remappings[best])
      BY <3>2, Zenon DEF LoopInv, ChosenIsClosest, Matching
    <3>6. Matching(i) = Matching(i - 1) \cup {i}
      BY <2>2, <1>1 DEF Matching
    <3>7. \A j \in Matching(i) : /\ Closer(remappings[best], remappings[j])
                                 /\ j > best => ~Closer(remappings[j], remappings[best])
      BY <3>4, <3>5, <3>6
    <3>8. best \in Matching(i)
      BY <3>5, <3>6
    <3>9. QED
      BY <3>7, <3>8, <1>6 DEF ChosenIsClosest, Matching, Skip, Closer
  <2>3. QED
    BY <2>1, <2>2
<1>8. QED
  BY <1>4, <1>5, <1>7 DEF LoopInv

\* An iteration that takes a remapping takes one that is at least as close.
LEMMA TakeImprovesChoice ==
  ASSUME LoopInv, Take
  PROVE  LoopInv'
<1> DEFINE r == remappings[i]
<1>1. /\ remappings \in Seq(Remappings) /\ i \in 1..(Len(remappings) + 1)
      /\ i <= Len(remappings) /\ best \in 0..(i - 1)
      /\ longestPrefix \in Nat /\ longestContext \in Nat
  BY DEF LoopInv, LoopType, Take
<1>2. i \in 1..Len(remappings) /\ i \in Nat /\ r \in Remappings
  BY <1>1
<1>3. Len(r.context) \in Nat /\ Len(r.prefix) \in Nat
  BY <1>2, RemappingLengths
<1>4. LoopType'
  BY <1>1, <1>3 DEF LoopType, Take
<1>5. LengthsOfBest'
  BY <1>2 DEF LengthsOfBest, Take
<1>6. Matching(i - 1)' = Matching(i)
  BY <1>1 DEF Matching, Matches, Take
<1>7. Matches(r)
  BY DEF Take, Skips, Matches
<1>8. Matching(i) = Matching(i - 1) \cup {i}
  BY <1>7, <1>1 DEF Matching
<1>9. \A j \in Matching(i - 1) : Closer(r, remappings[j])
  <2>1. SUFFICES ASSUME NEW j \in Matching(i - 1) PROVE Closer(r, remappings[j])
    OBVIOUS
  <2>2. best \in Matching(i - 1) /\ Closer(remappings[best], remappings[j])
    BY <2>1, Zenon DEF LoopInv, ChosenIsClosest, Matching
  <2>3. best # 0 /\ best \in 1..Len(remappings) /\ j \in 1..Len(remappings)
    BY <2>1, <2>2, <1>1 DEF Matching
  <2>4. Closer(r, remappings[best])
    <3>1. /\ longestPrefix = Len(remappings[best].prefix)
          /\ longestContext = Len(remappings[best].context)
      BY <2>3 DEF LoopInv, LengthsOfBest
    <3>2. /\ ~(Len(r.context) < longestContext)
          /\ ~(Len(r.prefix) < longestPrefix /\ Len(r.context) = longestContext)
      BY DEF Take, Skips
    <3>3. QED
      BY <3>1, <3>2, <1>1, <1>3 DEF Closer
  <2>5. /\ Len(remappings[best].context) \in Nat /\ Len(remappings[best].prefix) \in Nat
        /\ Len(remappings[j].context) \in Nat /\ Len(remappings[j].prefix) \in Nat
    <3>1. remappings[best] \in Remappings /\ remappings[j] \in Remappings
      BY <2>3, <1>1
    <3>2. QED
      BY <3>1, RemappingLengths
  <2>6. QED
    BY <2>2, <2>4, <2>5, <1>3, CloserTransitive
<1>10. Closer(r, r)
  BY <1>3 DEF Closer
<1>11. \A j \in Matching(i) : Closer(r, remappings[j]) /\ ~(j > i)
  BY <1>8, <1>9, <1>10, <1>2 DEF Matching
<1>12. ChosenIsClosest'
  BY <1>6, <1>8, <1>11 DEF ChosenIsClosest, Matching, Take, Closer
<1>13. QED
  BY <1>4, <1>5, <1>12 DEF LoopInv

\* applyRemapping chooses the closest match: the longest context, then the longest
\* prefix, then the last, for any number of remappings and any strings.
THEOREM ClosestRemappingChosen == RemapSpec => []ChosenIsClosest
<1>1. LoopInv /\ [RemapNext]_remapVars => LoopInv'
  <2>1. SUFFICES ASSUME LoopInv, [RemapNext]_remapVars PROVE LoopInv'
    OBVIOUS
  <2>2. CASE Skip
    BY <2>1, <2>2, SkipKeepsChoice
  <2>3. CASE Take
    BY <2>1, <2>3, TakeImprovesChoice
  <2>4. CASE UNCHANGED remapVars
    BY <2>1, <2>4 DEF remapVars, LoopInv, LoopType, LengthsOfBest, ChosenIsClosest, Matches, Closer
  <2>5. QED
    BY <2>1, <2>2, <2>3, <2>4 DEF RemapNext
<1>2. LoopInv => ChosenIsClosest
  BY DEF LoopInv
<1>3. QED
  BY <1>1, <1>2, LoopInvInit, PTL DEF RemapSpec

-----------------------------------------------------------------------------
(* The rewritten path. *)

\* The target is that of the chosen remapping, and the strings are strings.
RewriteInv ==
  /\ LoopInv
  /\ path \in Seq(Char)
  /\ bestMatchTarget = IF best = 0 THEN << >> ELSE remappings[best].target

\* What IsPrefixOf leaves is the rest of the string.
LEMMA PrefixAndRest ==
  ASSUME NEW S, NEW p \in Seq(S), NEW q \in Seq(S), IsPrefixOf(p, q)
  PROVE  p \o SubSeq(q, Len(p) + 1, Len(q)) = q
<1> DEFINE n == Len(p)
           m == Len(q)
           rest == SubSeq(q, n + 1, m)
<1>1. /\ n \in Nat /\ m \in Nat /\ n <= m /\ n + 1 \in Int /\ m \in Int
      /\ \A k \in 1..n : p[k] = q[k]
      /\ \A k \in (n + 1)..m : q[k] \in S
  BY DEF IsPrefixOf
<1>2. /\ rest \in Seq(S)
      /\ Len(rest) = IF n + 1 <= m THEN m - (n + 1) + 1 ELSE 0
      /\ \A k \in 1..(m - (n + 1) + 1) : rest[k] = q[(n + 1) + k - 1]
  BY <1>1, SubSeqProperties
<1>3. /\ p \o rest \in Seq(S) /\ Len(p \o rest) = n + Len(rest)
      /\ \A k \in 1..(n + Len(rest)) :
           (p \o rest)[k] = IF k <= n THEN p[k] ELSE rest[k - n]
  BY <1>2, ConcatProperties
<1> HIDE DEF rest, n, m
<1>4. Len(rest) = m - n
  BY <1>1, <1>2
<1>5. Len(p \o rest) = m
  BY <1>1, <1>3, <1>4
<1>6. ASSUME NEW k \in 1..m PROVE (p \o rest)[k] = q[k]
  <2>1. CASE k <= n
    BY <1>1, <1>3, <1>4, <2>1
  <2>2. CASE ~(k <= n)
    <3>1. k - n \in 1..(m - (n + 1) + 1) /\ (n + 1) + (k - n) - 1 = k /\ ~(k <= n)
      BY <1>1, <2>2
    <3>2. rest[k - n] = q[k]
      BY <1>2, <3>1
    <3>3. QED
      BY <1>1, <1>3, <1>4, <3>1, <3>2
  <2>3. QED
    BY <2>1, <2>2
<1>7. p \o rest = q
  BY <1>3, <1>5, <1>6, SeqEqual DEF m
<1>8. QED
  BY <1>7 DEF rest, n, m

\* The invariant says what the result is.
LEMMA RewriteInvGivesResult == RewriteInv => PathRewritten
<1>1. SUFFICES ASSUME RewriteInv PROVE PathRewritten
  OBVIOUS
<1>2. path \in Seq(Char) /\ LoopType /\ LengthsOfBest /\ ChosenIsClosest
  BY <1>1 DEF RewriteInv, LoopInv
<1>3. CASE best = 0
  <2>1. Result = << >> \o SubSeq(path, 1, Len(path))
    BY <1>1, <1>2, <1>3 DEF Result, RewriteInv, LengthsOfBest
  <2>2. Result = path
    BY <1>2, <2>1, SubSeqFull, ConcatEmptySeq
  <2>3. QED
    BY <1>3, <2>2 DEF PathRewritten
<1>4. CASE best # 0
  <2> DEFINE p == remappings[best].prefix
             rest == SubSeq(path, Len(p) + 1, Len(path))
  <2>1. remappings[best] \in Remappings
    BY <1>2, <1>4 DEF LoopType
  <2>2. p \in Seq(Char)
    BY <2>1, RemappingAssumption DEF Remappings
  <2>3. IsPrefixOf(p, path)
    BY <1>2, <1>4 DEF ChosenIsClosest, Matches
  <2>4. path = p \o rest
    BY <1>2, <2>2, <2>3, PrefixAndRest
  <2>5. Result = remappings[best].target \o rest
    BY <1>1, <1>2, <1>4 DEF Result, RewriteInv, LengthsOfBest
  <2>6. Len(p) + 1 \in 1..(Len(path) + 1)
    BY <1>2, <2>2, <2>3 DEF IsPrefixOf
  <2>7. QED
    BY <1>4, <2>4, <2>5, <2>6 DEF PathRewritten
<1>5. QED
  BY <1>3, <1>4

\* Whatever the loop chooses, the result is the target followed by what the prefix left of
\* the path, and a path that nothing matches stays as it is.
THEOREM ResultRewritesPrefix == RemapSpec => []PathRewritten
<1>1. RemapInit => RewriteInv
  BY LoopInvInit, RemappingAssumption DEF RemapInit, RewriteInv
<1>2. RewriteInv /\ [RemapNext]_remapVars => RewriteInv'
  <2>1. SUFFICES ASSUME RewriteInv, [RemapNext]_remapVars PROVE RewriteInv'
    OBVIOUS
  <2>2. CASE Skip
    BY <2>1, <2>2, SkipKeepsChoice DEF RewriteInv, Skip
  <2>3. CASE Take
    <3>1. i \in Nat /\ i # 0
      BY <2>1 DEF RewriteInv, LoopInv, LoopType
    <3>2. QED
      BY <2>1, <2>3, <3>1, TakeImprovesChoice DEF RewriteInv, Take
  <2>4. CASE UNCHANGED remapVars
    BY <2>1, <2>4 DEF remapVars, RewriteInv, LoopInv, LoopType, LengthsOfBest, ChosenIsClosest,
       Matches, Closer
  <2>5. QED
    BY <2>1, <2>2, <2>3, <2>4 DEF RemapNext
<1>3. QED
  BY <1>1, <1>2, RewriteInvGivesResult, PTL DEF RemapSpec

-----------------------------------------------------------------------------
(* The text of a remapping. *)

\* Every set of natural numbers that is not empty has a least element.
LEMMA LeastOf ==
  ASSUME NEW T, T \subseteq Nat, T # {} PROVE \E k \in T : \A l \in T : k <= l
<1>1. PICK k \in T : \A l \in T : <<l, k>> \notin OpToRel(<, Nat)
  BY NatLessThanWellFounded, WFMin
<1>2. \A l \in T : ~(l < k)
  BY <1>1 DEF OpToRel
<1>3. QED
  BY <1>2

\* std::find returns the first position of c, if there is one.
LEMMA FindsFirst ==
  ASSUME NEW s, NEW from \in Nat, NEW to \in Nat, NEW c, NEW f, f = Find(s, from, to, c)
  PROVE  \/ f = to + 1 /\ \A k \in from..to : s[k] # c
         \/ f \in from..to /\ s[f] = c /\ \A k \in from..(f - 1) : s[k] # c
<1> DEFINE found == {k \in from..to : s[k] = c}
<1>1. CASE found = {}
  BY <1>1 DEF Find
<1>2. CASE found # {}
  <2>1. found \subseteq Nat
    OBVIOUS
  <2>2. \E k \in found : \A l \in found : k <= l
    BY <1>2, <2>1, LeastOf
  <2>3. f \in found /\ \A l \in found : f <= l
    BY <1>2, <2>2 DEF Find
  <2>4. f \in from..to /\ s[f] = c
    BY <2>3
  <2>5. \A k \in from..(f - 1) : s[k] # c
    BY <2>3, <2>4
  <2>6. QED
    BY <2>4, <2>5
<1>3. QED
  BY <1>1, <1>2

\* The position std::find returns is determined by that.
LEMMA FirstIsFound ==
  ASSUME NEW s, NEW from \in Nat, NEW to \in Nat, NEW c, NEW p \in from..to,
         s[p] = c, \A k \in from..(p - 1) : s[k] # c
  PROVE  Find(s, from, to, c) = p
<1>1. PICK f : f = Find(s, from, to, c)
  OBVIOUS
<1>2. f \in from..to /\ s[f] = c /\ \A k \in from..(f - 1) : s[k] # c
  BY <1>1, FindsFirst
<1>3. ~(f < p) /\ ~(p < f)
  BY <1>2
<1>4. QED
  BY <1>1, <1>2, <1>3

\* The characters of a text.
Text == Seq(Letter \cup {Colon, Equals})

\* q holds the text u at the positions from..to.
HoldsAt(q, from, to, u) ==
  /\ from \in Nat \ {0} /\ to = from + Len(u) - 1 /\ to <= Len(q)
  /\ \A k \in 1..Len(u) : q[from + k - 1] = u[k]

\* A part of a text, given by what it holds.
LEMMA SliceIs ==
  ASSUME NEW q \in Text, NEW u \in Text, NEW from, NEW to, HoldsAt(q, from, to, u)
  PROVE  SubSeq(q, from, to) = u
<1> DEFINE part == SubSeq(q, from, to)
           S == Letter \cup {Colon, Equals}
<1>1. q \in Seq(S) /\ u \in Seq(S)
  BY DEF Text
<1> HIDE DEF S
<1>2. /\ Len(u) \in Nat /\ from \in Nat \ {0} /\ to \in Int /\ Len(q) \in Nat
      /\ to = from + Len(u) - 1 /\ to <= Len(q)
  BY <1>1 DEF HoldsAt
<1>3. \A k \in from..to : q[k] \in S
  BY <1>1, <1>2
<1>4. /\ part \in Seq(S)
      /\ Len(part) = IF from <= to THEN to - from + 1 ELSE 0
      /\ \A k \in 1..(to - from + 1) : part[k] = q[from + k - 1]
  BY <1>2, <1>3, SubSeqProperties
<1> HIDE DEF part
<1>5. Len(part) = Len(u)
  BY <1>2, <1>4
<1>6. ASSUME NEW k \in 1..Len(u) PROVE part[k] = u[k]
  <2>1. k \in 1..(to - from + 1)
    BY <1>2
  <2>2. part[k] = q[from + k - 1]
    BY <1>4, <2>1
  <2>3. QED
    BY <2>2 DEF HoldsAt
<1>7. part = u
  BY <1>1, <1>4, <1>5, <1>6, SeqEqual
<1>8. QED
  BY <1>7 DEF part

\* The three parts as parseRemapping leaves them.
Separated(c, p, t) ==
  /\ c \in Text /\ p \in Text /\ t \in Text
  /\ \A k \in 1..Len(c) : c[k] # Colon /\ c[k] # Equals
  /\ \A k \in 1..Len(p) : p[k] # Equals
  /\ p # << >>

\* A slice of a text is a text with the characters of the slice.
LEMMA SliceOfText ==
  ASSUME NEW s \in Text, NEW from \in Nat \ {0}, NEW to \in Nat, to <= Len(s)
  PROVE  /\ SubSeq(s, from, to) \in Text
         /\ \A k \in 1..Len(SubSeq(s, from, to)) :
              \E l \in from..to : SubSeq(s, from, to)[k] = s[l]
<1> DEFINE part == SubSeq(s, from, to)
           C == Letter \cup {Colon, Equals}
<1>1. from \in Int /\ to \in Int /\ s \in Seq(C) /\ Len(s) \in Nat
  BY DEF Text
<1>2. \A k \in from..to : s[k] \in C
  <2> HIDE DEF C
  <2>1. QED
    BY <1>1
<1>3. /\ part \in Seq(C) /\ Len(part) = IF from <= to THEN to - from + 1 ELSE 0
      /\ \A k \in 1..(to - from + 1) : part[k] = s[from + k - 1]
  <2> HIDE DEF C
  <2>1. QED
    BY <1>1, <1>2, SubSeqProperties
<1> HIDE DEF part, C
<1>4. ASSUME NEW k \in 1..Len(part) PROVE \E l \in from..to : part[k] = s[l]
  <2>1. k \in 1..(to - from + 1) /\ from + k - 1 \in from..to
    BY <1>1, <1>3
  <2>2. QED
    BY <1>3, <2>1
<1>5. QED
  BY <1>3, <1>4 DEF part, C, Text

\* What parseRemapping accepts is separated.
LEMMA ParsedIsSeparated ==
  ASSUME NEW s \in Text, NEW r \in ParseRemapping(s)
  PROVE  r = Parts(r.context, r.prefix, r.target) /\ Separated(r.context, r.prefix, r.target)
<1>1. PICK n, eq, colon : /\ n = Len(s) /\ n \in Nat
                          /\ eq = Find(s, 1, n, Equals)
                          /\ colon = Find(s, 1, eq - 1, Colon)
  BY DEF Text
<1> DEFINE c == SubSeq(s, 1, colon - 1)
           p == IF colon = eq THEN SubSeq(s, 1, eq - 1) ELSE SubSeq(s, colon + 1, eq - 1)
           t == SubSeq(s, eq + 1, n)
           ctx == IF colon = eq THEN << >> ELSE c
<1>2. r = Parts(ctx, p, t) /\ ~(eq > n) /\ p # << >>
  BY <1>1 DEF ParseRemapping, Parts
<1>3. eq \in 1..n /\ \A k \in 1..(eq - 1) : s[k] # Equals
  <2>1. \/ eq = n + 1
        \/ eq \in 1..n /\ \A k \in 1..(eq - 1) : s[k] # Equals
    BY <1>1, FindsFirst
  <2>2. QED
    BY <1>1, <1>2, <2>1
<1>4. \/ colon = eq
      \/ colon \in 1..(eq - 1) /\ \A k \in 1..(colon - 1) : s[k] # Colon
  <2>1. eq - 1 \in Nat
    BY <1>1, <1>3
  <2>2. \/ colon = eq - 1 + 1
        \/ colon \in 1..(eq - 1) /\ \A k \in 1..(colon - 1) : s[k] # Colon
    BY <1>1, <2>1, FindsFirst
  <2>3. QED
    BY <1>3, <2>2
<1>5. t \in Text
  BY <1>1, <1>3, SliceOfText
<1>6. CASE colon = eq
  <2> DEFINE part == SubSeq(s, 1, eq - 1)
  <2>1. /\ part \in Text
        /\ \A k \in 1..Len(part) : \E l \in 1..(eq - 1) : part[k] = s[l]
    BY <1>1, <1>3, SliceOfText
  <2>2. \A k \in 1..Len(part) : part[k] # Equals
    BY <1>3, <2>1
  <2>3. ctx = << >> /\ p = part /\ << >> \in Text /\ Len(<< >>) = 0
    BY <1>6 DEF Text
  <2> HIDE DEF part, ctx, p, t
  <2>4. Separated(ctx, p, t)
    BY <1>2, <1>5, <2>1, <2>2, <2>3 DEF Separated
  <2>5. QED
    BY <1>2, <2>4 DEF Parts
<1>7. CASE colon # eq
  <2> DEFINE part == SubSeq(s, colon + 1, eq - 1)
  <2>1. colon \in 1..(eq - 1) /\ \A k \in 1..(colon - 1) : s[k] # Colon
    BY <1>4, <1>7
  <2> DEFINE last == colon - 1
             from == colon + 1
             to == eq - 1
  <2>10. /\ last \in Nat /\ last <= Len(s) /\ 1 \in Nat \ {0}
        /\ from \in Nat \ {0} /\ to \in Nat /\ to <= Len(s)
    BY <1>1, <1>3, <2>1
  <2> HIDE DEF last, from, to
  <2>2. /\ c \in Text
        /\ \A k \in 1..Len(c) : \E l \in 1..(colon - 1) : c[k] = s[l]
    BY <2>10, SliceOfText DEF last
  <2>3. \A l \in 1..(colon - 1) : l \in 1..(eq - 1)
    BY <1>3, <2>1
  <2>4. \A k \in 1..Len(c) : c[k] # Colon /\ c[k] # Equals
    BY <1>3, <2>1, <2>2, <2>3
  <2>5. /\ part \in Text
        /\ \A k \in 1..Len(part) : \E l \in (colon + 1)..(eq - 1) : part[k] = s[l]
    BY <2>10, SliceOfText DEF from, to
  <2>6. \A k \in 1..Len(part) : part[k] # Equals
    BY <1>3, <2>1, <2>5
  <2>7. ctx = c /\ p = part
    BY <1>7
  <2>8. Separated(ctx, p, t)
    BY <1>2, <1>5, <2>2, <2>4, <2>5, <2>6, <2>7 DEF Separated
  <2>9. QED
    BY <1>2, <2>8 DEF Parts
<1>8. QED
  BY <1>6, <1>7

\* Where the characters of "context:prefix=target" are.
Layout(f, c, p, t, n, m, l) ==
  /\ f \in Text /\ Len(f) = n + m + l + 2
  /\ \A k \in 1..n : f[k] = c[k]
  /\ f[n + 1] = Colon
  /\ \A k \in 1..m : f[n + 1 + k] = p[k]
  /\ f[n + m + 2] = Equals
  /\ \A k \in 1..l : f[n + m + 2 + k] = t[k]

\* Format puts them there.
LEMMA FormatLayout ==
  ASSUME NEW c \in Text, NEW p \in Text, NEW t \in Text, NEW f,
         f = Format(Parts(c, p, t)),
         NEW n, NEW m, NEW l, n = Len(c), m = Len(p), l = Len(t)
  PROVE  Layout(f, c, p, t, n, m, l)
<1> DEFINE C == Letter \cup {Colon, Equals}
           front == Append(c, Colon)
           middle == Append(p, Equals)
<1>1. c \in Seq(C) /\ p \in Seq(C) /\ t \in Seq(C) /\ Colon \in C /\ Equals \in C
  BY DEF Text
<1>2. f = (front \o middle) \o t
  BY DEF Format, Parts
<1> HIDE DEF C
<1>3. n \in Nat /\ m \in Nat /\ l \in Nat
  BY <1>1
<1>4. /\ front \in Seq(C) /\ Len(front) = n + 1 /\ front[n + 1] = Colon
      /\ \A k \in 1..n : front[k] = c[k]
  BY <1>1, AppendProperties
<1>5. /\ middle \in Seq(C) /\ Len(middle) = m + 1 /\ middle[m + 1] = Equals
      /\ \A k \in 1..m : middle[k] = p[k]
  BY <1>1, AppendProperties
<1> HIDE DEF front, middle
<1>6. PICK head : head = front \o middle
  OBVIOUS
<1>7. /\ head \in Seq(C) /\ Len(head) = Len(front) + Len(middle)
      /\ \A k \in 1..(Len(front) + Len(middle)) :
           head[k] = IF k <= Len(front) THEN front[k] ELSE middle[k - Len(front)]
  BY <1>4, <1>5, <1>6, ConcatProperties
<1>8. /\ f \in Seq(C) /\ Len(f) = Len(head) + Len(t)
      /\ \A k \in 1..(Len(head) + Len(t)) :
           f[k] = IF k <= Len(head) THEN head[k] ELSE t[k - Len(head)]
  BY <1>1, <1>2, <1>6, <1>7, ConcatProperties
<1>9. /\ Len(f) = n + m + l + 2 /\ Len(head) = n + m + 2 /\ Len(t) = l
  BY <1>3, <1>4, <1>5, <1>7, <1>8
<1>10. ASSUME NEW k \in 1..(n + 1) PROVE f[k] = front[k]
  BY <1>3, <1>4, <1>5, <1>7, <1>8, <1>9
<1>11. ASSUME NEW k \in 1..(m + 1) PROVE f[n + 1 + k] = middle[k]
  <2>1. n + 1 + k \in 1..(n + m + 2) /\ ~(n + 1 + k <= n + 1) /\ (n + 1 + k) - (n + 1) = k
    BY <1>3
  <2>2. head[n + 1 + k] = middle[k]
    BY <1>3, <1>4, <1>5, <1>7, <2>1
  <2>3. f[n + 1 + k] = head[n + 1 + k]
    BY <1>3, <1>8, <1>9, <2>1
  <2>4. QED
    BY <2>2, <2>3
<1>12. ASSUME NEW k \in 1..l PROVE f[n + m + 2 + k] = t[k]
  <2>1. /\ n + m + 2 + k \in 1..(n + m + 2 + l) /\ ~(n + m + 2 + k <= n + m + 2)
        /\ (n + m + 2 + k) - (n + m + 2) = k
    BY <1>3
  <2>2. QED
    BY <1>3, <1>8, <1>9, <2>1
<1>13. \A k \in 1..n : k \in 1..(n + 1)
  BY <1>3
<1>14. /\ n + 1 \in 1..(n + 1) /\ m + 1 \in 1..(m + 1) /\ n + 1 + (m + 1) = n + m + 2
       /\ \A k \in 1..m : k \in 1..(m + 1)
  BY <1>3
<1>15. f[n + m + 2] = Equals
  BY <1>5, <1>11, <1>14
<1>16. f \in Text
  BY <1>8 DEF Text, C
<1>17. QED
  BY <1>4, <1>5, <1>9, <1>10, <1>11, <1>12, <1>13, <1>14, <1>15, <1>16 DEF Layout

\* The parts of a text in which a colon is found in front of the equals sign.
LEMMA PartsAround ==
  ASSUME NEW f, NEW eq, NEW colon,
         eq = Find(f, 1, Len(f), Equals), colon = Find(f, 1, eq - 1, Colon),
         colon # eq, ~(eq > Len(f)), SubSeq(f, colon + 1, eq - 1) # << >>
  PROVE  ParseRemapping(f) = {Parts(SubSeq(f, 1, colon - 1), SubSeq(f, colon + 1, eq - 1),
                                    SubSeq(f, eq + 1, Len(f)))}
  BY DEF ParseRemapping, Parts

\* Separated parts are found again in what was written for them.
LEMMA FormatIsParsed ==
  ASSUME NEW c, NEW p, NEW t, Separated(c, p, t)
  PROVE  ParseRemapping(Format(Parts(c, p, t))) = {Parts(c, p, t)}
<1>1. PICK f, n, m, l : /\ f = Format(Parts(c, p, t))
                        /\ n = Len(c) /\ m = Len(p) /\ l = Len(t)
  OBVIOUS
<1>2. /\ c \in Text /\ p \in Text /\ t \in Text
      /\ n \in Nat /\ m \in Nat /\ l \in Nat /\ m # 0
  BY <1>1 DEF Separated, Text
<1>3. /\ f \in Text /\ Len(f) = n + m + l + 2
      /\ \A k \in 1..n : f[k] = c[k]
      /\ f[n + 1] = Colon
      /\ \A k \in 1..m : f[n + 1 + k] = p[k]
      /\ f[n + m + 2] = Equals
      /\ \A k \in 1..l : f[n + m + 2 + k] = t[k]
  <2>1. Layout(f, c, p, t, n, m, l)
    BY <1>1, <1>2, FormatLayout
  <2>2. QED
    BY <2>1 DEF Layout
<1>4. PICK eq, colon : eq = n + m + 2 /\ colon = n + 1
  OBVIOUS
<1>5. Find(f, 1, Len(f), Equals) = eq
  <2>1. ASSUME NEW k \in 1..(n + m + 1) PROVE f[k] # Equals
    <3>1. CASE k \in 1..n
      BY <1>1, <1>3, <3>1 DEF Separated
    <3>2. CASE k = n + 1
      BY <1>3, <3>2, TextAssumption
    <3>3. CASE k \in (n + 2)..(n + m + 1)
      <4>1. k - (n + 1) \in 1..m /\ n + 1 + (k - (n + 1)) = k
        BY <1>2, <3>3
      <4>2. f[k] = p[k - (n + 1)]
        BY <1>3, <4>1
      <4>3. QED
        BY <1>1, <4>1, <4>2 DEF Separated
    <3>4. QED
      BY <1>2, <3>1, <3>2, <3>3
  <2>2. PICK q, to : q = n + m + 2 /\ to = Len(f)
    OBVIOUS
  <2>3. q \in 1..to /\ 1 \in Nat /\ to \in Nat /\ f[q] = Equals
    BY <1>2, <1>3, <2>2
  <2>4. \A k \in 1..(q - 1) : f[k] # Equals
    BY <1>2, <2>1, <2>2
  <2>5. QED
    BY <1>4, <2>2, <2>3, <2>4, FirstIsFound
<1>6. Find(f, 1, eq - 1, Colon) = colon
  <2>1. PICK q, to : q = colon /\ to = eq - 1
    OBVIOUS
  <2>2. q \in 1..to /\ 1 \in Nat /\ to \in Nat /\ f[q] = Colon
    BY <1>2, <1>3, <1>4, <2>1
  <2>3. \A k \in 1..(q - 1) : f[k] # Colon
    BY <1>1, <1>2, <1>3, <1>4, <2>1 DEF Separated
  <2>4. QED
    BY <2>1, <2>2, <2>3, FirstIsFound
<1>7. SubSeq(f, 1, colon - 1) = c
  <2>1. HoldsAt(f, 1, colon - 1, c)
    BY <1>1, <1>2, <1>3, <1>4 DEF HoldsAt
  <2>2. QED
    BY <1>2, <1>3, <2>1, SliceIs
<1>8. SubSeq(f, colon + 1, eq - 1) = p
  <2>1. HoldsAt(f, colon + 1, eq - 1, p)
    BY <1>1, <1>2, <1>3, <1>4 DEF HoldsAt
  <2>2. QED
    BY <1>2, <1>3, <2>1, SliceIs
<1>9. SubSeq(f, eq + 1, Len(f)) = t
  <2>1. HoldsAt(f, eq + 1, Len(f), t)
    <3>1. ASSUME NEW k \in 1..Len(t) PROVE f[eq + 1 + k - 1] = t[k]
      <4>1. k \in 1..l /\ eq + 1 + k - 1 = n + m + 2 + k
        BY <1>1, <1>2, <1>4
      <4>2. QED
        BY <1>3, <4>1
    <3>2. eq + 1 \in Nat \ {0} /\ Len(f) = eq + 1 + Len(t) - 1 /\ Len(f) <= Len(f)
      BY <1>1, <1>2, <1>3, <1>4
    <3>3. QED
      BY <3>1, <3>2 DEF HoldsAt
  <2>2. QED
    BY <1>2, <1>3, <2>1, SliceIs
<1>10. colon # eq /\ ~(eq > Len(f)) /\ p # << >>
  BY <1>2, <1>3, <1>4 DEF Separated
<1>11. ParseRemapping(f) = {Parts(SubSeq(f, 1, colon - 1), SubSeq(f, colon + 1, eq - 1),
                                  SubSeq(f, eq + 1, Len(f)))}
  BY <1>5, <1>6, <1>8, <1>10, PartsAround
<1>12. QED
  BY <1>1, <1>7, <1>8, <1>9, <1>11

\* What createMetadata writes for a remapping that was read from any text is read back as
\* that remapping, and as nothing else.
THEOREM MetadataIsReadBack == ASSUME text \in Text PROVE MetadataReproducesRemapping
<1>1. SUFFICES ASSUME NEW r \in ParseRemapping(text)
               PROVE  ParseRemapping(Format(r)) = {r}
  BY DEF MetadataReproducesRemapping
<1>2. PICK c, p, t : r = Parts(c, p, t) /\ Separated(c, p, t)
  BY ParsedIsSeparated
<1>3. QED
  BY <1>2, FormatIsParsed

=============================================================================
