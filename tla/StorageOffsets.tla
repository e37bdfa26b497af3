--------------------------- MODULE StorageOffsets --------------------------
(***************************************************************************)
(* Where the members of a struct or the state variables of a contract are  *)
(* put in storage: StorageOffsets::computeOffsets (libsolidity/ast/        *)
(* Types.cpp).  Storage has Base slots of WordBytes bytes; of the type of  *)
(* a member only the bytes it takes of a slot and the slots it takes       *)
(* matter.  Behind the definitions: a proof that members never overlap.    *)
(***************************************************************************)
EXTENDS Instructions, WellFoundedInduction, TLAPS

\* The loop's state: the next free slot and byte, where the members so far are, and
\* whether an exception was thrown.
NoMembers == [slot |-> 0, byte |-> 0, offsets |-> << >>, tooLarge |-> FALSE]

Place(layout, bytes, size) ==
  LET overflows == layout.byte + bytes > WordBytes
      slot == IF overflows THEN layout.slot + 1 ELSE layout.slot
      byte == IF overflows THEN 0 ELSE layout.byte
      packed == size = 1 /\ byte + bytes <= WordBytes
  IN  IF layout.tooLarge \/ slot >= Base THEN [layout EXCEPT !.tooLarge = TRUE]
      ELSE [layout EXCEPT !.slot = IF packed THEN slot ELSE slot + size,
                          !.byte = IF packed THEN byte + bytes ELSE 0,
                          !.offsets = Append(@, <<slot, byte>>)]

\* After each member: what the loop has come to.
PlacedUpTo(members) ==
  LET upTo[k \in 0..Len(members)] == IF k = 0 THEN NoMembers
                                     ELSE Place(upTo[k - 1], members[k].bytes, members[k].size)
  IN  upTo

\* After the last member: the slots that are taken.
Finish(layout) ==
  LET slots == IF layout.byte > 0 THEN layout.slot + 1 ELSE layout.slot
  IN  [offsets |-> layout.offsets, size |-> slots, tooLarge |-> layout.tooLarge \/ slots >= Base]

computeOffsets(members) == Finish(PlacedUpTo(members)[Len(members)])

-----------------------------------------------------------------------------
(* Members never overlap. *)

\* Members as Type::storageBytes and storageSize describe them: one that has more than one
\* slot takes all bytes of it.
Storables == {m \in [bytes : 1..WordBytes, size : Nat \ {0}] : m.size > 1 => m.bytes = WordBytes}

\* Places in storage are a slot and a byte of it; the place behind a member at p.
NotBehind(p, q) == \/ p[1] < q[1]
                   \/ p[1] = q[1] /\ p[2] <= q[2]
End(m, p) == IF m.size = 1 THEN <<p[1], p[2] + m.bytes>> ELSE <<p[1] + m.size, 0>>

\* The member m lies at p, within one slot or from the start of one on.
LiesAt(m, p) == /\ p \in Nat \X Nat /\ p[1] < Base
                /\ IF m.size = 1 THEN p[2] + m.bytes <= WordBytes ELSE p[2] = 0

Layouts == [slot : Nat, byte : 0..WordBytes, offsets : Seq(Nat \X Nat), tooLarge : BOOLEAN]

\* Of the first n members each lies behind those before it, and so does what is free.
InTurn(members, layout, n) ==
  /\ Len(layout.offsets) = n
  /\ \A k \in 1..n : /\ LiesAt(members[k], layout.offsets[k])
                      /\ NotBehind(End(members[k], layout.offsets[k]), <<layout.slot, layout.byte>>)
  /\ \A j, k \in 1..n : j < k => NotBehind(End(members[j], layout.offsets[j]), layout.offsets[k])

\* Words have bytes.
LEMMA WordBytesIsNat == WordBytes \in Nat
  BY WordsAssumption DEF WordBytes

\* What contains zero and every successor contains every number.
LEMMA NumbersByInduction ==
  ASSUME NEW T, 0 \in T, \A m \in Nat : m \in T => m + 1 \in T
  PROVE  Nat \subseteq T
  <1> DEFINE C == Nat \ T
  <1>1. SUFFICES ASSUME C # {} PROVE FALSE
    OBVIOUS
  <1>2. C \subseteq Nat
    OBVIOUS
  <1>3. PICK x \in C : \A y \in C : <<y, x>> \notin OpToRel(<, Nat)
    <2> HIDE DEF C
    <2> QED
      BY <1>1, <1>2, NatLessThanWellFounded, WFMin
  <1>4. x \in Nat /\ x # 0 /\ x \notin T
    BY <1>2, <1>3
  <1>5. x - 1 \in Nat /\ x - 1 < x /\ (x - 1) + 1 = x
    BY <1>4
  <1>6. x - 1 \in C
    BY <1>4, <1>5
  <1>7. <<x - 1, x>> \in OpToRel(<, Nat)
    BY <1>4, <1>5 DEF OpToRel
  <1> QED
    BY <1>3, <1>6, <1>7

\* The recursion is the loop: it starts with nothing and places one member after another.
LEMMA LoopUnfolds ==
  ASSUME NEW members, Len(members) \in Nat
  PROVE  LET at == PlacedUpTo(members) IN
         /\ at[0] = NoMembers
         /\ \A k \in 1..Len(members) : at[k] = Place(at[k - 1], members[k].bytes, members[k].size)
  <1> DEFINE n == Len(members)
             step(l, k) == Place(l, members[k].bytes, members[k].size)
             Steps(f, m) == /\ f = [j \in 0..m |-> f[j]] /\ f[0] = NoMembers
                            /\ \A j \in 1..m : f[j] = step(f[j - 1], j)
             T == {m \in Nat : \E f : Steps(f, m)}
  <1> HIDE DEF n, step
  <1>1. 0 \in T
    <2>1. Steps([j \in 0..0 |-> NoMembers], 0)
      OBVIOUS
    <2> QED
      BY <2>1
  <1>2. ASSUME NEW m \in Nat, m \in T PROVE m + 1 \in T
    <2>1. PICK f : Steps(f, m)
      BY <1>2
    <2> DEFINE g == [j \in 0..(m + 1) |-> IF j = m + 1 THEN step(f[m], m + 1) ELSE f[j]]
    <2>2. g = [j \in 0..(m + 1) |-> g[j]]
      OBVIOUS
    <2>3. g[0] = NoMembers
      BY <2>1
    <2>4. ASSUME NEW j \in 1..(m + 1) PROVE g[j] = step(g[j - 1], j)
      <3>1. j - 1 \in 0..m /\ j - 1 # m + 1 /\ j \in 0..(m + 1) /\ j - 1 \in 0..(m + 1)
        OBVIOUS
      <3>2. g[j - 1] = f[j - 1]
        BY <3>1
      <3>3. CASE j = m + 1
        <4>1. j - 1 = m /\ g[j] = step(f[m], m + 1)
          BY <3>1, <3>3
        <4> QED
          BY <3>2, <3>3, <4>1
      <3>4. CASE j # m + 1
        <4>1. j \in 1..m /\ g[j] = f[j]
          BY <3>1, <3>4
        <4> QED
          BY <2>1, <3>2, <4>1
      <3> QED
        BY <3>3, <3>4
    <2>5. Steps(g, m + 1)
      <3> HIDE DEF g
      <3> QED
        BY <2>2, <2>3, <2>4
    <2> HIDE DEF Steps
    <2> QED
      BY <2>5
  <1>3. n \in T
    <2> HIDE DEF T
    <2> QED
      BY <1>1, <1>2, NumbersByInduction DEF n
  <1>4. PICK f : Steps(f, n)
    BY <1>3
  <1>5. f = [j \in 0..n |-> IF j = 0 THEN NoMembers ELSE step(f[j - 1], j)]
    <2>1. \A j \in 0..n : f[j] = IF j = 0 THEN NoMembers ELSE step(f[j - 1], j)
      <3>1. \A j \in 0..n : j # 0 => j \in 1..n
        BY DEF n
      <3> QED
        BY <1>4, <3>1
    <2> QED
      BY <1>4, <2>1
  <1> DEFINE at == PlacedUpTo(members)
  <1>6. at = [j \in 0..n |-> IF j = 0 THEN NoMembers ELSE step(at[j - 1], j)]
    <2>1. at = CHOOSE g : g = [j \in 0..n |-> IF j = 0 THEN NoMembers ELSE step(g[j - 1], j)]
      BY DEF PlacedUpTo, n, step
    <2> HIDE DEF at
    <2> QED
      BY <1>5, <2>1
  <1> HIDE DEF at
  <1>7. 0 \in 0..n /\ \A j \in 1..n : j \in 0..n /\ j # 0
    BY DEF n
  <1>8. at[0] = NoMembers /\ \A j \in 1..n : at[j] = step(at[j - 1], j)
    BY <1>6, <1>7
  <1> QED
    BY <1>8 DEF at, n, step

LEMMA NotBehindTransitive ==
  ASSUME NEW p, NEW q, NEW r, p[1] \in Nat, p[2] \in Nat, q[1] \in Nat, q[2] \in Nat,
         r[1] \in Nat, r[2] \in Nat, NotBehind(p, q), NotBehind(q, r)
  PROVE  NotBehind(p, r)
  BY SMTT(30) DEF NotBehind

\* The end of a member is a place.
LEMMA EndIsPlace ==
  ASSUME NEW m, m.bytes \in Nat, m.size \in Nat, NEW p, p[1] \in Nat, p[2] \in Nat
  PROVE  End(m, p)[1] \in Nat /\ End(m, p)[2] \in Nat
  <1>1. CASE m.size = 1
    BY <1>1 DEF End
  <1>2. CASE m.size # 1
    BY <1>2 DEF End
  <1> QED
    BY <1>1, <1>2

\* Placing a member leaves those before it where they are and comes behind them.
LEMMA PlaceInTurn ==
  ASSUME Base \in Nat, NEW members \in Seq(Storables), NEW n \in Nat, n + 1 \in 1..Len(members),
         NEW layout \in Layouts, ~layout.tooLarge => InTurn(members, layout, n)
  PROVE  LET next == Place(layout, members[n + 1].bytes, members[n + 1].size) IN
         next \in Layouts /\ (~next.tooLarge => InTurn(members, next, n + 1))
  <1> DEFINE m == members[n + 1]
             b == m.bytes
             z == m.size
             next == Place(layout, b, z)
             overflows == layout.byte + b > WordBytes
             slot == IF overflows THEN layout.slot + 1 ELSE layout.slot
             byte == IF overflows THEN 0 ELSE layout.byte
             packed == z = 1 /\ byte + b <= WordBytes
  <1>1. /\ b \in 1..WordBytes /\ z \in Nat \ {0} /\ (z > 1 => b = WordBytes)
    BY DEF Storables
  <1>2. /\ layout.slot \in Nat /\ layout.byte \in 0..WordBytes /\ layout.offsets \in Seq(Nat \X Nat)
        /\ layout.tooLarge \in BOOLEAN
    BY DEF Layouts
  <1> HIDE DEF m, b, z
  <1>3. /\ slot \in Nat /\ byte \in 0..WordBytes /\ byte + b <= WordBytes
        /\ (packed <=> z = 1) /\ (z # 1 => byte = 0) /\ NotBehind(<<layout.slot, layout.byte>>, <<slot, byte>>)
    <2>1. /\ slot \in Nat /\ byte \in 0..WordBytes /\ byte + b <= WordBytes
          /\ (slot = layout.slot /\ byte = layout.byte) \/ slot = layout.slot + 1
      BY <1>1, <1>2, WordBytesIsNat
    <2>2. z # 1 => byte = 0
      BY <1>1, <1>2, WordBytesIsNat
    <2>3. packed <=> z = 1
      BY <2>1
    <2> HIDE DEF slot, byte
    <2>4. NotBehind(<<layout.slot, layout.byte>>, <<slot, byte>>)
      BY <1>2, <2>1 DEF NotBehind
    <2> QED
      BY <2>1, <2>2, <2>3, <2>4
  <1>4. next = IF layout.tooLarge \/ slot >= Base THEN [layout EXCEPT !.tooLarge = TRUE]
               ELSE [layout EXCEPT !.slot = IF packed THEN slot ELSE slot + z,
                                   !.byte = IF packed THEN byte + b ELSE 0,
                                   !.offsets = Append(@, <<slot, byte>>)]
    BY DEF Place
  <1> HIDE DEF next, slot, byte, packed, overflows
  <1>5. CASE layout.tooLarge \/ slot >= Base
    <2>1. next = [layout EXCEPT !.tooLarge = TRUE]
      BY <1>4, <1>5
    <2>2. next \in Layouts /\ next.tooLarge
      BY <2>1 DEF Layouts
    <2> QED
      BY <2>2 DEF next, m, b, z
  <1>6. CASE ~(layout.tooLarge \/ slot >= Base)
    <2> DEFINE at == layout.offsets
               p == <<slot, byte>>
               free == <<layout.slot, layout.byte>>
               end == IF z = 1 THEN <<slot, byte + b>> ELSE <<slot + z, 0>>
    <2>1. next = [layout EXCEPT !.slot = end[1], !.byte = end[2], !.offsets = Append(@, p)]
      BY <1>3, <1>4, <1>6
    <2>2. end[1] \in Nat /\ end[2] \in 0..WordBytes /\ NotBehind(p, end)
      BY <1>1, <1>3 DEF NotBehind
    <2>3. p \in Nat \X Nat /\ slot < Base
      BY <1>3, <1>6, WordBytesIsNat
    <2>4. InTurn(members, layout, n)
      BY <1>6
    <2>5. end = End(m, p) /\ LiesAt(m, p)
      BY <1>1, <1>3, <2>3 DEF End, LiesAt, b, z
    <2>6. end = <<end[1], end[2]>>
      OBVIOUS
    <2> HIDE DEF end, p
    <2>7. /\ next \in Layouts /\ next.slot = end[1] /\ next.byte = end[2] /\ next.offsets = Append(at, p)
      <3>1. layout = [slot |-> layout.slot, byte |-> layout.byte, offsets |-> at, tooLarge |-> layout.tooLarge]
        BY DEF Layouts
      <3>2. Append(at, p) \in Seq(Nat \X Nat)
        BY <1>2, <2>3
      <3>3. next = [slot |-> end[1], byte |-> end[2], offsets |-> Append(at, p), tooLarge |-> layout.tooLarge]
        BY <2>1, <3>1
      <3> QED
        BY <1>2, <2>2, <3>2, <3>3 DEF Layouts
    <2>8. /\ Len(next.offsets) = n + 1 /\ next.offsets[n + 1] = p
          /\ \A k \in 1..n : next.offsets[k] = at[k]
      BY <1>2, <2>3, <2>4, <2>7 DEF InTurn
    <2>9. ASSUME NEW k \in 1..n
          PROVE  /\ LiesAt(members[k], at[k])
                 /\ NotBehind(End(members[k], at[k]), p) /\ NotBehind(End(members[k], at[k]), end)
      <3>1. LiesAt(members[k], at[k]) /\ NotBehind(End(members[k], at[k]), free)
        BY <2>4 DEF InTurn
      <3>2. members[k].bytes \in Nat /\ members[k].size \in Nat
        BY WordBytesIsNat DEF Storables
      <3> DEFINE e == End(members[k], at[k])
      <3>3. e[1] \in Nat /\ e[2] \in Nat
        <4>1. at[k][1] \in Nat /\ at[k][2] \in Nat
          BY <3>1 DEF LiesAt
        <4> HIDE DEF at
        <4> QED
          BY <3>2, <4>1, EndIsPlace
      <3> HIDE DEF e
      <3>4. NotBehind(free, p)
        BY <1>3 DEF p
      <3>5. /\ free[1] \in Nat /\ free[2] \in Nat /\ p[1] \in Nat /\ p[2] \in Nat
            /\ end[1] \in Nat /\ end[2] \in Nat
        BY <1>2, <1>3, <2>2, WordBytesIsNat DEF p
      <3> HIDE DEF free
      <3>6. NotBehind(e, p)
        <4>1. NotBehind(e, free)
          BY <3>1 DEF e, free
        <4> QED
          BY <3>3, <3>4, <3>5, <4>1, NotBehindTransitive
      <3>7. NotBehind(e, end)
        BY <2>2, <3>3, <3>5, <3>6, NotBehindTransitive
      <3> QED
        BY <3>1, <3>6, <3>7 DEF e
    <2>10. NotBehind(end, end)
      BY <2>2 DEF NotBehind
    <2>11. \A k \in 1..(n + 1) : k = n + 1 \/ k \in 1..n
      OBVIOUS
    <2>12. ASSUME NEW k \in 1..(n + 1)
           PROVE  /\ LiesAt(members[k], next.offsets[k])
                  /\ NotBehind(End(members[k], next.offsets[k]), <<next.slot, next.byte>>)
      <3>1. CASE k = n + 1
        BY <2>5, <2>6, <2>7, <2>8, <2>10, <3>1 DEF m
      <3>2. CASE k \in 1..n
        BY <2>6, <2>7, <2>8, <2>9, <3>2
      <3> QED
        BY <2>11, <3>1, <3>2
    <2>13. ASSUME NEW j \in 1..(n + 1), NEW k \in 1..(n + 1), j < k
           PROVE  NotBehind(End(members[j], next.offsets[j]), next.offsets[k])
      <3>1. j \in 1..n
        BY <2>13
      <3>2. CASE k = n + 1
        BY <2>8, <2>9, <3>1, <3>2
      <3>3. CASE k \in 1..n
        BY <2>4, <2>8, <2>13, <3>1, <3>3 DEF InTurn
      <3> QED
        BY <2>11, <3>2, <3>3
    <2>14. InTurn(members, next, n + 1)
      BY <2>8, <2>12, <2>13 DEF InTurn
    <2> QED
      BY <2>7, <2>14 DEF next, m, b, z
  <1> QED
    BY <1>5, <1>6

\* StorageOffsets::computeOffsets, for all members and sizes of words: unless the object is
\* too large for storage every member has a place, those of one slot lie within a slot, the
\* others start with one, all of a member is in the slots that are counted, and a member
\* begins only where all members before it have ended, so that no two of them overlap.
\* (That a power of two is a number is among the assumptions, as the provers know nothing
\* of powers.)
THEOREM MembersNeverOverlap ==
  ASSUME Base \in Nat, NEW members \in Seq(Storables), ~computeOffsets(members).tooLarge
  PROVE  LET layout == computeOffsets(members)
             at == layout.offsets
             n == Len(members)
         IN  /\ Len(at) = n /\ layout.size \in Nat /\ layout.size < Base
             /\ \A k \in 1..n : LiesAt(members[k], at[k]) /\ at[k][1] + members[k].size <= layout.size
             /\ \A j, k \in 1..n : j < k => NotBehind(End(members[j], at[j]), at[k])
  <1> DEFINE n == Len(members)
             upTo == PlacedUpTo(members)
             Reached(k) == /\ upTo[k] \in Layouts
                           /\ ~upTo[k].tooLarge => InTurn(members, upTo[k], k)
             T == {k \in Nat : k <= n => Reached(k)}
  <1>1. n \in Nat
    OBVIOUS
  <1>2. /\ upTo[0] = NoMembers
        /\ \A k \in 1..n : upTo[k] = Place(upTo[k - 1], members[k].bytes, members[k].size)
    BY <1>1, LoopUnfolds
  <1> HIDE DEF upTo
  <1>3. 0 \in T
    <2>1. NoMembers \in Layouts
      BY WordBytesIsNat DEF NoMembers, Layouts
    <2>2. InTurn(members, NoMembers, 0)
      BY DEF NoMembers, InTurn
    <2> QED
      BY <1>2, <2>1, <2>2
  <1>4. ASSUME NEW k \in Nat, k \in T, k + 1 <= n
        PROVE  Reached(k + 1)
    <2>1. k <= n /\ k + 1 \in 1..n /\ (k + 1) - 1 = k
      BY <1>1, <1>4
    <2>2. Reached(k)
      <3> HIDE DEF Reached
      <3> QED
        BY <1>4, <2>1
    <2>3. upTo[k + 1] = Place(upTo[k], members[k + 1].bytes, members[k + 1].size)
      BY <1>2, <2>1
    <2> QED
      BY <2>1, <2>2, <2>3, PlaceInTurn
  <1>5. n \in T /\ n <= n
    <2>1. \A k \in Nat : k \in T => k + 1 \in T
      BY <1>4
    <2> HIDE DEF T
    <2> QED
      BY <1>1, <1>3, <2>1, NumbersByInduction
  <1> DEFINE last == upTo[n]
             layout == computeOffsets(members)
             at == layout.offsets
  <1>6. last \in Layouts /\ (~last.tooLarge => InTurn(members, last, n))
    <2>1. Reached(n)
      <3> HIDE DEF Reached, n
      <3> QED
        BY <1>5
    <2> QED
      BY <2>1
  <1> HIDE DEF last, n
  <1>7. /\ last.slot \in Nat /\ last.byte \in 0..WordBytes /\ last.offsets \in Seq(Nat \X Nat)
        /\ last.tooLarge \in BOOLEAN
    BY <1>6 DEF Layouts
  <1>8. /\ at = last.offsets
        /\ layout.size = IF last.byte > 0 THEN last.slot + 1 ELSE last.slot
        /\ ~(last.tooLarge \/ layout.size >= Base)
    BY DEF computeOffsets, Finish, last, upTo, n
  <1> HIDE DEF layout
  <1>9. ~last.tooLarge /\ ~(layout.size >= Base) /\ layout.size \in Nat /\ layout.size < Base
    <2>1. layout.size \in Nat
      BY <1>7, <1>8
    <2> QED
      BY <1>8, <2>1
  <1>10. ASSUME NEW k \in 1..n
         PROVE  LiesAt(members[k], at[k]) /\ at[k][1] + members[k].size <= layout.size
    <2> DEFINE p == at[k]
               e == End(members[k], p)
    <2>1. LiesAt(members[k], p) /\ NotBehind(e, <<last.slot, last.byte>>)
      BY <1>6, <1>8, <1>9 DEF InTurn
    <2>2. members[k].bytes \in 1..WordBytes /\ members[k].size \in Nat \ {0}
      BY DEF Storables, n
    <2>3. p[1] \in Nat /\ p[2] \in Nat
      BY <2>1 DEF LiesAt
    <2> HIDE DEF p
    <2>4. CASE members[k].size = 1
      <3>1. e = <<p[1], p[2] + members[k].bytes>>
        BY <2>4 DEF End
      <3> HIDE DEF e
      <3>2. p[1] < last.slot \/ (p[1] = last.slot /\ last.byte > 0)
        BY <1>7, <2>1, <2>2, <2>3, <3>1, WordBytesIsNat DEF NotBehind
      <3>3. p[1] + members[k].size <= layout.size
        BY <1>7, <1>8, <2>3, <2>4, <3>2, WordBytesIsNat
      <3> QED
        BY <2>1, <3>3 DEF p
    <2>5. CASE members[k].size # 1
      <3>1. e = <<p[1] + members[k].size, 0>>
        BY <2>5 DEF End
      <3> HIDE DEF e
      <3>2. p[1] + members[k].size <= last.slot
        BY <1>7, <2>1, <2>2, <2>3, <3>1 DEF NotBehind
      <3>3. p[1] + members[k].size <= layout.size
        <4>1. last.slot <= layout.size /\ layout.size \in Nat
          BY <1>7, <1>8, <1>9
        <4> QED
          BY <1>7, <2>2, <2>3, <3>2, <4>1
      <3> QED
        BY <2>1, <3>3 DEF p
    <2> QED
      BY <2>4, <2>5
  <1>11. \A j, k \in 1..n : j < k => NotBehind(End(members[j], at[j]), at[k])
    BY <1>6, <1>8, <1>9 DEF InTurn
  <1>12. Len(at) = n
    BY <1>6, <1>8, <1>9 DEF InTurn
  <1> QED
    BY <1>9, <1>10, <1>11, <1>12 DEF layout, n

=============================================================================
