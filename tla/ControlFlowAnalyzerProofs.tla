---------------------- MODULE ControlFlowAnalyzerProofs ----------------------
(***************************************************************************)
(* What checkUnassignedStorageReturnValues computes, for every graph: the  *)
(* least solution of the data flow equations.  The code keeps one set per  *)
(* node, which is what entered the node before it is traversed and what    *)
(* leaves it afterwards; the invariant says which of the two it is.        *)
(***************************************************************************)
EXTENDS ControlFlowAnalyzer, TLAPS

ToTraverse(n) == \E i \in 1..Len(nodesToTraverse) : nodesToTraverse[i] = n

TypeInv ==
  /\ flow \in Flows
  /\ unassigned \in [CFGNodes -> SUBSET Variables]
  /\ nodesToTraverse \in Seq(CFGNodes)
  /\ node \in CFGNodes \cup {0}
  /\ position \in Nat /\ (node # 0 => position >= 1)
  /\ done \in BOOLEAN

\* A node that is not to be traversed, or is the one traversed, has killed what it assigns.
Killed ==
  \A n \in CFGNodes : ToTraverse(n) \/ (\A x \in unassigned[n] : x \notin Kills(n))

NodeKilled == node # 0 => \A x \in unassigned[node] : x \notin Kills(node)

\* And, but for the exits the traversed node has not looked at, has passed on the rest.
PassedOn(n, i) ==
  \A x \in unassigned[n] : x \in unassigned[flow.exits[n][i]] \/ x \in Kills(flow.exits[n][i])

Propagated ==
  \A n \in CFGNodes : \A i \in 1..Len(flow.exits[n]) :
    ToTraverse(n) \/ (n = node /\ i >= position) \/ PassedOn(n, i)

EntryKept ==
  \A x \in flow.parameters : x \in unassigned[flow.entry] \/ x \in Kills(flow.entry)

\* What is unassigned at a node came from the entry or leaves a node before it.
Comes(n, x) ==
  \/ n = flow.entry /\ x \in flow.parameters
  \/ \E p \in CFGNodes : \E i \in 1..Len(flow.exits[p]) :
       flow.exits[p][i] = n /\ x \in unassigned[p] /\ x \notin Kills(p)

Supported == \A n \in CFGNodes : \A x \in unassigned[n] : Comes(n, x)

Ended == done => node = 0 /\ nodesToTraverse = << >> /\ reported = unassigned[flow.exit]

Inv ==
  /\ TypeInv
  /\ Killed
  /\ NodeKilled
  /\ Propagated
  /\ EntryKept
  /\ Supported
  /\ Ended

-----------------------------------------------------------------------------
LEMMA FlowFacts ==
  ASSUME flow \in Flows
  PROVE  /\ flow.nodes \in Nat
         /\ 0 \notin CFGNodes
         /\ flow.entry \in CFGNodes
         /\ flow.exit \in CFGNodes
         /\ flow.parameters \subseteq Variables
         /\ \A n \in CFGNodes : flow.exits[n] \in Seq(CFGNodes)
         /\ \A n \in CFGNodes : \A i \in 1..Len(flow.exits[n]) : flow.exits[n][i] \in CFGNodes
<1>1. flow.nodes \in Nat /\ flow.entry \in CFGNodes /\ flow.exit \in CFGNodes
  BY FlowsAssumption DEF CFGNodes
<1>2. 0 \notin CFGNodes
  BY <1>1 DEF CFGNodes
<1>3. flow.parameters \subseteq Variables
  BY FlowsAssumption
<1>4. \A n \in CFGNodes : flow.exits[n] \in Seq(CFGNodes)
  BY FlowsAssumption DEF CFGNodes
<1>5. ASSUME NEW n \in CFGNodes, NEW i \in 1..Len(flow.exits[n])
      PROVE  flow.exits[n][i] \in CFGNodes
  <2> DEFINE e == flow.exits[n]
  <2>1. e \in Seq(CFGNodes) /\ i \in 1..Len(e)
    BY <1>4
  <2> HIDE DEF e
  <2>2. e[i] \in CFGNodes
    BY <2>1
  <2> QED
    BY <2>2 DEF e
<1> QED
  BY <1>1, <1>2, <1>3, <1>4, <1>5

LEMMA InitInv == SearchInit => Inv
<1> SUFFICES ASSUME SearchInit PROVE Inv
  OBVIOUS
<1>1. flow \in Flows
  BY DEF SearchInit
<1>2. TypeInv
  <2>1. flow.entry \in CFGNodes /\ flow.parameters \subseteq Variables
    BY <1>1, FlowFacts
  <2>2. nodesToTraverse \in Seq(CFGNodes)
    BY <2>1 DEF SearchInit
  <2>3. unassigned \in [CFGNodes -> SUBSET Variables]
    BY <2>1 DEF SearchInit
  <2> QED
    BY <1>1, <2>2, <2>3 DEF SearchInit, TypeInv
<1>3. \A n \in CFGNodes : n # flow.entry => unassigned[n] = {}
  BY DEF SearchInit
<1>4. unassigned[flow.entry] = flow.parameters
  BY <1>1, FlowFacts DEF SearchInit
<1>5. ToTraverse(flow.entry)
  BY DEF SearchInit, ToTraverse
<1>6. Killed /\ NodeKilled
  BY <1>3, <1>5 DEF Killed, NodeKilled, SearchInit
<1>7. Propagated
  BY <1>3, <1>5 DEF Propagated, PassedOn
<1>8. EntryKept /\ Supported /\ Ended
  BY <1>3, <1>4 DEF EntryKept, Supported, Comes, Ended, SearchInit
<1> QED
  BY <1>2, <1>6, <1>7, <1>8 DEF Inv

LEMMA TraverseInv == Inv /\ Traverse => Inv'
<1> SUFFICES ASSUME Inv, Traverse PROVE Inv'
  OBVIOUS
<1> DEFINE s == nodesToTraverse
           n == nodesToTraverse[Len(nodesToTraverse)]
<1>1. TypeInv /\ flow \in Flows /\ flow' = flow
  BY DEF Inv, TypeInv, Traverse
<1>2. s \in Seq(CFGNodes) /\ s # << >> /\ Len(s) \in Nat /\ Len(s) >= 1 /\ n \in CFGNodes
  BY <1>1 DEF TypeInv, Traverse
<1>3. CFGNodes' = CFGNodes /\ \A m : Kills(m)' = Kills(m)
  BY <1>1 DEF CFGNodes, Kills
<1>4. node' = n /\ node = 0 /\ position' = 1 /\ done' = done /\ reported' = reported
  BY DEF Traverse
<1>5. unassigned' = [unassigned EXCEPT ![n] = unassigned[n] \ Kills(n)]
  BY DEF Traverse
<1>6. unassigned'[n] = unassigned[n] \ Kills(n)
      /\ \A m \in CFGNodes : m # n => unassigned'[m] = unassigned[m]
  BY <1>1, <1>2, <1>5 DEF TypeInv
<1>7. \A m \in CFGNodes : m # n /\ ToTraverse(m) => ToTraverse(m)'
  <2> SUFFICES ASSUME NEW m \in CFGNodes, m # n, NEW i \in 1..Len(s), s[i] = m
               PROVE  ToTraverse(m)'
    BY DEF ToTraverse
  <2>1. i \in 1..(Len(s) - 1)
    BY <1>2
  <2>2. s' = SubSeq(s, 1, Len(s) - 1)
    BY DEF Traverse
  <2>3. Len(s') = Len(s) - 1 /\ s'[i] = s[i]
    BY <1>2, <2>1, <2>2
  <2> QED
    BY <2>1, <2>3 DEF ToTraverse
<1>8. TypeInv'
  <2>1. s' \in Seq(CFGNodes)
    BY <1>2 DEF Traverse
  <2>2. unassigned' \in [CFGNodes -> SUBSET Variables]
    BY <1>1, <1>2, <1>5 DEF TypeInv
  <2> QED
    BY <1>1, <1>2, <1>3, <1>4, <2>1, <2>2 DEF TypeInv
<1>9. Killed' /\ NodeKilled'
  BY <1>2, <1>3, <1>4, <1>6, <1>7 DEF Killed, NodeKilled, Inv
<1>10. Propagated'
  <2> SUFFICES ASSUME NEW m \in CFGNodes, NEW i \in 1..Len(flow.exits[m]), ~ToTraverse(m)',
                      ~(m = node' /\ i >= position')
               PROVE  PassedOn(m, i)'
    BY <1>1, <1>3 DEF Propagated
  <2>1. m # n
    BY <1>4
  <2>2. ~ToTraverse(m)
    BY <1>7, <2>1
  <2>3. m # node
    BY <1>1, <1>4, FlowFacts
  <2>4. PassedOn(m, i)
    BY <2>2, <2>3 DEF Inv, Propagated
  <2>5. flow.exits[m][i] \in CFGNodes
    BY <1>1, FlowFacts
  <2> QED
    BY <1>1, <1>3, <1>6, <2>1, <2>4, <2>5 DEF PassedOn
<1>11. EntryKept'
  <2>1. flow.entry \in CFGNodes
    BY <1>1, FlowFacts
  <2> QED
    BY <1>1, <1>3, <1>6, <2>1 DEF EntryKept, Inv
<1>12. Supported'
  <2> SUFFICES ASSUME NEW m \in CFGNodes, NEW x \in unassigned'[m] PROVE Comes(m, x)'
    BY <1>3 DEF Supported
  <2>1. x \in unassigned[m]
    BY <1>6
  <2>2. Comes(m, x)
    BY <2>1 DEF Inv, Supported
  <2> QED
    BY <1>1, <1>3, <1>6, <2>2 DEF Comes
<1>13. Ended'
  BY <1>4 DEF Ended, Inv, Traverse
<1> QED
  BY <1>8, <1>9, <1>10, <1>11, <1>12, <1>13 DEF Inv

LEMMA VisitExitInv == Inv /\ VisitExit => Inv'
<1> SUFFICES ASSUME Inv, VisitExit PROVE Inv'
  OBVIOUS
<1> DEFINE s == nodesToTraverse
           y == flow.exits[node][position]
<1>1. TypeInv /\ flow \in Flows /\ flow' = flow
  BY DEF Inv, TypeInv, VisitExit
<1>2. node \in CFGNodes /\ position \in Nat /\ position \in 1..Len(flow.exits[node])
  <2>1. flow.exits[node] \in Seq(CFGNodes) /\ node \in CFGNodes
    BY <1>1, FlowFacts DEF TypeInv, VisitExit
  <2>2. Len(flow.exits[node]) \in Nat
    BY <2>1
  <2> QED
    BY <1>1, <2>1, <2>2 DEF TypeInv, VisitExit
<1>3. CFGNodes' = CFGNodes /\ \A m : Kills(m)' = Kills(m)
  BY <1>1 DEF CFGNodes, Kills
<1>4. y \in CFGNodes
  BY <1>1, <1>2, FlowFacts
<1>5. node' = node /\ position' = position + 1 /\ done' = done /\ reported' = reported
  BY DEF VisitExit
<1>6. unassigned' = [unassigned EXCEPT ![y] = unassigned[y] \cup unassigned[node]]
  BY DEF VisitExit
<1>7. s' = (IF Grows(y) THEN Append(s, y) ELSE s) /\ s \in Seq(CFGNodes)
  BY <1>1 DEF VisitExit, TypeInv
<1>8. unassigned'[y] = unassigned[y] \cup unassigned[node]
      /\ \A m \in CFGNodes : m # y => unassigned'[m] = unassigned[m]
  BY <1>1, <1>4, <1>6 DEF TypeInv
<1>9. \A m \in CFGNodes : ToTraverse(m) => ToTraverse(m)'
  <2> SUFFICES ASSUME NEW m \in CFGNodes, NEW i \in 1..Len(s), s[i] = m
               PROVE  ToTraverse(m)'
    BY DEF ToTraverse
  <2>1. Len(s) \in Nat /\ i \in 1..Len(s') /\ s'[i] = s[i]
    BY <1>4, <1>7
  <2> QED
    BY <2>1 DEF ToTraverse
<1>10. \A m \in CFGNodes : m = y /\ Grows(m) => ToTraverse(m)'
  <2> SUFFICES ASSUME NEW m \in CFGNodes, m = y, Grows(m) PROVE ToTraverse(m)'
    OBVIOUS
  <2>1. Len(s) \in Nat /\ Len(s') = Len(s) + 1 /\ s'[Len(s) + 1] = m
    BY <1>4, <1>7
  <2>2. Len(s') \in 1..Len(s') /\ s'[Len(s')] = m
    BY <2>1
  <2> QED
    BY <2>2 DEF ToTraverse
<1>11. \A m \in CFGNodes : ~ToTraverse(m)' => unassigned'[m] = unassigned[m]
  BY <1>8, <1>10 DEF Grows
<1>12. unassigned'[node] = unassigned[node]
  BY <1>2, <1>8
<1>13. TypeInv'
  <2>1. s' \in Seq(CFGNodes)
    BY <1>4, <1>7
  <2>2. unassigned' \in [CFGNodes -> SUBSET Variables]
    <3>1. unassigned[y] \cup unassigned[node] \in SUBSET Variables
      BY <1>1, <1>2, <1>4 DEF TypeInv
    <3> QED
      BY <1>1, <1>6, <3>1 DEF TypeInv
  <2> QED
    BY <1>1, <1>2, <1>3, <1>5, <2>1, <2>2 DEF TypeInv
<1>14. Killed' /\ NodeKilled'
  BY <1>2, <1>3, <1>5, <1>9, <1>11, <1>12 DEF Killed, NodeKilled, Inv
<1>15. \A m \in CFGNodes : unassigned[m] \subseteq unassigned'[m]
  BY <1>8
<1>16. Propagated'
  <2> SUFFICES ASSUME NEW m \in CFGNodes, NEW i \in 1..Len(flow.exits[m]), ~ToTraverse(m)',
                      ~(m = node /\ i >= position + 1)
               PROVE  PassedOn(m, i)'
    BY <1>1, <1>3, <1>5 DEF Propagated
  <2>1. flow.exits[m][i] \in CFGNodes /\ unassigned'[m] = unassigned[m] /\ ~ToTraverse(m)
    BY <1>1, <1>9, <1>11, FlowFacts
  <2>2. CASE m = node /\ i = position
    BY <1>1, <1>8, <1>12, <2>2 DEF PassedOn
  <2>3. CASE ~(m = node /\ i = position)
    <3>1. i \in Nat /\ position \in Nat
      BY <1>2
    <3>2. ~(m = node /\ i >= position)
      BY <2>3, <3>1
    <3>3. PassedOn(m, i)
      BY <2>1, <3>2 DEF Inv, Propagated
    <3> QED
      BY <1>1, <1>3, <1>15, <2>1, <3>3 DEF PassedOn
  <2> QED
    BY <2>2, <2>3
<1>17. EntryKept'
  <2>1. flow.entry \in CFGNodes
    BY <1>1, FlowFacts
  <2> QED
    BY <1>1, <1>3, <1>15, <2>1 DEF EntryKept, Inv
<1>18. Supported'
  <2> SUFFICES ASSUME NEW m \in CFGNodes, NEW x \in unassigned'[m] PROVE Comes(m, x)'
    BY <1>3 DEF Supported
  <2>1. CASE x \in unassigned[m]
    <3>1. Comes(m, x)
      BY <2>1 DEF Inv, Supported
    <3> QED
      BY <1>1, <1>3, <1>15, <3>1 DEF Comes
  <2>2. CASE x \notin unassigned[m]
    <3>1. m = y /\ x \in unassigned[node]
      BY <1>8, <2>2
    <3>2. x \notin Kills(node)
      BY <3>1 DEF Inv, NodeKilled, VisitExit
    <3> QED
      BY <1>1, <1>2, <1>3, <1>12, <3>1, <3>2 DEF Comes
  <2> QED
    BY <2>1, <2>2
<1>19. Ended'
  BY <1>5 DEF Ended, Inv, VisitExit
<1> QED
  BY <1>13, <1>14, <1>16, <1>17, <1>18, <1>19 DEF Inv

LEMMA EndNodeInv == Inv /\ EndNode => Inv'
<1> SUFFICES ASSUME Inv, EndNode PROVE Inv'
  OBVIOUS
<1>1. TypeInv /\ flow \in Flows /\ node \in CFGNodes
  BY DEF Inv, TypeInv, EndNode
<1>2. UNCHANGED <<flow, unassigned, nodesToTraverse, position, done, reported>> /\ node' = 0
  BY DEF EndNode
<1>3. CFGNodes' = CFGNodes /\ (\A m : Kills(m)' = Kills(m)) /\ \A m : ToTraverse(m)' = ToTraverse(m)
  BY <1>2 DEF CFGNodes, Kills, ToTraverse
<1>4. TypeInv'
  BY <1>1, <1>2, <1>3 DEF TypeInv
<1>5. Killed' /\ NodeKilled'
  BY <1>2, <1>3 DEF Killed, NodeKilled, Inv
<1>6. Propagated'
  <2> SUFFICES ASSUME NEW m \in CFGNodes, NEW i \in 1..Len(flow.exits[m]), ~ToTraverse(m)
               PROVE  PassedOn(m, i)'
    BY <1>2, <1>3 DEF Propagated
  <2>1. Len(flow.exits[m]) \in Nat
    <3>1. flow.exits[m] \in Seq(CFGNodes)
      BY <1>1, FlowFacts
    <3> QED
      BY <3>1
  <2>2. ~(m = node /\ i >= position)
    BY <1>1, <2>1 DEF EndNode, TypeInv
  <2>3. PassedOn(m, i)
    BY <2>2 DEF Inv, Propagated
  <2> QED
    BY <1>2, <1>3, <2>3 DEF PassedOn
<1>7. EntryKept' /\ Supported'
  BY <1>2, <1>3 DEF EntryKept, Supported, Comes, Inv
<1>8. Ended'
  BY <1>2 DEF Ended, Inv, EndNode
<1> QED
  BY <1>4, <1>5, <1>6, <1>7, <1>8 DEF Inv

LEMMA ReportInv == Inv /\ Report => Inv'
<1> SUFFICES ASSUME Inv, Report PROVE Inv'
  OBVIOUS
<1>1. UNCHANGED <<flow, unassigned, nodesToTraverse, node, position>>
      /\ done' = TRUE /\ reported' = unassigned[flow.exit] /\ node = 0 /\ nodesToTraverse = << >>
  BY DEF Report
<1>2. CFGNodes' = CFGNodes /\ (\A m : Kills(m)' = Kills(m)) /\ \A m : ToTraverse(m)' = ToTraverse(m)
  BY <1>1 DEF CFGNodes, Kills, ToTraverse
<1>3. TypeInv' /\ Killed' /\ NodeKilled'
  BY <1>1, <1>2 DEF TypeInv, Killed, NodeKilled, Inv
<1>4. Propagated'
  BY <1>1, <1>2 DEF Propagated, PassedOn, Inv
<1>5. EntryKept' /\ Supported' /\ Ended'
  BY <1>1, <1>2 DEF EntryKept, Supported, Comes, Ended, Inv
<1> QED
  BY <1>3, <1>4, <1>5 DEF Inv

LEMMA StutterInv == Inv /\ UNCHANGED searchVars => Inv'
<1> SUFFICES ASSUME Inv, UNCHANGED searchVars PROVE Inv'
  OBVIOUS
<1>1. UNCHANGED <<flow, unassigned, nodesToTraverse, node, position, done, reported>>
  BY DEF searchVars
<1>2. CFGNodes' = CFGNodes /\ (\A m : Kills(m)' = Kills(m)) /\ \A m : ToTraverse(m)' = ToTraverse(m)
  BY <1>1 DEF CFGNodes, Kills, ToTraverse
<1>3. TypeInv' /\ Killed' /\ NodeKilled'
  BY <1>1, <1>2 DEF TypeInv, Killed, NodeKilled, Inv
<1>4. Propagated'
  BY <1>1, <1>2 DEF Propagated, PassedOn, Inv
<1>5. EntryKept' /\ Supported' /\ Ended'
  BY <1>1, <1>2 DEF EntryKept, Supported, Comes, Ended, Inv
<1> QED
  BY <1>3, <1>4, <1>5 DEF Inv

LEMMA NextInv == Inv /\ [SearchNext]_searchVars => Inv'
  BY TraverseInv, VisitExitInv, EndNodeInv, ReportInv, StutterInv DEF SearchNext

LEMMA SearchInv == SearchSpec => []Inv
  BY InitInv, NextInv, PTL DEF SearchSpec

-----------------------------------------------------------------------------
LEMMA InvSolves == Inv => FlowEquations
<1> SUFFICES ASSUME Inv, done, NEW n \in CFGNodes
             PROVE  unassigned[n] = Entering(n) \ Kills(n)
  BY DEF FlowEquations
<1>1. flow \in Flows /\ node = 0 /\ nodesToTraverse = << >> /\ n # 0
  BY FlowFacts DEF Inv, TypeInv, Ended
<1>2. \A m : ~ToTraverse(m)
  BY <1>1 DEF ToTraverse
<1>3. \A p \in CFGNodes : \A x \in unassigned[p] : x \notin Kills(p)
  BY <1>2 DEF Inv, Killed
<1>4. \A p \in CFGNodes : \A i \in 1..Len(flow.exits[p]) : PassedOn(p, i)
  <2>1. 0 \notin CFGNodes
    BY <1>1, FlowFacts
  <2> QED
    BY <1>1, <1>2, <2>1 DEF Inv, Propagated
<1>5. \A p \in CFGNodes : DOMAIN flow.exits[p] = 1..Len(flow.exits[p])
  BY <1>1, FlowFacts
<1>6. ASSUME NEW x \in unassigned[n] PROVE x \in Entering(n) \ Kills(n)
  <2>1. Comes(n, x)
    BY DEF Inv, Supported
  <2>2. x \notin Kills(n)
    BY <1>3
  <2> QED
    BY <1>5, <2>1, <2>2 DEF Comes, Entering
<1>7. ASSUME NEW x \in Entering(n), x \notin Kills(n) PROVE x \in unassigned[n]
  <2>1. CASE n = flow.entry /\ x \in flow.parameters
    BY <1>7, <2>1 DEF Inv, EntryKept
  <2>2. CASE \E p \in CFGNodes : \E i \in DOMAIN flow.exits[p] :
                flow.exits[p][i] = n /\ x \in unassigned[p]
    BY <1>4, <1>5, <1>7, <2>2 DEF PassedOn
  <2> QED
    BY <2>1, <2>2 DEF Entering
<1> QED
  BY <1>6, <1>7

\* However often the search returns to a node, and whatever the graph, what it reports
\* from is a solution of the data flow equations (ControlFlowAnalyzer.cpp:94-128).
THEOREM SearchSolvesEquations == SearchSpec => []FlowEquations
  BY SearchInv, InvSolves, PTL

-----------------------------------------------------------------------------
\* C holds what enters at the entry and is closed under the exits.
Closed(C) ==
  /\ \A x \in flow.parameters : x \notin Kills(flow.entry) => <<flow.entry, x>> \in C
  /\ \A n \in CFGNodes : \A i \in 1..Len(flow.exits[n]) : \A x :
       <<n, x>> \in C /\ x \notin Kills(flow.exits[n][i]) => <<flow.exits[n][i], x>> \in C

Within(C) ==
  Closed(C) => \A n \in CFGNodes : \A x \in unassigned[n] : x \notin Kills(n) => <<n, x>> \in C

LEMMA InitWithin == ASSUME NEW C PROVE SearchInit => Within(C)
<1> SUFFICES ASSUME SearchInit, Closed(C), NEW n \in CFGNodes, NEW x \in unassigned[n], x \notin Kills(n)
             PROVE  <<n, x>> \in C
  BY DEF Within
<1>1. n = flow.entry /\ x \in flow.parameters
  BY DEF SearchInit
<1> QED
  BY <1>1 DEF Closed

LEMMA NextWithin == ASSUME NEW C PROVE Inv /\ Within(C) /\ [SearchNext]_searchVars => Within(C)'
<1> SUFFICES ASSUME Inv, Within(C), [SearchNext]_searchVars PROVE Within(C)'
  OBVIOUS
<1>1. flow' = flow
  BY DEF SearchNext, Traverse, VisitExit, EndNode, Report, searchVars
<1>2. CFGNodes' = CFGNodes /\ \A m : Kills(m)' = Kills(m)
  BY <1>1 DEF CFGNodes, Kills
<1>3. Closed(C)' <=> Closed(C)
  BY <1>1, <1>2 DEF Closed
<1> SUFFICES ASSUME Closed(C), NEW n \in CFGNodes, NEW x \in unassigned'[n], x \notin Kills(n)
             PROVE  <<n, x>> \in C
  BY <1>2, <1>3 DEF Within
<1>4. CASE x \in unassigned[n]
  BY <1>4 DEF Within
<1>5. CASE x \notin unassigned[n]
  <2>1. VisitExit
    BY <1>5 DEF SearchNext, Traverse, EndNode, Report, searchVars, Inv, TypeInv
  <2> DEFINE y == flow.exits[node][position]
  <2>2. unassigned' = [unassigned EXCEPT ![y] = unassigned[y] \cup unassigned[node]]
    BY <2>1 DEF VisitExit
  <2>3. n = y /\ x \in unassigned[node]
    BY <1>5, <2>2 DEF Inv, TypeInv
  <2>4. node \in CFGNodes /\ flow \in Flows
    BY <2>1 DEF VisitExit, Inv, TypeInv
  <2>5. position \in 1..Len(flow.exits[node])
    <3>1. flow.exits[node] \in Seq(CFGNodes)
      BY <2>4, FlowFacts
    <3>2. Len(flow.exits[node]) \in Nat
      BY <3>1
    <3> QED
      BY <2>1, <2>4, <3>2 DEF VisitExit, Inv, TypeInv
  <2>6. x \notin Kills(node)
    BY <2>1, <2>3 DEF Inv, NodeKilled, VisitExit
  <2>7. <<node, x>> \in C
    BY <2>3, <2>4, <2>6 DEF Within
  <2> QED
    BY <2>3, <2>4, <2>5, <2>7 DEF Closed
<1> QED
  BY <1>4, <1>5

\* Nothing is reported that is not carried to the exit along the graph: it is in every
\* set of pairs of a node and a variable that holds what leaves the entry and is closed
\* under the exits.  So the solution of the theorem above is the least one.
THEOREM SearchReportsLeast ==
  ASSUME NEW C
  PROVE  SearchSpec => [](done /\ Closed(C) => \A x \in reported : <<flow.exit, x>> \in C)
<1>1. SearchInit => Within(C)
  BY InitWithin
<1>2. Inv /\ Within(C) /\ [SearchNext]_searchVars => Within(C)'
  BY NextWithin
<1>3. Inv /\ Within(C) => (done /\ Closed(C) => \A x \in reported : <<flow.exit, x>> \in C)
  <2> SUFFICES ASSUME Inv, Within(C), done, Closed(C), NEW x \in reported
               PROVE  <<flow.exit, x>> \in C
    OBVIOUS
  <2>1. flow.exit \in CFGNodes
    BY FlowFacts DEF Inv, TypeInv
  <2>2. x \in unassigned[flow.exit] /\ nodesToTraverse = << >>
    BY DEF Inv, Ended
  <2>3. x \notin Kills(flow.exit)
    BY <2>1, <2>2 DEF Inv, Killed, ToTraverse
  <2> QED
    BY <2>1, <2>2, <2>3 DEF Within
<1> QED
  BY <1>1, <1>2, <1>3, SearchInv, PTL DEF SearchSpec

=============================================================================
