------------------------- MODULE ControlFlowAnalyzer -------------------------
(***************************************************************************)
(* ControlFlowAnalyzer::checkUnassignedStorageReturnValues                 *)
(* (libsolidity/analysis/ControlFlowAnalyzer.cpp): the search for storage  *)
(* pointers that may be returned without assignment, over the control flow *)
(* graph of a function.  Nodes are numbers.  A flow has                    *)
(*   parameters      the return parameters that point to storage           *)
(*   nodes, exits, entry, exit         the graph                           *)
(*   assigns         what a node's block assigns, or mentions in inline    *)
(*                   assembly                                              *)
(*   returns         whether the node ends in a return with an expression  *)
(***************************************************************************)
EXTENDS Naturals, Sequences

CONSTANTS Flows, Variables

ASSUME FlowsAssumption ==
  \A f \in Flows :
    /\ f.nodes \in Nat
    /\ f.entry \in 1..f.nodes /\ f.exit \in 1..f.nodes
    /\ f.parameters \subseteq Variables
    /\ \A n \in 1..f.nodes :
         f.exits[n] \in Seq(1..f.nodes) /\ f.assigns[n] \subseteq Variables /\ f.returns[n] \in BOOLEAN

VARIABLES flow,              \* the flow of the function
          unassigned,        \* node -> the variables unassigned there
          nodesToTraverse,   \* a stack
          node, position,    \* the node traversed (0: none) and the exit looked at
          done, reported     \* the search is over, and the variables it reported

searchVars == <<flow, unassigned, nodesToTraverse, node, position, done, reported>>

CFGNodes == 1..flow.nodes

SearchInit ==
  /\ flow \in Flows
  /\ unassigned = [n \in CFGNodes |-> IF n = flow.entry THEN flow.parameters ELSE {}]
  /\ nodesToTraverse = <<flow.entry>>
  /\ node = 0 /\ position = 0
  /\ done = FALSE /\ reported = {}

\* What leaves the unassigned variables at a node.
Kills(n) == IF flow.returns[n] THEN Variables ELSE flow.assigns[n]

Traverse ==
  /\ node = 0 /\ nodesToTraverse # << >>
  /\ \E n \in {nodesToTraverse[Len(nodesToTraverse)]} :
       /\ node' = n
       /\ unassigned' = [unassigned EXCEPT ![n] = @ \ Kills(n)]
  /\ nodesToTraverse' = SubSeq(nodesToTraverse, 1, Len(nodesToTraverse) - 1)
  /\ position' = 1
  /\ UNCHANGED <<flow, done, reported>>

\* Mutant: a node is traversed again only if nothing was known of it.
PushOnce(x) == unassigned[x] = {} /\ unassigned[node] # {}

\* (Re)traverse an exit if there are new unassigned variables.
Grows(x) == ~(unassigned[node] \subseteq unassigned[x])

VisitExit ==
  /\ node # 0 /\ position <= Len(flow.exits[node])
  /\ \E x \in {flow.exits[node][position]} :
       /\ unassigned' = [unassigned EXCEPT ![x] = @ \cup unassigned[node]]
       /\ nodesToTraverse' = IF Grows(x) THEN Append(nodesToTraverse, x) ELSE nodesToTraverse
  /\ position' = position + 1
  /\ UNCHANGED <<flow, node, done, reported>>

\* Mutant: a node where something is unassigned is put back.
EndNodeAndStay ==
  /\ node # 0 /\ position > Len(flow.exits[node])
  /\ node' = 0
  /\ nodesToTraverse' = IF unassigned[node] = {} THEN nodesToTraverse ELSE Append(nodesToTraverse, node)
  /\ UNCHANGED <<flow, unassigned, position, done, reported>>

EndNode ==
  /\ node # 0 /\ position > Len(flow.exits[node])
  /\ node' = 0
  /\ UNCHANGED <<flow, unassigned, nodesToTraverse, position, done, reported>>

Report ==
  /\ node = 0 /\ nodesToTraverse = << >> /\ ~done
  /\ done' = TRUE
  /\ reported' = unassigned[flow.exit]
  /\ UNCHANGED <<flow, unassigned, nodesToTraverse, node, position>>

SearchNext == Traverse \/ VisitExit \/ EndNode \/ Report

SearchSpec == SearchInit /\ [][SearchNext]_searchVars /\ WF_searchVars(SearchNext)

-----------------------------------------------------------------------------
Entering(n) ==
  (IF n = flow.entry THEN flow.parameters ELSE {})
    \cup UNION {unassigned[p] : p \in {q \in CFGNodes : \E i \in DOMAIN flow.exits[q] : flow.exits[q][i] = n}}

\* When the search is over the sets solve the data flow equations of the graph: what is
\* unassigned at a node is what enters it from any node before it and is not assigned
\* there, although a node is only traversed again when its set grows, and kills what it
\* assigns in the very set that is compared.
FlowEquations == done => \A n \in CFGNodes : unassigned[n] = Entering(n) \ Kills(n)

\* "this will terminate, since there is only a finite number of unassigned return
\* values" (ControlFlowAnalyzer.cpp:124): the search ends although the sets at nodes also
\* shrink.
SearchEnds == <>done

=============================================================================
