----------------------------- MODULE CycleCheck -----------------------------
(***************************************************************************)
(* validate_acyclic of resolve-core: the three-colour depth-first search   *)
(* that decides whether a graph of prerequisites may be stored.  The       *)
(* recursion of visit is an explicit stack here, one action per branch of  *)
(* a call.  The maps and sets of the source are walked in identifier       *)
(* order; the model walks them in any order, so nothing rests on it.       *)
(***************************************************************************)
EXTENDS Integers, Sequences, FiniteSets

CONSTANT Node

VARIABLES
    graph,    \* the edges argument: the prerequisites of every key
    colour,   \* colours, with "white" for an entry that is missing
    todo,     \* the dependencies a call of visit has still to look at
    roots,    \* the keys validate_acyclic has still to look at
    stack,    \* the calls of visit in progress, outermost first
    verdict   \* "running", "acyclic" for Ok, "cycle" for DependencyCycle

vars == <<graph, colour, todo, roots, stack, verdict>>

\* Every variable of the search has its type.
TypeOK ==
    /\ graph \in [Node -> SUBSET Node]
    /\ colour \in [Node -> {"white", "grey", "black"}]
    /\ todo \in [Node -> SUBSET Node]
    /\ roots \in SUBSET Node
    /\ stack \in Seq(Node)
    /\ verdict \in {"running", "acyclic", "cycle"}

\* Every key is there: load_dependency_graph refuses an edge to a missing row.
Init ==
    /\ graph \in [Node -> SUBSET Node]
    /\ colour = [n \in Node |-> "white"]
    /\ todo = [n \in Node |-> {}]
    /\ roots = Node
    /\ stack = <<>>
    /\ verdict = "running"

Top == stack[Len(stack)]

\* The first half of visit for a node that has no colour yet.
Enter(n) ==
    /\ colour' = [colour EXCEPT ![n] = "grey"]
    /\ stack' = Append(stack, n)

\* The loop over graph.keys(): a node that is black by now is not visited.
NextRoot(n) ==
    /\ verdict = "running"
    /\ stack = <<>>
    /\ n \in roots
    /\ roots' = roots \ {n}
    /\ \/ colour[n] = "black" /\ UNCHANGED <<colour, stack, todo>>
       \/ colour[n] = "white" /\ Enter(n) /\ todo' = [todo EXCEPT ![n] = graph[n]]
    /\ UNCHANGED <<graph, verdict>>

\* Fault: a grey dependency is passed over like a black one.
Tolerated(d) ==
    /\ colour[d] \in {"grey", "black"}
    /\ UNCHANGED <<colour, stack, verdict>>
    /\ todo' = [todo EXCEPT ![Top] = @ \ {d}]

\* Fault: the loop does not move past a finished dependency.
NotDropped(d) ==
    /\ colour[d] = "black"
    /\ UNCHANGED <<colour, stack, verdict, todo>>

\* visit(d) returns at once: a black node is finished.
AlreadyBlack(d) ==
    /\ colour[d] = "black"
    /\ UNCHANGED <<colour, stack, verdict>>
    /\ todo' = [todo EXCEPT ![Top] = @ \ {d}]

\* Fault: finished nodes are taken for nodes in progress.
NotWhite(d) ==
    /\ colour[d] # "white"
    /\ verdict' = "cycle"
    /\ UNCHANGED <<colour, stack, todo>>

\* visit(d) fails: d is on the path that leads to it.
BackEdge(d) ==
    /\ colour[d] = "grey"
    /\ verdict' = "cycle"
    /\ UNCHANGED <<colour, stack, todo>>

\* visit(d) recurses.
Descend(d) ==
    /\ colour[d] = "white"
    /\ Enter(d)
    /\ todo' = [todo EXCEPT ![Top] = @ \ {d}, ![d] = graph[d]]
    /\ UNCHANGED verdict

\* One turn of the loop over the dependencies of the innermost call.
VisitDependency(d) ==
    /\ verdict = "running"
    /\ stack # <<>>
    /\ d \in todo[Top]
    /\ AlreadyBlack(d) \/ BackEdge(d) \/ Descend(d)
    /\ UNCHANGED <<graph, roots>>

\* The end of visit.
Return ==
    /\ verdict = "running"
    /\ stack # <<>>
    /\ todo[Top] = {}
    /\ colour' = [colour EXCEPT ![Top] = "black"]
    /\ stack' = SubSeq(stack, 1, Len(stack) - 1)
    /\ UNCHANGED <<graph, todo, roots, verdict>>

Accept ==
    /\ verdict = "running"
    /\ stack = <<>>
    /\ roots = {}
    /\ verdict' = "acyclic"
    /\ UNCHANGED <<graph, colour, todo, roots, stack>>

Next ==
    \/ \E n \in Node : NextRoot(n) \/ VisitDependency(n)
    \/ Return
    \/ Accept

\* The search is one sequential call: it runs until it returns.
Spec == Init /\ [][Next]_vars /\ WF_vars(Next)

-----------------------------------------------------------------------------
(* Correctness *)

\* The reference: every set of nodes in N has a member with no edge into the set.
AcyclicOn(N) == \A C \in (SUBSET N) \ {{}} : \E c \in C : graph[c] \cap C = {}

Acyclic == AcyclicOn(Node)

\* validate_acyclic returns Ok exactly on the graphs that have no cycle.
VerdictIsRight ==
    /\ verdict = "acyclic" => Acyclic
    /\ verdict = "cycle" => ~Acyclic

\* The search returns on every graph, cyclic ones included.
Terminates == <>(verdict # "running")

Black == {n \in Node : colour[n] = "black"}

\* The calls in progress are the grey nodes, each once, along edges that have
\* been taken.
StackIsPath ==
    /\ \A n \in Node : colour[n] = "grey" => \E i \in 1 .. Len(stack) : stack[i] = n
    /\ \A i \in 1 .. Len(stack) : colour[stack[i]] = "grey"
    /\ \A i, j \in 1 .. Len(stack) : stack[i] = stack[j] => i = j
    /\ \A i \in 1 .. Len(stack) - 1 : stack[i + 1] \in graph[stack[i]]

\* A dependency a call is done with is finished, or is the call above it.
TakenAreFinished ==
    \A i \in 1 .. Len(stack) :
        /\ todo[stack[i]] \subseteq graph[stack[i]]
        /\ \A d \in graph[stack[i]] \ todo[stack[i]] :
              colour[d] = "black" \/ (i < Len(stack) /\ d = stack[i + 1])

\* Finished nodes lead to finished nodes only, and close no cycle.
FinishedIsAcyclic ==
    /\ \A n \in Black : graph[n] \subseteq Black
    /\ AcyclicOn(Black)

\* The colours, the stack and the loops of validate_acyclic at every moment of
\* the search: the invariant from which its verdict is right.
SearchInvariant ==
    /\ TypeOK
    /\ StackIsPath
    /\ TakenAreFinished
    /\ FinishedIsAcyclic
    /\ \A n \in Node \ roots : colour[n] # "white"
    /\ verdict = "acyclic" => stack = <<>> /\ roots = {}
    /\ verdict = "cycle" => ~Acyclic
=============================================================================
