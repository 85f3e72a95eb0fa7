--------------------------- MODULE CycleCheckProof ---------------------------
(***************************************************************************)
(* The verdict of validate_acyclic is right on every graph: the invariant  *)
(* of the search is inductive.                                             *)
(***************************************************************************)
EXTENDS CycleCheck, SequenceTheorems, TLAPS

\* A call in progress has a top frame, and it is a node.
LEMMA TopIsOnStack ==
    ASSUME TypeOK, stack # <<>>
    PROVE  /\ Len(stack) \in Nat \ {0} /\ Len(stack) \in 1 .. Len(stack)
           /\ Top \in Node
  BY DEF TypeOK, Top

\* The length SubSeq gives the stack when visit returns.
LEMMA OneLess ==
    ASSUME NEW n \in Nat \ {0}
    PROVE  (IF 1 <= n - 1 THEN n - 1 - 1 + 1 ELSE 0) = n - 1
  OBVIOUS

\* The search starts in its invariant: nothing is coloured, no call is open.
LEMMA InitSearch == Init => SearchInvariant
<1> SUFFICES ASSUME Init PROVE SearchInvariant
  OBVIOUS
<1>1. TypeOK
  BY DEF Init, TypeOK
<1>2. stack = <<>> /\ Len(stack) = 0 /\ Black = {}
  BY DEF Init, Black
<1>3. StackIsPath /\ TakenAreFinished
  BY <1>2 DEF Init, StackIsPath, TakenAreFinished
<1>4. FinishedIsAcyclic
  BY <1>2 DEF FinishedIsAcyclic, AcyclicOn
<1>5. QED
  BY <1>1, <1>3, <1>4 DEF Init, SearchInvariant

\* The path that a back edge closes is a set without a sink.
LEMMA BackEdgeClosesCycle ==
    ASSUME TypeOK, StackIsPath, TakenAreFinished, stack # <<>>,
           NEW d \in todo[Top], colour[d] = "grey"
    PROVE  ~Acyclic
<1>1. Len(stack) \in Nat \ {0} /\ Len(stack) \in 1 .. Len(stack) /\ Top \in Node
  BY TopIsOnStack
<1>2. d \in Node /\ d \in graph[Top]
  BY <1>1 DEF TypeOK, TakenAreFinished, Top
<1>3. PICK j \in 1 .. Len(stack) : stack[j] = d
  BY <1>2 DEF StackIsPath
<1> DEFINE C == {stack[i] : i \in j .. Len(stack)}
<1>4. C \in SUBSET Node /\ d \in C
  BY <1>1, <1>3 DEF TypeOK
<1>5. ASSUME NEW c \in C
      PROVE  graph[c] \cap C # {}
  <2>1. PICK i \in j .. Len(stack) : c = stack[i]
    BY <1>5
  <2>2. CASE i = Len(stack)
    BY <1>2, <1>4, <2>1, <2>2 DEF Top
  <2>3. CASE i # Len(stack)
    <3>1. i \in 1 .. Len(stack) - 1 /\ i + 1 \in j .. Len(stack)
      BY <1>1, <1>3, <2>3
    <3>2. stack[i + 1] \in graph[c] /\ stack[i + 1] \in C
      BY <2>1, <3>1 DEF StackIsPath
    <3>3. QED
      BY <3>2
  <2>4. QED
    BY <2>2, <2>3
<1>6. QED
  BY <1>4, <1>5 DEF Acyclic, AcyclicOn

\* A node whose dependencies are all finished, itself unfinished, closes no cycle.
LEMMA FinishingKeepsAcyclic ==
    ASSUME FinishedIsAcyclic, NEW n \in Node \ Black, graph[n] \subseteq Black
    PROVE  AcyclicOn(Black \cup {n})
<1>1. SUFFICES ASSUME NEW C \in SUBSET (Black \cup {n}), C # {}
               PROVE  \E c \in C : graph[c] \cap C = {}
  BY DEF AcyclicOn
<1>2. CASE C = {n}
  BY <1>2
<1>3. CASE C # {n}
  <2>1. C \ {n} \in (SUBSET Black) \ {{}}
    BY <1>1, <1>3
  <2>2. PICK c \in C \ {n} : graph[c] \cap (C \ {n}) = {}
    BY <2>1 DEF FinishedIsAcyclic, AcyclicOn
  <2>3. n \notin graph[c]
    BY <2>1, <2>2 DEF FinishedIsAcyclic
  <2>4. QED
    BY <2>2, <2>3
<1>4. QED
  BY <1>2, <1>3

\* A call pushes a white node that its caller depends on.
LEMMA PushKeepsSearch ==
    ASSUME SearchInvariant, TypeOK', NEW n \in Node, colour[n] = "white", Enter(n),
           todo'[n] = graph[n], graph' = graph,
           \A m \in Node \ {n} : todo'[m] \subseteq todo[m] /\ todo[m] \ todo'[m] \subseteq {n},
           \A m \in Node \ {n} : todo'[m] # todo[m] => stack # <<>> /\ m = Top,
           stack # <<>> => n \in graph[Top]
    PROVE  StackIsPath' /\ TakenAreFinished' /\ FinishedIsAcyclic'
<1> DEFINE L == Len(stack)
<1>1. TypeOK /\ StackIsPath /\ TakenAreFinished /\ FinishedIsAcyclic
  BY DEF SearchInvariant
<1>2. /\ stack' = Append(stack, n) /\ L \in Nat
      /\ Len(stack') = L + 1 /\ stack'[L + 1] = n
      /\ \A i \in 1 .. L : stack'[i] = stack[i] /\ stack[i] \in Node /\ stack[i] # n
  BY <1>1 DEF Enter, TypeOK, StackIsPath
<1>3. colour'[n] = "grey" /\ \A m \in Node \ {n} : colour'[m] = colour[m]
  BY <1>1 DEF Enter, TypeOK
<1>4. StackIsPath'
  <2>1. ASSUME NEW m \in Node, colour'[m] = "grey"
        PROVE  \E i \in 1 .. L + 1 : stack'[i] = m
    BY <1>1, <1>2, <1>3, <2>1 DEF StackIsPath
  <2>2. ASSUME NEW i \in 1 .. L + 1
        PROVE  colour'[stack'[i]] = "grey"
    BY <1>1, <1>2, <1>3 DEF StackIsPath
  <2>3. ASSUME NEW i \in 1 .. L + 1, NEW j \in 1 .. L + 1, stack'[i] = stack'[j]
        PROVE  i = j
    BY <1>1, <1>2, <2>3 DEF StackIsPath
  <2>4. ASSUME NEW i \in 1 .. L
        PROVE  stack'[i + 1] \in graph'[stack'[i]]
    <3>1. CASE i = L
      BY <1>2, <2>4, <3>1 DEF Top, TypeOK
    <3>2. CASE i # L
      BY <1>1, <1>2, <2>4, <3>2 DEF StackIsPath
    <3>3. QED
      BY <3>1, <3>2
  <2>5. QED
    BY <1>2, <2>1, <2>2, <2>3, <2>4 DEF StackIsPath
<1>5. TakenAreFinished'
  <2>1. SUFFICES ASSUME NEW i \in 1 .. L + 1
                 PROVE  /\ todo'[stack'[i]] \subseteq graph'[stack'[i]]
                        /\ \A d \in graph'[stack'[i]] \ todo'[stack'[i]] :
                             colour'[d] = "black" \/ (i < L + 1 /\ d = stack'[i + 1])
    BY <1>2 DEF TakenAreFinished
  <2>2. CASE i = L + 1
    BY <1>2, <2>2
  <2>3. CASE i # L + 1
    <3>1. i \in 1 .. L /\ stack'[i] = stack[i] /\ stack[i] \in Node \ {n}
      BY <1>2, <2>3
    <3>2. todo'[stack[i]] \subseteq graph[stack[i]]
      BY <1>1, <3>1 DEF TakenAreFinished
    <3>3. ASSUME NEW d \in graph[stack[i]] \ todo'[stack[i]]
          PROVE  colour'[d] = "black" \/ (i < L + 1 /\ d = stack'[i + 1])
      <4>1. CASE d \notin todo[stack[i]]
        <5>1. d \in Node
          BY <1>1, <3>1, <3>3 DEF TypeOK
        <5>2. CASE colour[d] = "black"
          BY <1>3, <5>1, <5>2
        <5>3. CASE i < L /\ d = stack[i + 1]
          BY <1>2, <3>1, <5>3
        <5>4. QED
          BY <1>1, <3>1, <3>3, <4>1, <5>2, <5>3 DEF TakenAreFinished
      <4>2. CASE d \in todo[stack[i]]
        <5>1. d = n /\ stack # <<>> /\ stack[i] = stack[L]
          BY <3>1, <3>3, <4>2 DEF Top
        <5>2. i = L
          BY <1>1, <1>2, <3>1, <5>1 DEF StackIsPath
        <5>3. QED
          BY <1>2, <5>1, <5>2
      <4>3. QED
        BY <4>1, <4>2
    <3>4. QED
      BY <3>1, <3>2, <3>3
  <2>4. QED
    BY <2>2, <2>3
<1>6. FinishedIsAcyclic'
  <2>1. Black' = Black
    BY <1>3 DEF Black
  <2>2. QED
    BY <1>1, <2>1 DEF FinishedIsAcyclic, AcyclicOn
<1>7. QED
  BY <1>4, <1>5, <1>6

\* The outer loop of validate_acyclic keeps the invariant.
LEMMA NextRootSearch ==
    ASSUME SearchInvariant, NEW n \in Node, NextRoot(n)
    PROVE  SearchInvariant'
<1>1. TypeOK /\ StackIsPath /\ TakenAreFinished /\ FinishedIsAcyclic
  BY DEF SearchInvariant
<1>2. /\ verdict = "running" /\ stack = <<>> /\ n \in roots
      /\ roots' = roots \ {n} /\ UNCHANGED <<graph, verdict>>
  BY DEF NextRoot
<1>3. CASE colour[n] = "black" /\ UNCHANGED <<colour, stack, todo>>
  <2>1. TypeOK'
    BY <1>1, <1>2, <1>3 DEF TypeOK
  <2>2. StackIsPath' /\ TakenAreFinished' /\ FinishedIsAcyclic'
    BY <1>1, <1>2, <1>3 DEF StackIsPath, TakenAreFinished, FinishedIsAcyclic, AcyclicOn, Black
  <2>3. QED
    BY <1>2, <1>3, <2>1, <2>2 DEF SearchInvariant
<1>4. CASE colour[n] = "white" /\ Enter(n) /\ todo' = [todo EXCEPT ![n] = graph[n]]
  <2>1. TypeOK'
    BY <1>1, <1>2, <1>4 DEF TypeOK, Enter
  <2>2. todo'[n] = graph[n] /\ \A m \in Node \ {n} : todo'[m] = todo[m]
    BY <1>1, <1>4 DEF TypeOK
  <2>3. StackIsPath' /\ TakenAreFinished' /\ FinishedIsAcyclic'
    BY <1>2, <1>4, <2>1, <2>2, PushKeepsSearch
  <2>4. \A m \in Node \ roots' : colour'[m] # "white"
    BY <1>1, <1>2, <1>4 DEF SearchInvariant, Enter, TypeOK
  <2>5. QED
    BY <1>2, <2>1, <2>3, <2>4 DEF SearchInvariant
<1>5. QED
  BY <1>3, <1>4 DEF NextRoot

\* One turn of the loop inside visit keeps the invariant, in all three branches.
LEMMA VisitDependencySearch ==
    ASSUME SearchInvariant, NEW d \in Node, VisitDependency(d)
    PROVE  SearchInvariant'
<1>1. TypeOK /\ StackIsPath /\ TakenAreFinished /\ FinishedIsAcyclic
  BY DEF SearchInvariant
<1>2. /\ verdict = "running" /\ stack # <<>> /\ d \in todo[Top]
      /\ UNCHANGED <<graph, roots>>
  BY DEF VisitDependency
<1>3. Len(stack) \in 1 .. Len(stack) /\ Top \in Node
  BY <1>1, <1>2, TopIsOnStack
<1>4. CASE AlreadyBlack(d)
  <2>1. /\ colour[d] = "black" /\ UNCHANGED <<colour, stack, verdict>>
        /\ todo'[Top] = todo[Top] \ {d}
        /\ \A m \in Node \ {Top} : todo'[m] = todo[m]
    BY <1>1, <1>3, <1>4 DEF AlreadyBlack, TypeOK
  <2>2. TypeOK'
    BY <1>1, <1>2, <1>4 DEF AlreadyBlack, TypeOK
  <2>3. StackIsPath' /\ FinishedIsAcyclic'
    BY <1>1, <1>2, <2>1 DEF StackIsPath, FinishedIsAcyclic, AcyclicOn, Black
  <2>4. TakenAreFinished'
    <3>1. \A i \in 1 .. Len(stack) : stack[i] \in Node
      BY <1>1 DEF TypeOK
    <3>2. \A m \in Node : todo'[m] \subseteq todo[m] /\ todo[m] \ todo'[m] \subseteq {d}
      BY <2>1
    <3>3. QED
      BY <1>1, <1>2, <2>1, <3>1, <3>2 DEF TakenAreFinished
  <2>5. QED
    BY <1>2, <2>1, <2>2, <2>3, <2>4 DEF SearchInvariant
<1>5. CASE BackEdge(d)
  <2>1. /\ colour[d] = "grey" /\ verdict' = "cycle" /\ UNCHANGED <<colour, stack, todo>>
    BY <1>5 DEF BackEdge
  <2>2. ~Acyclic
    BY <1>1, <1>2, <2>1, BackEdgeClosesCycle
  <2>3. ~Acyclic'
    BY <1>2, <2>2 DEF Acyclic, AcyclicOn
  <2>4. TypeOK'
    BY <1>1, <1>2, <2>1 DEF TypeOK
  <2>5. StackIsPath' /\ TakenAreFinished'
    BY <1>1, <1>2, <2>1 DEF StackIsPath, TakenAreFinished
  <2>6. FinishedIsAcyclic'
    BY <1>1, <1>2, <2>1 DEF FinishedIsAcyclic, AcyclicOn, Black
  <2>7. QED
    BY <1>2, <2>1, <2>3, <2>4, <2>5, <2>6 DEF SearchInvariant
<1>6. CASE Descend(d)
  <2>1. /\ colour[d] = "white" /\ Enter(d) /\ UNCHANGED verdict
        /\ todo' = [todo EXCEPT ![Top] = @ \ {d}, ![d] = graph[d]]
    BY <1>6 DEF Descend
  <2>2. d # Top
    BY <1>1, <1>3, <2>1 DEF StackIsPath, Top
  <2>3. /\ todo'[d] = graph[d] /\ todo'[Top] = todo[Top] \ {d}
        /\ \A m \in Node \ {d, Top} : todo'[m] = todo[m]
    BY <1>1, <1>3, <2>1, <2>2 DEF TypeOK
  <2>4. d \in graph[Top]
    BY <1>1, <1>2, <1>3 DEF TakenAreFinished, Top
  <2>5. TypeOK'
    BY <1>1, <1>2, <1>3, <2>1 DEF TypeOK, Enter
  <2>6. StackIsPath' /\ TakenAreFinished' /\ FinishedIsAcyclic'
    BY <1>2, <2>1, <2>3, <2>4, <2>5, PushKeepsSearch
  <2>7. \A m \in Node \ roots' : colour'[m] # "white"
    BY <1>1, <1>2, <2>1 DEF SearchInvariant, Enter, TypeOK
  <2>8. QED
    BY <1>2, <2>1, <2>5, <2>6, <2>7 DEF SearchInvariant
<1>7. QED
  BY <1>4, <1>5, <1>6 DEF VisitDependency

\* The end of visit keeps the invariant: the node that turns black leads to black nodes.
LEMMA ReturnSearch == ASSUME SearchInvariant, Return PROVE SearchInvariant'
<1> DEFINE L == Len(stack)
<1>1. TypeOK /\ StackIsPath /\ TakenAreFinished /\ FinishedIsAcyclic
  BY DEF SearchInvariant
<1>2. /\ verdict = "running" /\ stack # <<>> /\ todo[Top] = {}
      /\ colour' = [colour EXCEPT ![Top] = "black"]
      /\ stack' = SubSeq(stack, 1, L - 1)
      /\ UNCHANGED <<graph, todo, roots, verdict>>
  BY DEF Return
<1>3. L \in Nat \ {0} /\ L \in 1 .. L /\ Top \in Node /\ Top = stack[L]
  BY <1>1, <1>2, TopIsOnStack DEF Top
<1>4. colour'[Top] = "black" /\ \A n \in Node \ {Top} : colour'[n] = colour[n]
  BY <1>1, <1>2, <1>3 DEF TypeOK
<1>5. stack' \in Seq(Node) /\ Len(stack') = L - 1 /\ \A i \in 1 .. L - 1 : stack'[i] = stack[i]
  <2>1. 1 \in Int /\ L - 1 \in Int /\ \A i \in 1 .. L - 1 : stack[i] \in Node
    BY <1>1, <1>3 DEF TypeOK
  <2> DEFINE front == SubSeq(stack, 1, L - 1)
  <2>2. /\ front \in Seq(Node)
        /\ Len(front) = IF 1 <= L - 1 THEN L - 1 - 1 + 1 ELSE 0
        /\ \A i \in 1 .. L - 1 - 1 + 1 : front[i] = stack[1 + i - 1]
    BY <2>1, SubSeqProperties
  <2> HIDE DEF front
  <2>3. L - 1 - 1 + 1 = L - 1 /\ L - 1 \in Nat
    BY <1>3
  <2>4. Len(front) = L - 1
    BY <1>3, <2>2, OneLess
  <2>5. \A i \in 1 .. L - 1 : 1 + i - 1 = i
    BY <1>3
  <2>6. \A i \in 1 .. L - 1 : front[i] = stack[i]
    BY <2>2, <2>3, <2>5
  <2>7. QED
    BY <1>2, <2>2, <2>4, <2>6 DEF front
<1>6. \A i \in 1 .. L - 1 : stack[i] \in Node /\ stack[i] # Top
  BY <1>1, <1>3 DEF StackIsPath, TypeOK
<1>7. graph[Top] \subseteq Black /\ Top \notin Black
  <2>1. \A d \in graph[Top] : colour[d] = "black"
    BY <1>1, <1>2, <1>3 DEF TakenAreFinished
  <2>2. graph[Top] \subseteq Node /\ colour[Top] = "grey"
    BY <1>1, <1>3 DEF TypeOK, StackIsPath
  <2>3. QED
    BY <2>1, <2>2 DEF Black
<1>8. Black' = Black \cup {Top}
  BY <1>3, <1>4 DEF Black
<1>9. TypeOK'
  BY <1>1, <1>2, <1>3, <1>5 DEF TypeOK
<1>10. StackIsPath'
  <2>1. ASSUME NEW n \in Node, colour'[n] = "grey"
        PROVE  \E i \in 1 .. L - 1 : stack'[i] = n
    <3>1. n # Top /\ colour[n] = "grey"
      BY <1>4, <2>1
    <3>2. PICK i \in 1 .. L : stack[i] = n
      BY <1>1, <3>1 DEF StackIsPath
    <3>3. i \in 1 .. L - 1
      BY <1>3, <3>1, <3>2
    <3>4. QED
      BY <1>5, <3>2, <3>3
  <2>2. ASSUME NEW i \in 1 .. L - 1
        PROVE  colour'[stack'[i]] = "grey"
    BY <1>1, <1>3, <1>4, <1>5, <1>6 DEF StackIsPath
  <2>3. ASSUME NEW i \in 1 .. L - 1, NEW j \in 1 .. L - 1, stack'[i] = stack'[j]
        PROVE  i = j
    BY <1>1, <1>3, <1>5, <2>3 DEF StackIsPath
  <2>4. ASSUME NEW i \in 1 .. (L - 1) - 1
        PROVE  stack'[i + 1] \in graph'[stack'[i]]
    BY <1>1, <1>2, <1>3, <1>5 DEF StackIsPath
  <2>5. QED
    BY <1>5, <2>1, <2>2, <2>3, <2>4 DEF StackIsPath
<1>11. TakenAreFinished'
  <2>1. SUFFICES ASSUME NEW i \in 1 .. L - 1
                 PROVE  /\ todo'[stack'[i]] \subseteq graph'[stack'[i]]
                        /\ \A d \in graph'[stack'[i]] \ todo'[stack'[i]] :
                             colour'[d] = "black" \/ (i < L - 1 /\ d = stack'[i + 1])
    BY <1>5 DEF TakenAreFinished
  <2>2. stack'[i] = stack[i] /\ stack[i] \in Node /\ i \in 1 .. L
    BY <1>3, <1>5, <1>6
  <2>3. todo[stack[i]] \subseteq graph[stack[i]]
    BY <1>1, <2>2 DEF TakenAreFinished
  <2>4. ASSUME NEW d \in graph[stack[i]] \ todo[stack[i]]
        PROVE  colour'[d] = "black" \/ (i < L - 1 /\ d = stack'[i + 1])
    <3>1. d \in Node
      BY <1>1, <2>2, <2>4 DEF TypeOK
    <3>2. CASE colour[d] = "black"
      BY <1>4, <3>1, <3>2
    <3>3. CASE i < L /\ d = stack[i + 1]
      <4>1. CASE i + 1 = L
        BY <1>3, <1>4, <3>3, <4>1
      <4>2. CASE i + 1 # L
        BY <1>3, <1>5, <3>3, <4>2
      <4>3. QED
        BY <4>1, <4>2
    <3>4. QED
      BY <1>1, <2>2, <2>4, <3>2, <3>3 DEF TakenAreFinished
  <2>5. QED
    BY <1>2, <2>2, <2>3, <2>4
<1>12. FinishedIsAcyclic'
  <2>1. AcyclicOn(Black \cup {Top})
    BY <1>1, <1>3, <1>7, FinishingKeepsAcyclic
  <2>2. \A n \in Black \cup {Top} : graph[n] \subseteq Black \cup {Top}
    BY <1>1, <1>7 DEF FinishedIsAcyclic
  <2>3. QED
    BY <1>2, <1>8, <2>1, <2>2 DEF FinishedIsAcyclic, AcyclicOn
<1>13. \A n \in Node \ roots' : colour'[n] # "white"
  BY <1>2, <1>4 DEF SearchInvariant
<1>14. QED
  BY <1>2, <1>9, <1>10, <1>11, <1>12, <1>13 DEF SearchInvariant

\* The invariant of the search holds throughout every run of validate_acyclic.
THEOREM SearchIsInvariant == Spec => []SearchInvariant
<1>1. ASSUME SearchInvariant, Accept PROVE SearchInvariant'
  BY <1>1 DEF SearchInvariant, Accept, TypeOK, StackIsPath, TakenAreFinished,
     FinishedIsAcyclic, AcyclicOn, Black
<1>2. ASSUME SearchInvariant, UNCHANGED vars PROVE SearchInvariant'
  BY <1>2 DEF SearchInvariant, vars, TypeOK, StackIsPath, TakenAreFinished,
     FinishedIsAcyclic, Acyclic, AcyclicOn, Black
<1>3. SearchInvariant /\ [Next]_vars => SearchInvariant'
  BY <1>1, <1>2, NextRootSearch, VisitDependencySearch, ReturnSearch DEF Next
<1>4. QED
  BY <1>3, InitSearch, PTL DEF Spec

\* validate_acyclic accepts exactly the graphs without a cycle, whatever their
\* size and whatever order the nodes and the dependencies are visited in.
THEOREM SearchIsRight == Spec => []VerdictIsRight
<1>1. ASSUME SearchInvariant PROVE VerdictIsRight
  <2>1. ASSUME verdict = "acyclic" PROVE Acyclic
    <3>1. stack = <<>> /\ roots = {} /\ StackIsPath /\ TypeOK /\ FinishedIsAcyclic
      BY <1>1, <2>1 DEF SearchInvariant
    <3>2. \A n \in Node : colour[n] = "black"
      BY <1>1, <3>1 DEF SearchInvariant, StackIsPath, TypeOK
    <3>3. Black = Node
      BY <3>2 DEF Black
    <3>4. QED
      BY <3>1, <3>3 DEF FinishedIsAcyclic, Acyclic
  <2>2. QED
    BY <1>1, <2>1 DEF SearchInvariant, VerdictIsRight
<1>2. QED
  BY <1>1, SearchIsInvariant, PTL
=============================================================================
