-------------------- MODULE BlockPermutationEvaluator_proofs --------------------
(***************************************************************************)
(* Theorems about BlockPermutationEvaluator, for every set of graphs: the   *)
(* paths that the breadth-first searches find are shortest ones, and what   *)
(* is reported is exactly what the comparison of nodes allows.              *)
(***************************************************************************)
EXTENDS BlockPermutationEvaluator, FiniteSetTheorems, WellFoundedInduction, TLAPS

-----------------------------------------------------------------------------
(* Numbers and recursion *)

\* The least number of a set.
LEMMA LeastNumber ==
  ASSUME NEW T, T \subseteq Nat, T # {}
  PROVE  \E x \in T : \A y \in T : x <= y
<1>1. PICK x \in T : \A y \in T : ~(<<y, x>> \in OpToRel(<, Nat))
  BY NatLessThanWellFounded, WFMin
<1>2. \A y \in T : ~(y < x)
  BY <1>1 DEF OpToRel
<1> QED
  BY <1>2

(***************************************************************************)
(* Recursion from x to next[x], with a measure that falls: the function is  *)
(* out where it stops, and step gives its value elsewhere.                  *)
(***************************************************************************)
Descends(D, mu, stop, next) ==
  /\ mu \in [D -> Nat] /\ next \in [D -> D] /\ stop \subseteq D
  /\ \A x \in D : x \notin stop => mu[next[x]] < mu[x]
Steps(D, V, out, step) == out \in [D -> V] /\ step \in [D \X V -> V]
RecursiveAt(x, f, stop, next, out, step) ==
  f[x] = IF x \in stop THEN out[x] ELSE step[<<x, f[next[x]]>>]

LEMMA RecursionExists ==
  ASSUME NEW D, NEW V, NEW mu, NEW stop, NEW next, NEW out, NEW step,
         Descends(D, mu, stop, next), Steps(D, V, out, step)
  PROVE  \E f \in [D -> V] : \A x \in D : RecursiveAt(x, f, stop, next, out, step)
<1> DEFINE Below(k, f) == \A x \in D : mu[x] < k => RecursiveAt(x, f, stop, next, out, step)
           Failing == {k \in Nat : ~ \E f \in [D -> V] : Below(k, f)}
<1> USE DEF Descends, Steps
<1>1. \A x \in D : mu[x] \in Nat /\ next[x] \in D
  OBVIOUS
<1>2. Failing = {}
  <2>1. SUFFICES ASSUME Failing # {} PROVE FALSE
    OBVIOUS
  <2>2. PICK k \in Failing : \A j \in Failing : k <= j
    <3>1. Failing \subseteq Nat
      OBVIOUS
    <3> HIDE DEF Failing
    <3> QED  BY <2>1, <3>1, LeastNumber
  <2>3. k # 0
    <3>1. out \in [D -> V] /\ Below(0, out)
      BY <1>1
    <3> QED  BY <2>2, <3>1
  <2>4. k - 1 \in Nat /\ k - 1 \notin Failing
    BY <2>2, <2>3
  <2>5. PICK f \in [D -> V] : Below(k - 1, f)
    BY <2>4
  <2> DEFINE h == [x \in D |-> IF x \in stop THEN out[x] ELSE step[<<x, f[next[x]]>>]]
  <2>6. h \in [D -> V]
    <3>1. ASSUME NEW x \in D PROVE <<x, f[next[x]]>> \in D \X V
      BY <1>1
    <3> QED  BY <3>1
  <2>7. ASSUME NEW x \in D, mu[x] < k - 1 PROVE h[x] = f[x]
    BY <2>5, <2>7 DEF RecursiveAt
  <2>8. ASSUME NEW x \in D, mu[x] < k PROVE RecursiveAt(x, h, stop, next, out, step)
    <3>1. CASE x \in stop
      BY <3>1 DEF RecursiveAt
    <3>2. CASE x \notin stop
      <4>1. mu[next[x]] < k - 1
        <5>1. mu[next[x]] < mu[x] /\ mu[x] \in Nat /\ mu[next[x]] \in Nat /\ k \in Nat
          BY <1>1, <2>2, <3>2
        <5> QED  BY <5>1, <2>8
      <4>2. h[next[x]] = f[next[x]]
        BY <1>1, <2>7, <4>1
      <4>3. h[x] = step[<<x, f[next[x]]>>]
        BY <3>2
      <4> HIDE DEF h
      <4> QED  BY <3>2, <4>2, <4>3 DEF RecursiveAt
    <3> QED  BY <3>1, <3>2
  <2>9. h \in [D -> V] /\ Below(k, h)
    BY <2>6, <2>8
  <2> QED
    <3> HIDE DEF h
    <3> QED  BY <2>2, <2>9
<1>3. \A k \in Nat : \E f \in [D -> V] : Below(k, f)
  BY <1>2
<1> DEFINE F == [k \in Nat |-> CHOOSE f \in [D -> V] : Below(k, f)]
<1>4. \A k \in Nat : F[k] \in [D -> V] /\ Below(k, F[k])
  BY <1>3
<1> HIDE DEF F
<1> DEFINE Differing == {m \in Nat : \E k, l \in Nat : \E x \in D :
                           mu[x] = m /\ m < k /\ m < l /\ F[k][x] # F[l][x]}
<1>5. Differing = {}
  <2>1. SUFFICES ASSUME Differing # {} PROVE FALSE
    OBVIOUS
  <2>2. PICK m \in Differing : \A j \in Differing : m <= j
    <3>1. Differing \subseteq Nat
      OBVIOUS
    <3> HIDE DEF Differing
    <3> QED  BY <2>1, <3>1, LeastNumber
  <2>3. PICK k \in Nat, l \in Nat, x \in D : mu[x] = m /\ m < k /\ m < l /\ F[k][x] # F[l][x]
    BY <2>2
  <2>4. RecursiveAt(x, F[k], stop, next, out, step) /\ RecursiveAt(x, F[l], stop, next, out, step)
    BY <1>4, <2>3
  <2>5. x \notin stop /\ F[k][next[x]] # F[l][next[x]]
    BY <2>3, <2>4 DEF RecursiveAt
  <2>6. mu[next[x]] \in Nat /\ mu[next[x]] < m
    BY <1>1, <2>3, <2>5
  <2>7. mu[next[x]] < k /\ mu[next[x]] < l /\ next[x] \in D
    BY <1>1, <2>2, <2>3, <2>6
  <2>8. mu[next[x]] \in Differing
    BY <2>5, <2>6, <2>7
  <2> QED
    <3>1. m \in Nat
      BY <2>2
    <3> QED  BY <2>2, <2>6, <2>8, <3>1
<1> DEFINE f == [x \in D |-> F[mu[x] + 1][x]]
<1>6. f \in [D -> V]
  <2>1. ASSUME NEW x \in D PROVE F[mu[x] + 1][x] \in V
    <3>1. mu[x] + 1 \in Nat
      BY <1>1
    <3> QED  BY <1>4, <3>1
  <2> QED  BY <2>1
<1>7. ASSUME NEW x \in D PROVE RecursiveAt(x, f, stop, next, out, step)
  <2>1. mu[x] + 1 \in Nat /\ mu[x] < mu[x] + 1
    BY <1>1
  <2>2. RecursiveAt(x, F[mu[x] + 1], stop, next, out, step)
    BY <1>4, <2>1
  <2>3. f[x] = F[mu[x] + 1][x]
    OBVIOUS
  <2>4. x \notin stop => f[next[x]] = F[mu[x] + 1][next[x]]
    <3> SUFFICES ASSUME x \notin stop PROVE f[next[x]] = F[mu[x] + 1][next[x]]
      OBVIOUS
    <3>1. next[x] \in D /\ mu[next[x]] \in Nat /\ mu[next[x]] < mu[x] + 1 /\ mu[next[x]] < mu[next[x]] + 1
      BY <1>1, <2>1
    <3>2. f[next[x]] = F[mu[next[x]] + 1][next[x]]
      BY <3>1
    <3>3. mu[next[x]] + 1 \in Nat
      BY <3>1
    <3> HIDE DEF f
    <3> QED  BY <1>5, <2>1, <3>1, <3>2, <3>3
  <2> HIDE DEF f
  <2> QED  BY <2>2, <2>3, <2>4 DEF RecursiveAt
<1> QED
  BY <1>6, <1>7

\* What such a function yields.
Yields(D, V, stop, next, f) ==
  \A x \in D : IF x \in stop THEN f[x] \in V ELSE f[next[x]] \in V => f[x] \in V

LEMMA RecursionType ==
  ASSUME NEW D, NEW V, NEW mu, NEW stop, NEW next, NEW f,
         Descends(D, mu, stop, next), Yields(D, V, stop, next, f)
  PROVE  \A x \in D : f[x] \in V
<1> DEFINE Wrong == {mu[x] : x \in {y \in D : f[y] \notin V}}
<1>1. \A x \in D : mu[x] \in Nat /\ next[x] \in D
  BY DEF Descends
<1>2. SUFFICES ASSUME Wrong # {} PROVE FALSE
  OBVIOUS
<1>3. PICK k \in Wrong : \A j \in Wrong : k <= j
  <2>1. Wrong \subseteq Nat
    BY <1>1
  <2> HIDE DEF Wrong
  <2> QED  BY <1>2, <2>1, LeastNumber
<1>4. PICK x \in D : f[x] \notin V /\ mu[x] = k
  BY <1>3
<1>5. x \notin stop
  BY <1>4 DEF Yields
<1>6. f[next[x]] \in V
  <2>1. mu[next[x]] < k
    BY <1>4, <1>5 DEF Descends
  <2>2. ~(k <= mu[next[x]])
    BY <1>1, <1>4, <2>1
  <2> QED  BY <1>1, <1>3, <2>2
<1> QED
  BY <1>4, <1>5, <1>6 DEF Yields

-----------------------------------------------------------------------------
(* The invariants *)

Entries == [oNode : Nodes, eDirection : {"UP", "DOWN"}]
Paths == Seq(Entries) \ {<<>>}
TripletType == [oNode1 : Nodes, oNode2 : Nodes, oNode3 : Nodes, oPath : Seq(Entries)]

TypeOK ==
  /\ oCodeGraph \in CodeGraphs
  /\ DOMAIN aCandidates \subseteq Nodes
  /\ \A n \in DOMAIN aCandidates : aCandidates[n] \in Seq(TripletType)
  /\ left \subseteq DOMAIN aCandidates
  /\ oNode1 \in {NoNode} \cup (DOMAIN aCandidates \ left)
  /\ aQueue \in Seq(Paths) /\ aFlaggedNodes \subseteq Nodes
  /\ itTrip \in Nat \ {0} /\ late \in BOOLEAN
  /\ pc \in {"triplets", "search", "map", "done"}
  /\ pc = "triplets" => oNode1 = NoNode

\* What FindTriplets found stays: only paths are added.
TripletsInv ==
  \A n \in DOMAIN aCandidates :
    \A t \in ToSet(aCandidates[n]) : t.oNode1 = n /\ IsTriplet(t)

\* A path that leads to the node one.
PathTo(p, one) ==
  /\ p \in Seq(Entries) /\ p # <<>>
  /\ Last(p).oNode = one
  /\ \A i \in 1..dwDepth(p) :
       p[i].oNode \in IF p[i].eDirection = "DOWN" THEN OutputsOf(p[i + 1].oNode)
                      ELSE InputsOf(p[i + 1].oNode)

\* n is not reached in fewer than k steps.
Farther(n, one, k) == \A j \in Nat : j < k => n \notin Within(one, j)

Queued(k) == Head(aQueue[k]).oNode
Heads == {Queued(k) : k \in DOMAIN aQueue}

\* No path from its end is shorter.
ShortestTo(p, one) ==
  /\ PathTo(p, one)
  /\ Head(p).oNode \in Within(one, dwDepth(p))
  /\ Farther(Head(p).oNode, one, dwDepth(p))

\* The paths in the queue are shortest ones, to flagged nodes.
QueueSound ==
  \A k \in DOMAIN aQueue : ShortestTo(aQueue[k], oNode1) /\ Queued(k) \in aFlaggedNodes

\* No node is queued twice, and the lengths of the paths rise, by one at most.
QueueOrder ==
  \A j, k \in DOMAIN aQueue :
    /\ Queued(j) = Queued(k) => j = k
    /\ j < k => /\ dwDepth(aQueue[j]) <= dwDepth(aQueue[k])
                /\ dwDepth(aQueue[k]) <= dwDepth(aQueue[j]) + 1

\* The search has gone on from every flagged node that is not in the queue.
Closed ==
  /\ oNode1 \in aFlaggedNodes
  /\ \A n \in aFlaggedNodes \ Heads : Neighbours(n, oNode1) \subseteq aFlaggedNodes

Shortest(t) == ShortestTo(t.oPath, t.oNode1) /\ Head(t.oPath).oNode = t.oNode2

\* The triplets have the paths to the nodes that were visited.
PathsSoFar ==
  \A t \in ToSet(aCandidates[oNode1]) :
    IF t.oPath = NoPath THEN t.oNode2 \notin aFlaggedNodes \ Heads ELSE Shortest(t)

Untouched(n) == \A t \in ToSet(aCandidates[n]) : t.oPath = NoPath

Searched(n) ==
  \A t \in ToSet(aCandidates[n]) :
    IF t.oPath = NoPath THEN \A k \in Nat : t.oNode2 \notin Within(n, k) ELSE Shortest(t)

Searching == pc = "search" /\ oNode1 # NoNode

SearchInv ==
  /\ Searching => QueueSound /\ QueueOrder /\ Closed /\ PathsSoFar
  /\ oNode1 = NoNode /\ pc \in {"triplets", "search"} => aQueue = <<>>
  /\ pc = "search" =>
       \A n \in DOMAIN aCandidates :
         IF n \in left THEN Untouched(n) ELSE n # oNode1 => Searched(n)
  /\ pc = "map" \/ (pc = "done" /\ ~late) => \A n \in DOMAIN aCandidates : Searched(n)

-----------------------------------------------------------------------------

Stands(n, m) == m = n \/ Matches(n, m)

\* What is in the cache is what the comparison says.
CacheInv ==
  /\ \A pair \in oEvalCache.valid : Matches(pair[1], pair[2])
  /\ \A pair \in oEvalCache.invalid : ~Matches(pair[1], pair[2])

\* The nodes that are reached from the third block along the path of t.
Followed(t) ==
  LET follow[i \in 1..Len(t.oPath)] ==
        IF i = 1 THEN {t.oNode3}
        ELSE UNION {From(m, t.oPath[i - 1].eDirection) :
                      m \in StandingFor(t.oPath[i - 1].oNode, follow[i - 1])}
  IN follow

\* The nodes from which the rest of that path, k steps, leads to the second.
Ahead(t) ==
  LET end == Len(t.oPath)
      ahead[k \in 0..(end - 1)] ==
        IF k = 0 THEN {t.oNode2}
        ELSE {m \in Nodes : /\ Stands(t.oPath[end - k].oNode, m)
                            /\ From(m, t.oPath[end - k].eDirection) \cap ahead[k - 1] # {}}
  IN ahead

\* Each call has the rest of the path from its depth on.
CallOK(call, path, j) ==
  /\ Len(call.oParent) = Len(path) - j + 1
  /\ \A i \in 1..Len(call.oParent) : call.oParent[i] = path[i + j - 1]

CallType == [oParent : Seq(Entries), sources : SUBSET Nodes]

CallsOf(frames, t) ==
  /\ frames \in Seq(CallType) /\ Len(frames) <= Len(t.oPath)
  /\ \A j \in DOMAIN frames : /\ CallOK(frames[j], t.oPath, j)
                              /\ frames[j].sources \subseteq Followed(t)[j]

\* One of the calls has still to be made for a node that the path can be followed from.
Promising(frames, t) ==
  \E j \in DOMAIN frames : frames[j].sources \cap Ahead(t)[Len(t.oPath) - j] # {}

CallsInv ==
  calls # <<>> =>
    /\ pc = "map" /\ oNode1 # NoNode /\ itTrip <= Len(aCandidates[oNode1])
    /\ Followable(TripletAt) /\ CallsOf(calls, TripletAt)
    /\ ~late /\ Mirrored(TripletAt) => Promising(calls, TripletAt)

Refuted(t) == ~(Followable(t) /\ Mirrored(t))

\* The triplets that the loops have left behind are no match.
RefutedInv ==
  pc = "map" /\ ~late =>
    \A n \in DOMAIN aCandidates \ left :
      \A i \in DOMAIN aCandidates[n] : (n = oNode1 => i < itTrip) => Refuted(aCandidates[n][i])

\* The result is the path of t, which can be followed.
Reported(t) ==
  /\ ~Refuted(t) /\ IsTriplet(t)
  /\ lpOutput.oBFSPath = t.oPath /\ Mark(t.oNode1) /\ Mark(t.oNode2)

ResultInv ==
  /\ pc # "done" => lpOutput.eStatus = "NONE"
  /\ lpOutput.eStatus = "MATCH_FOUND" => \E t \in AllTriplets : Reported(t)
  /\ lpOutput.eStatus = "NO_MATCH_FOUND" /\ ~late => \A t \in AllTriplets : Refuted(t)

MapInv == CacheInv /\ CallsInv /\ RefutedInv /\ ResultInv

-----------------------------------------------------------------------------
(* Functions that are defined from a number to the next *)

\* Induction up to a bound.
LEMMA Climb ==
  ASSUME NEW N \in Nat, NEW T, 0 \in T, \A i \in 1..N : i - 1 \in T => i \in T
  PROVE  \A i \in 0..N : i \in T
<1> DEFINE Missing == (0..N) \ T
<1>1. SUFFICES ASSUME Missing # {} PROVE FALSE
  OBVIOUS
<1>2. PICK i \in Missing : \A j \in Missing : i <= j
  <2>1. Missing \subseteq Nat
    OBVIOUS
  <2> HIDE DEF Missing
  <2> QED  BY <1>1, <2>1, LeastNumber
<1>3. i \in 1..N /\ i - 1 \in 0..N /\ ~(i <= i - 1)
  BY <1>2
<1> QED
  BY <1>2, <1>3

Counting(N, V, a, step) == N \in Nat /\ a \in V /\ step \in [(0..N) \X V -> V]
Counted(f, N, V, a, step) ==
  /\ f \in [0..N -> V]
  /\ f[0] = a /\ \A i \in 1..N : f[i] = step[<<i, f[i - 1]>>]

LEMMA CountingRecursion ==
  ASSUME NEW N, NEW V, NEW a, NEW step, Counting(N, V, a, step)
  PROVE  \E f : Counted(f, N, V, a, step)
<1> USE DEF Counting, Counted
<1> DEFINE D == 0..N
           mu == [i \in D |-> i]
           next == [i \in D |-> IF i = 0 THEN 0 ELSE i - 1]
           out == [i \in D |-> a]
<1>1. Descends(D, mu, {0}, next) /\ Steps(D, V, out, step)
  BY DEF Descends, Steps
<1>2. PICK f \in [D -> V] : \A x \in D : RecursiveAt(x, f, {0}, next, out, step)
  <2> HIDE DEF D, mu, next, out
  <2> QED  BY <1>1, RecursionExists
<1>3. f[0] = a
  <2>1. 0 \in D /\ 0 \in {0} /\ out[0] = a
    OBVIOUS
  <2> HIDE DEF D, mu, next, out
  <2> QED  BY <1>2, <2>1, Zenon DEF RecursiveAt
<1>4. ASSUME NEW i \in 1..N PROVE f[i] = step[<<i, f[i - 1]>>]
  <2>1. next[i] = i - 1 /\ i \in D /\ i \notin {0}
    OBVIOUS
  <2> HIDE DEF next, D, out
  <2> QED  BY <1>2, <2>1 DEF RecursiveAt
<1> QED
  BY <1>2, <1>3, <1>4

-----------------------------------------------------------------------------
(* The graph *)

IsGraph == oCodeGraph \in CodeGraphs

LEMMA GraphFacts ==
  IsGraph => /\ Nodes \subseteq Nat /\ IsFiniteSet(Nodes)
             /\ \A n \in Nodes : oCodeGraph.inputs[n] \in Seq(Nodes)
             /\ \A n \in Nodes : InputsOf(n) \subseteq Nodes /\ OutputsOf(n) \subseteq Nodes
             /\ \A n \in Nodes : \A m \in InputsOf(n) : m < n
             /\ \A n \in Nodes : TypeOf(n) = "LOAD" => oCodeGraph.inputs[n] # <<>>
             /\ \A n \in Nodes : IsConstant(n) => oCodeGraph.value[n] \in 0..(Modulus - 1)
<1> SUFFICES ASSUME IsGraph
             PROVE  /\ Nodes \subseteq Nat /\ IsFiniteSet(Nodes)
                    /\ \A n \in Nodes : oCodeGraph.inputs[n] \in Seq(Nodes)
                    /\ \A n \in Nodes : InputsOf(n) \subseteq Nodes /\ OutputsOf(n) \subseteq Nodes
                    /\ \A n \in Nodes : \A m \in InputsOf(n) : m < n
                    /\ \A n \in Nodes : TypeOf(n) = "LOAD" => oCodeGraph.inputs[n] # <<>>
                    /\ \A n \in Nodes : IsConstant(n) => oCodeGraph.value[n] \in 0..(Modulus - 1)
  OBVIOUS
<1>1. Nodes \subseteq Nat /\ IsFiniteSet(Nodes)
  BY CodeGraphsAssumption DEF IsGraph, Nodes
<1>2. \A n \in Nodes : oCodeGraph.inputs[n] \in Seq(Nodes)
  BY CodeGraphsAssumption DEF IsGraph, Nodes
<1>3. \A n \in Nodes : InputsOf(n) \subseteq Nodes /\ OutputsOf(n) \subseteq Nodes
  BY <1>2 DEF InputsOf, OutputsOf, ToSet
<1>4. \A n \in Nodes : \A m \in InputsOf(n) : m < n
  BY CodeGraphsAssumption DEF IsGraph, Nodes, InputsOf, ToSet
<1>5. \A n \in Nodes : TypeOf(n) = "LOAD" => oCodeGraph.inputs[n] # <<>>
  BY CodeGraphsAssumption DEF IsGraph, Nodes, TypeOf
<1>6. \A n \in Nodes : IsConstant(n) => oCodeGraph.value[n] \in 0..(Modulus - 1)
  BY CodeGraphsAssumption DEF IsGraph, Nodes, TypeOf, IsConstant
<1> QED
  BY <1>1, <1>2, <1>3, <1>4, <1>5, <1>6

LEMMA ModType ==
  ASSUME NEW x \in Int, NEW m \in Nat \ {0}
  PROVE  x % m \in 0..(m - 1)
  OBVIOUS

\* The terms of a load are nodes.
LEMMA TermsType ==
  ASSUME IsGraph, NEW load \in Loads
  PROVE  Terms(load) \in Seq(Nodes)
<1>1. load \in Nodes /\ oCodeGraph.inputs[load] \in Seq(Nodes) /\ oCodeGraph.inputs[load] # <<>>
  BY GraphFacts DEF Loads
<1>2. Address(load) \in Nodes
  BY <1>1 DEF Address
<1> QED
  BY <1>2, GraphFacts DEF Terms

LEMMA OffsetType ==
  ASSUME IsGraph, NEW load \in Loads
  PROVE  Offset(load) \in 0..(Modulus - 1)
<1> DEFINE N == Len(Terms(load))
           V == 0..(Modulus - 1)
           sum[i \in 0..N] ==
             IF i = 0 THEN 0
             ELSE IF IsConstant(Terms(load)[i])
             THEN (sum[i - 1] + oCodeGraph.value[Terms(load)[i]]) % Modulus
             ELSE sum[i - 1]
           step == [p \in (0..N) \X V |->
                      IF p[1] # 0 /\ IsConstant(Terms(load)[p[1]])
                      THEN (p[2] + oCodeGraph.value[Terms(load)[p[1]]]) % Modulus
                      ELSE p[2]]
<1>1. N \in Nat /\ Modulus \in Nat \ {0} /\ 0 \in V
  BY TermsType, LimitsAssumption
<1>2. step \in [(0..N) \X V -> V]
  <2>1. ASSUME NEW p \in (0..N) \X V, p[1] # 0, IsConstant(Terms(load)[p[1]])
        PROVE  (p[2] + oCodeGraph.value[Terms(load)[p[1]]]) % Modulus \in V
    <3>1. Terms(load)[p[1]] \in Nodes
      BY <2>1, TermsType
    <3>2. oCodeGraph.value[Terms(load)[p[1]]] \in Nat /\ p[2] \in Nat
      BY <2>1, <3>1, <1>1, GraphFacts
    <3>3. p[2] + oCodeGraph.value[Terms(load)[p[1]]] \in Int
      BY <3>2
    <3> QED  BY <3>3, <1>1, ModType
  <2> QED  BY <2>1
<1>3. PICK f \in [0..N -> V] : f[0] = 0 /\ \A i \in 1..N : f[i] = step[<<i, f[i - 1]>>]
  <2> HIDE DEF N, V, step
  <2>1. Counting(N, V, 0, step)
    BY <1>1, <1>2 DEF Counting
  <2>2. \E f : Counted(f, N, V, 0, step)
    BY <2>1, CountingRecursion
  <2> QED  BY <2>2 DEF Counted
<1>4. f = [i \in 0..N |->
             IF i = 0 THEN 0
             ELSE IF IsConstant(Terms(load)[i])
             THEN (f[i - 1] + oCodeGraph.value[Terms(load)[i]]) % Modulus
             ELSE f[i - 1]]
  <2>1. ASSUME NEW i \in 1..N
        PROVE  f[i] = IF IsConstant(Terms(load)[i])
                      THEN (f[i - 1] + oCodeGraph.value[Terms(load)[i]]) % Modulus
                      ELSE f[i - 1]
    <3>1. i - 1 \in 0..N /\ f[i - 1] \in V /\ i \in 0..N /\ i # 0
      BY <1>1, <1>3
    <3>2. <<i, f[i - 1]>> \in (0..N) \X V
      BY <3>1
    <3> HIDE DEF N, V
    <3> QED  BY <1>3, <3>1, <3>2
  <2> HIDE DEF N, V, step
  <2> QED  BY <1>1, <1>3, <2>1
<1>5. sum = [i \in 0..N |->
             IF i = 0 THEN 0
             ELSE IF IsConstant(Terms(load)[i])
             THEN (sum[i - 1] + oCodeGraph.value[Terms(load)[i]]) % Modulus
             ELSE sum[i - 1]]
  BY <1>4, Zenon
<1>6. Offset(load) = sum[N]
  BY DEF Offset
<1> HIDE DEF sum
<1>7. sum[0] \in V
  BY <1>1, <1>5
<1>8. ASSUME NEW i \in 1..N, sum[i - 1] \in V PROVE sum[i] \in V
  <2>1. i \in 0..N /\ i # 0 /\ i - 1 \in 0..N
    BY <1>1
  <2>2. Terms(load)[i] \in Nodes
    BY <1>8, TermsType
  <2>3. sum[i] = IF IsConstant(Terms(load)[i])
             THEN (sum[i - 1] + oCodeGraph.value[Terms(load)[i]]) % Modulus
             ELSE sum[i - 1]
    BY <1>5, <2>1
  <2>4. IsConstant(Terms(load)[i]) => oCodeGraph.value[Terms(load)[i]] \in Nat
    BY <2>2, GraphFacts
  <2> QED  BY <1>1, <1>8, <2>3, <2>4
<1> DEFINE T == {i \in 0..N : sum[i] \in V}
<1>9. 0 \in T /\ \A i \in 1..N : i - 1 \in T => i \in T
  BY <1>1, <1>7, <1>8
<1>10. \A i \in 0..N : i \in T
  <2> HIDE DEF T, N
  <2> QED  BY <1>1, <1>9, Climb
<1> QED
  BY <1>1, <1>6, <1>10

-----------------------------------------------------------------------------
(* The loads of a base, in the order of their offsets *)

Sorts(f, S, key) ==
  /\ f \in [1..Cardinality(S) -> S]
  /\ \A i, j \in 1..Cardinality(S) : i # j => f[i] # f[j]
  /\ \A i, j \in 1..Cardinality(S) : i < j => key[f[i]] <= key[f[j]]

\* A finite set can be sorted.
LEMMA SortExists ==
  ASSUME NEW S, IsFiniteSet(S), NEW key, \A n \in S : key[n] \in Nat
  PROVE  \E f : Sorts(f, S, key)
<1> DEFINE Sizes == {Cardinality(U) : U \in {W \in SUBSET S : ~ \E f : Sorts(f, W, key)}}
<1>1. SUFFICES ASSUME Sizes # {} PROVE FALSE
  <2>1. S \in SUBSET S
    OBVIOUS
  <2> QED  BY <2>1
<1>2. PICK k \in Sizes : \A j \in Sizes : k <= j
  <2>1. Sizes \subseteq Nat
    BY FS_Subset, FS_CardinalityType
  <2> HIDE DEF Sizes
  <2> QED  BY <1>1, <2>1, LeastNumber
<1>3. PICK U \in SUBSET S : Cardinality(U) = k /\ ~ \E f : Sorts(f, U, key)
  BY <1>2
<1>4. IsFiniteSet(U) /\ k \in Nat
  BY <1>3, FS_Subset, FS_CardinalityType
<1>5. U # {}
  <2>1. Sorts(<<>>, {}, key)
    BY FS_EmptySet DEF Sorts
  <2> QED  BY <1>3, <2>1
<1>6. PICK x \in U : \A y \in U : key[x] <= key[y]
  <2> DEFINE Keys == {key[y] : y \in U}
  <2>1. Keys \subseteq Nat /\ Keys # {}
    BY <1>5
  <2>2. PICK v \in Keys : \A w \in Keys : v <= w
    <3> HIDE DEF Keys
    <3> QED  BY <2>1, LeastNumber
  <2> QED  BY <2>2
<1>7. Cardinality(U \ {x}) = k - 1 /\ k - 1 \in Nat
  <2>1. IsFiniteSet(U \ {x}) /\ Cardinality(U \ {x}) = Cardinality(U) - 1
    BY <1>4, <1>6, FS_RemoveElement
  <2>2. Cardinality(U \ {x}) \in Nat
    BY <2>1, FS_CardinalityType
  <2> QED  BY <1>3, <2>1, <2>2
<1>8. PICK f : Sorts(f, U \ {x}, key)
  <2>1. k - 1 \notin Sizes
    BY <1>2, <1>4
  <2> QED  BY <1>7, <2>1
<1> DEFINE g == [i \in 1..k |-> IF i = 1 THEN x ELSE f[i - 1]]
<1>9. ASSUME NEW i \in 2..k PROVE i - 1 \in 1..(k - 1) /\ f[i - 1] \in U \ {x} /\ g[i] = f[i - 1]
  <2>1. i - 1 \in 1..(k - 1) /\ i \in 1..k /\ i # 1
    BY <1>4
  <2> QED  BY <1>7, <1>8, <2>1 DEF Sorts
<1>10. \A i \in 1..k : i = 1 \/ i \in 2..k
  BY <1>4
<1>11. 1 \in 1..k => g[1] = x
  OBVIOUS
<1> HIDE DEF g
<1>12. g \in [1..k -> U]
  BY <1>6, <1>9, <1>10, <1>11 DEF g
<1>13. ASSUME NEW i \in 1..k, NEW j \in 1..k, i # j PROVE g[i] # g[j]
  <2>1. CASE i = 1
    BY <1>9, <1>10, <1>11, <1>13, <2>1
  <2>2. CASE j = 1
    BY <1>9, <1>10, <1>11, <1>13, <2>2
  <2>3. CASE i \in 2..k /\ j \in 2..k
    <3>1. i - 1 # j - 1
      BY <1>13, <2>3
    <3> QED  BY <1>7, <1>8, <1>9, <2>3, <3>1 DEF Sorts
  <2> QED  BY <1>10, <2>1, <2>2, <2>3
<1>14. ASSUME NEW i \in 1..k, NEW j \in 1..k, i < j PROVE key[g[i]] <= key[g[j]]
  <2>1. j \in 2..k
    BY <1>4, <1>14
  <2>2. CASE i = 1
    BY <1>6, <1>9, <1>11, <2>1, <2>2
  <2>3. CASE i \in 2..k
    <3>1. i - 1 < j - 1 /\ i - 1 \in 1..(k - 1) /\ j - 1 \in 1..(k - 1)
      BY <1>9, <1>14, <2>1, <2>3
    <3>2. key[f[i - 1]] <= key[f[j - 1]]
      <4>1. \A a, b \in 1..(k - 1) : a < b => key[f[a]] <= key[f[b]]
        BY <1>7, <1>8 DEF Sorts
      <4> QED  BY <3>1, <4>1
    <3> QED  BY <1>9, <2>1, <2>3, <3>2
  <2> QED  BY <1>10, <2>2, <2>3
<1>15. Sorts(g, U, key)
  BY <1>3, <1>12, <1>13, <1>14 DEF Sorts
<1> QED
  BY <1>3, <1>15

\* What SpecMap gives the loops.
OffsetsRise(loads, base) ==
  /\ loads \in Seq(Loads)
  /\ \A i \in 1..Len(loads) : Base(loads[i]) = base
  /\ \A i, j \in 1..Len(loads) : i < j => Offset(loads[i]) <= Offset(loads[j])

LEMMA SpecMapRises ==
  ASSUME IsGraph, NEW base
  PROVE  OffsetsRise(SpecMap(base), base)
<1> DEFINE S == {n \in Loads : Base(n) = base}
           key == [n \in S |-> Offset(n)]
           Rises(loads) == \A i, j \in 1..Len(loads) : i < j => Offset(loads[i]) <= Offset(loads[j])
<1>1. IsFiniteSet(S)
  <2>1. S \subseteq Nodes
    BY DEF Loads
  <2> QED  BY <2>1, GraphFacts, FS_Subset
<1>2. \A n \in S : key[n] \in Nat
  BY OffsetType, LimitsAssumption
<1>3. PICK f : Sorts(f, S, key)
  <2> HIDE DEF S, key
  <2> QED  BY <1>1, <1>2, SortExists
<1>4. Cardinality(S) \in Nat
  BY <1>1, FS_CardinalityType
<1>5. f \in SetToSeqs(S)
  BY <1>3 DEF Sorts, SetToSeqs
<1>6. Rises(f)
  <2>1. Len(f) = Cardinality(S)
    BY <1>3, <1>4 DEF Sorts
  <2>2. \A n \in S : key[n] = Offset(n)
    OBVIOUS
  <2>3. \A i \in 1..Len(f) : f[i] \in S
    BY <1>3, <2>1 DEF Sorts
  <2> HIDE DEF S, key
  <2> QED  BY <1>3, <2>1, <2>2, <2>3 DEF Sorts
<1>7. SpecMap(base) = CHOOSE loads \in SetToSeqs(S) : Rises(loads)
  BY DEF SpecMap
<1>8. SpecMap(base) \in SetToSeqs(S) /\ Rises(SpecMap(base))
  <2> HIDE DEF S, Rises
  <2> QED  BY <1>5, <1>6, <1>7
<1>9. SpecMap(base) \in [1..Cardinality(S) -> S]
  BY <1>8 DEF SetToSeqs
<1>10. SpecMap(base) \in Seq(S)
  <2> HIDE DEF S
  <2> QED  BY <1>4, <1>9
<1> QED
  BY <1>8, <1>10 DEF OffsetsRise

-----------------------------------------------------------------------------
(* The triplets that FindTriplets finds *)

FoundTriplets == {t \in TripletType : IsTriplet(t) /\ t.oPath = NoPath}

LEMMA ModBelow ==
  ASSUME NEW m \in Nat \ {0}, NEW x \in 0..(m - 1)
  PROVE  x % m = x
  OBVIOUS

LEMMA ModAbove ==
  ASSUME NEW m \in Nat \ {0}, NEW x \in m..(2 * m - 1)
  PROVE  x % m = x - m
  OBVIOUS

\* Loads in the order of their offsets give a triplet without a wrap.
LEMMA TripletHere ==
  ASSUME IsGraph, NEW loads, NEW base, OffsetsRise(loads, base),
         NEW one \in 1..Len(loads), NEW two \in 1..Len(loads), one < two, NEW diff,
         diff = (Offset(loads[two]) - Offset(loads[one])) % Modulus, ~TooClose(diff),
         NEW k \in Third(loads, two, diff)
  PROVE  Triplet(loads[one], loads[two], loads[k]) \in FoundTriplets
<1> DEFINE a == Offset(loads[one])
           b == Offset(loads[two])
           c == Offset(loads[k])
           t == Triplet(loads[one], loads[two], loads[k])
<1>1. k \in 1..Len(loads) /\ two < k /\ c = (b + diff) % Modulus
  BY DEF OffsetsRise, Third
<1>2. loads[one] \in Loads /\ loads[two] \in Loads /\ loads[k] \in Loads
  BY <1>1 DEF OffsetsRise
<1>3. Base(loads[one]) = base /\ Base(loads[two]) = base /\ Base(loads[k]) = base
  BY <1>1 DEF OffsetsRise
<1>4. a \in 0..(Modulus - 1) /\ b \in 0..(Modulus - 1) /\ c \in 0..(Modulus - 1)
  BY <1>2, OffsetType
<1>5. a <= b /\ b <= c
  BY <1>1 DEF OffsetsRise
<1>6. Modulus \in Nat \ {0} /\ MinDistance \in Nat \ {0}
  BY LimitsAssumption
<1> HIDE DEF a, b, c
<1>7. diff = b - a
  <2>1. b - a \in 0..(Modulus - 1)
    BY <1>4, <1>5, <1>6
  <2> QED  BY <1>6, <2>1, ModBelow DEF a, b
<1>8. diff >= MinDistance
  BY <1>4, <1>6, <1>7 DEF TooClose
<1>9. c - b = diff
  <2>1. CASE b + diff < Modulus
    <3>1. b + diff \in 0..(Modulus - 1)
      BY <1>4, <1>5, <1>6, <1>7, <2>1
    <3>2. c = b + diff
      BY <1>1, <1>6, <3>1, ModBelow
    <3> QED  BY <1>4, <1>7, <3>2
  <2>2. CASE ~(b + diff < Modulus)
    <3>1. b + diff \in Modulus..(2 * Modulus - 1)
      BY <1>4, <1>5, <1>6, <1>7, <2>2
    <3>2. c = b + diff - Modulus
      <4> DEFINE s == b + diff
      <4>1. c = s % Modulus /\ s \in Modulus..(2 * Modulus - 1)
        BY <1>1, <3>1
      <4> HIDE DEF s
      <4>2. c = s - Modulus
        BY <1>6, <4>1, ModAbove
      <4> QED  BY <1>4, <1>6, <1>7, <4>2 DEF s
    <3>3. c < b
      BY <1>4, <1>5, <1>6, <1>7, <3>2
    <3> QED  BY <1>4, <1>5, <3>3
  <2> QED  BY <2>1, <2>2
<1>10. t \in TripletType /\ t.oPath = NoPath
  <2>1. loads[one] \in Nodes /\ loads[two] \in Nodes /\ loads[k] \in Nodes
    BY <1>2 DEF Loads
  <2> QED  BY <2>1 DEF Triplet, TripletType, NoPath
<1>11. IsTriplet(t)
  <2>1. t.oNode1 = loads[one] /\ t.oNode2 = loads[two] /\ t.oNode3 = loads[k]
    BY DEF Triplet
  <2>2. b - a >= MinDistance /\ b - a = c - b
    BY <1>7, <1>8, <1>9
  <2> HIDE DEF t
  <2> QED  BY <1>2, <1>3, <2>1, <2>2 DEF IsTriplet, a, b, c
<1> QED
  BY <1>10, <1>11 DEF FoundTriplets

(***************************************************************************)
(* The loops over itOne and itTwo: where they go from a pair of loads, and  *)
(* the triplet that they find there.                                        *)
(***************************************************************************)
ScanDomain(loads) ==
  (1..(Len(loads) + 1)) \X (1..(Len(loads) + 2)) \X SUBSET (0..(Modulus - 1))
Diff(loads, x) == (Offset(loads[x[2]]) - Offset(loads[x[1]])) % Modulus
Passed(loads, x) == TooClose(Diff(loads, x)) \/ Diff(loads, x) \in x[3]
Thirds(loads, x) == Third(loads, x[2], Diff(loads, x))
ScanNext(loads, x) ==
  IF x[1] > Len(loads) THEN x
  ELSE IF x[2] > Len(loads) THEN <<x[1] + 1, x[1] + 2, x[3]>>
  ELSE IF Passed(loads, x) THEN <<x[1], x[2] + 1, x[3]>>
  ELSE IF Thirds(loads, x) = {} THEN <<x[1] + 1, x[1] + 2, x[3]>>
  ELSE <<x[1], x[2] + 1, x[3] \cup {Diff(loads, x)}>>
ScanFinds(loads, x) ==
  x[2] <= Len(loads) /\ ~Passed(loads, x) /\ Thirds(loads, x) # {}
ScanTriplet(loads, x) ==
  Triplet(loads[x[1]], loads[x[2]], loads[CHOOSE k \in Thirds(loads, x) : TRUE])
ScanValue(loads, x, v) ==
  IF ScanFinds(loads, x) THEN <<ScanTriplet(loads, x)>> \o v ELSE v
ScanMeasure(loads, x) ==
  (Len(loads) + 1 - x[1]) * (Len(loads) + 3) + (Len(loads) + 2 - x[2])

LEMMA ScanGoesOn ==
  ASSUME IsGraph, NEW loads \in Seq(Loads), NEW x \in ScanDomain(loads)
  PROVE  /\ ScanMeasure(loads, x) \in Nat
         /\ ScanNext(loads, x) \in ScanDomain(loads)
         /\ x[1] <= Len(loads) =>
              /\ ScanMeasure(loads, ScanNext(loads, x)) < ScanMeasure(loads, x)
              /\ x[1] < x[2] => ScanNext(loads, x)[1] < ScanNext(loads, x)[2]
<1> DEFINE L == Len(loads)
           next == ScanNext(loads, x)
<1>1. L \in Nat /\ x[1] \in 1..(L + 1) /\ x[2] \in 1..(L + 2) /\ x[3] \in SUBSET (0..(Modulus - 1))
  BY DEF ScanDomain
<1>2. x = <<x[1], x[2], x[3]>>
  BY DEF ScanDomain
<1>3. \A a \in Nat, b \in Nat : a * b \in Nat /\ (a > 0 => (a - 1) * b = a * b - b)
  OBVIOUS
<1>4. x[1] <= L /\ x[2] <= L => Diff(loads, x) \in 0..(Modulus - 1)
  <2>1. SUFFICES ASSUME x[1] <= L, x[2] <= L PROVE Diff(loads, x) \in 0..(Modulus - 1)
    OBVIOUS
  <2>2. loads[x[1]] \in Loads /\ loads[x[2]] \in Loads
    BY <1>1, <2>1
  <2>3. Offset(loads[x[1]]) \in Int /\ Offset(loads[x[2]]) \in Int
    BY <2>2, OffsetType
  <2>4. Offset(loads[x[2]]) - Offset(loads[x[1]]) \in Int
    BY <2>3
  <2> QED  BY <2>4, ModType, LimitsAssumption DEF Diff
<1>5. ScanMeasure(loads, x) \in Nat
  <2>1. L + 1 - x[1] \in Nat /\ L + 3 \in Nat /\ L + 2 - x[2] \in Nat
    BY <1>1
  <2>2. (L + 1 - x[1]) * (L + 3) \in Nat
    BY <1>3, <2>1
  <2> QED  BY <2>1, <2>2 DEF ScanMeasure
<1>6. CASE x[1] > L
  BY <1>1, <1>5, <1>6 DEF ScanNext
<1>7. CASE x[1] <= L /\ \E d \in SUBSET (0..(Modulus - 1)) :
             x[2] <= L /\ next = <<x[1], x[2] + 1, d>>
  <2>1. PICK d \in SUBSET (0..(Modulus - 1)) : x[2] <= L /\ next = <<x[1], x[2] + 1, d>>
    BY <1>7
  <2> HIDE DEF next
  <2>2. next \in ScanDomain(loads) /\ next[1] = x[1] /\ next[2] = x[2] + 1
    <3>1. x[2] + 1 \in 1..(L + 2)
      BY <1>1, <2>1
    <3>2. <<x[1], x[2] + 1, d>> \in (1..(L + 1)) \X (1..(L + 2)) \X SUBSET (0..(Modulus - 1))
      BY <1>1, <3>1
    <3> QED  BY <2>1, <3>2 DEF ScanDomain
  <2>3. \A p \in Nat : p + (L + 2 - (x[2] + 1)) < p + (L + 2 - x[2])
    BY <1>1
  <2>4. (L + 1 - x[1]) * (L + 3) \in Nat
    <3>1. L + 1 - x[1] \in Nat /\ L + 3 \in Nat
      BY <1>1
    <3> QED  BY <1>3, <3>1
  <2>5. ScanMeasure(loads, next) < ScanMeasure(loads, x)
    BY <2>2, <2>3, <2>4 DEF ScanMeasure
  <2> QED  BY <1>1, <1>5, <2>2, <2>5 DEF next
<1>8. CASE x[1] <= L /\ next = <<x[1] + 1, x[1] + 2, x[3]>>
  <2> HIDE DEF next
  <2>1. next \in ScanDomain(loads) /\ next[1] = x[1] + 1 /\ next[2] = x[1] + 2
    BY <1>1, <1>8 DEF ScanDomain
  <2>2. (L + 1 - (x[1] + 1)) * (L + 3) = (L + 1 - x[1]) * (L + 3) - (L + 3)
    <3>1. L + 1 - x[1] \in Nat /\ L + 1 - x[1] > 0 /\ L + 3 \in Nat /\ L + 1 - (x[1] + 1) = (L + 1 - x[1]) - 1
      <4>1. x[1] \in Nat /\ x[1] <= L
        BY <1>1, <1>8
      <4> HIDE DEF L
      <4> QED  BY <1>1, <4>1
    <3> QED  BY <1>3, <3>1
  <2>3. ASSUME NEW p \in Nat
        PROVE  p - (L + 3) + (L + 2 - (x[1] + 2)) < p + (L + 2 - x[2])
    <3>1. x[1] \in Nat /\ x[2] \in Nat /\ x[2] <= L + 2 /\ L \in Nat
      BY <1>1
    <3>2. \A a, b, l \in Nat : b <= l + 2 => p - (l + 3) + (l + 2 - (a + 2)) < p + (l + 2 - b)
      OBVIOUS
    <3> HIDE DEF L
    <3> QED  BY <3>1, <3>2
  <2>4. (L + 1 - x[1]) * (L + 3) \in Nat
    <3>1. L + 1 - x[1] \in Nat /\ L + 3 \in Nat
      BY <1>1
    <3> QED  BY <1>3, <3>1
  <2>5. ScanMeasure(loads, next) < ScanMeasure(loads, x)
    BY <2>1, <2>2, <2>3, <2>4 DEF ScanMeasure
  <2> QED  BY <1>1, <1>5, <2>1, <2>5 DEF next
<1>9. x[1] <= L => \/ next = <<x[1] + 1, x[1] + 2, x[3]>>
                   \/ \E d \in SUBSET (0..(Modulus - 1)) :
                        x[2] <= L /\ next = <<x[1], x[2] + 1, d>>
  <2>1. SUFFICES ASSUME x[1] <= L, x[2] <= L
                 PROVE  \/ next = <<x[1] + 1, x[1] + 2, x[3]>>
                        \/ \E d \in SUBSET (0..(Modulus - 1)) : next = <<x[1], x[2] + 1, d>>
    BY <1>1 DEF ScanNext
  <2>2. x[3] \cup {Diff(loads, x)} \in SUBSET (0..(Modulus - 1))
    BY <1>1, <1>4, <2>1
  <2> QED  BY <1>1, <2>1, <2>2 DEF ScanNext
<1> QED
  BY <1>1, <1>6, <1>7, <1>8, <1>9

\* Triplets yields triplets, without a path.
LEMMA TripletsFound ==
  ASSUME IsGraph, NEW loads, NEW base, OffsetsRise(loads, base)
  PROVE  Triplets(loads) \in Seq(FoundTriplets)
<1> DEFINE L == Len(loads)
           D == ScanDomain(loads)
           mu == [x \in D |-> ScanMeasure(loads, x)]
           stop == {x \in D : x[1] > L}
           next == [x \in D |-> ScanNext(loads, x)]
           V == Seq(TripletType)
           out == [x \in D |-> <<>>]
           step == [p \in D \X V |-> IF p[1] \in stop THEN <<>> ELSE ScanValue(loads, p[1], p[2])]
           C == {x \in D : x[1] < x[2]}
           W == Seq(FoundTriplets)
           Body(g, at) ==
             LET one == at[1]
                 two == at[2]
                 aDistances == at[3]
                 diff == (Offset(loads[two]) - Offset(loads[one])) % Modulus
                 three == Third(loads, two, diff)
             IN IF one > L THEN <<>>
                ELSE IF two > L THEN g[<<one + 1, one + 2, aDistances>>]
                ELSE IF TooClose(diff) \/ diff \in aDistances THEN g[<<one, two + 1, aDistances>>]
                ELSE IF three = {} THEN g[<<one + 1, one + 2, aDistances>>]
                ELSE <<Triplet(loads[one], loads[two], loads[CHOOSE k \in three : TRUE])>>
                     \o g[<<one, two + 1, aDistances \cup {diff}>>]
           scan[at \in (1..(L + 1)) \X (1..(L + 2)) \X SUBSET (0..(Modulus - 1))] == Body(scan, at)
<1>1. loads \in Seq(Loads) /\ L \in Nat
  BY DEF OffsetsRise
<1>2. Descends(D, mu, stop, next)
  <2>1. \A x \in D : x \notin stop => x[1] <= L
    BY <1>1 DEF ScanDomain
  <2>2. \A x \in D : mu[x] \in Nat /\ next[x] \in D
    BY <1>1, ScanGoesOn
  <2>3. ASSUME NEW x \in D, x \notin stop PROVE mu[next[x]] < mu[x]
    BY <1>1, <2>1, <2>2, <2>3, ScanGoesOn
  <2>4. mu \in [D -> Nat] /\ next \in [D -> D]
    BY <1>1, ScanGoesOn
  <2> QED  BY <2>3, <2>4 DEF Descends
<1>3. ASSUME NEW x \in D, x \notin stop, ScanFinds(loads, x)
      PROVE  /\ ScanTriplet(loads, x) \in TripletType
             /\ x \in C => ScanTriplet(loads, x) \in FoundTriplets
  <2> DEFINE k == CHOOSE k \in Thirds(loads, x) : TRUE
  <2>1. k \in Thirds(loads, x)
    BY <1>3 DEF ScanFinds
  <2> HIDE DEF k
  <2>2. x[1] \in 1..L /\ x[2] \in 1..L /\ k \in 1..L
    BY <1>1, <1>3, <2>1 DEF ScanDomain, ScanFinds, Thirds, Third
  <2>3. ScanTriplet(loads, x) = Triplet(loads[x[1]], loads[x[2]], loads[k])
    BY DEF ScanTriplet, k
  <2>4. loads[x[1]] \in Nodes /\ loads[x[2]] \in Nodes /\ loads[k] \in Nodes
    BY <1>1, <2>2 DEF Loads
  <2>5. ScanTriplet(loads, x) \in TripletType
    BY <2>3, <2>4 DEF Triplet, TripletType, NoPath
  <2>6. ASSUME x \in C PROVE ScanTriplet(loads, x) \in FoundTriplets
    <3>1. ~TooClose(Diff(loads, x))
      BY <1>3 DEF ScanFinds, Passed
    <3>2. x[1] < x[2]
      BY <2>6
    <3> QED  BY <2>1, <2>2, <2>3, <3>1, <3>2, TripletHere DEF Diff, Thirds
  <2> QED  BY <2>5, <2>6
<1>4. Steps(D, V, out, step)
  <2>1. ASSUME NEW x \in D, NEW v \in V, x \notin stop
        PROVE  ScanValue(loads, x, v) \in V
    BY <1>3, <2>1 DEF ScanValue
  <2>2. step \in [D \X V -> V]
    <3>1. ASSUME NEW p \in D \X V PROVE step[p] \in V
      BY <2>1
    <3> HIDE DEF D, V
    <3> QED  BY <3>1
  <2> QED  BY <2>2 DEF Steps
<1>6. PICK f \in [D -> V] : \A x \in D : RecursiveAt(x, f, stop, next, out, step)
  <2> HIDE DEF D, V, mu, stop, next, out, step
  <2> QED  BY <1>2, <1>4, RecursionExists
<1>7. \A x \in D : f[x] = IF x[1] > L THEN <<>> ELSE ScanValue(loads, x, f[ScanNext(loads, x)])
  <2>1. ASSUME NEW x \in D, x[1] > L PROVE f[x] = <<>>
    BY <1>6, <2>1 DEF RecursiveAt
  <2>2. ASSUME NEW x \in D, ~(x[1] > L) PROVE f[x] = ScanValue(loads, x, f[ScanNext(loads, x)])
    <3>1. ScanNext(loads, x) \in D
      BY <1>1, ScanGoesOn
    <3>2. <<x, f[ScanNext(loads, x)]>> \in D \X V
      BY <1>6, <3>1
    <3>3. x \notin stop /\ next[x] = ScanNext(loads, x)
      BY <2>2
    <3>4. f[x] = step[<<x, f[ScanNext(loads, x)]>>]
      BY <1>6, <3>3 DEF RecursiveAt
    <3> HIDE DEF D, V, stop
    <3> QED  BY <3>2, <3>3, <3>4
  <2> QED  BY <2>1, <2>2
<1>8. ASSUME NEW g, NEW x \in D
      PROVE  Body(g, x) = IF x[1] > L THEN <<>> ELSE ScanValue(loads, x, g[ScanNext(loads, x)])
  <2>1. Body(g, x) =
          IF x[1] > L THEN <<>>
          ELSE IF x[2] > L THEN g[<<x[1] + 1, x[1] + 2, x[3]>>]
          ELSE IF Passed(loads, x) THEN g[<<x[1], x[2] + 1, x[3]>>]
          ELSE IF Thirds(loads, x) = {} THEN g[<<x[1] + 1, x[1] + 2, x[3]>>]
          ELSE <<ScanTriplet(loads, x)>> \o g[<<x[1], x[2] + 1, x[3] \cup {Diff(loads, x)}>>]
    BY DEF ScanTriplet, Passed, Thirds, Diff
  <2>2. x[1] \in Nat /\ x[2] \in Nat
    BY DEF ScanDomain
  <2> HIDE DEF Body
  <2>3. x[2] <= L <=> ~(x[2] > L)
    BY <1>1, <2>2
  <2> QED  BY <2>1, <2>3 DEF ScanNext, ScanValue, ScanFinds
<1> HIDE DEF Body
<1>9. scan = [at \in (1..(L + 1)) \X (1..(L + 2)) \X SUBSET (0..(Modulus - 1)) |-> Body(scan, at)]
  <2>1. f = [at \in (1..(L + 1)) \X (1..(L + 2)) \X SUBSET (0..(Modulus - 1)) |-> Body(f, at)]
    BY <1>6, <1>7, <1>8 DEF ScanDomain
  <2> QED  BY <2>1, Zenon
<1>10. Triplets(loads) = IF L < 3 THEN <<>> ELSE scan[<<1, 2, {}>>]
  BY DEF Triplets, Body
<1> HIDE DEF scan
<1>11. \A x \in D : scan[x] = IF x[1] > L THEN <<>> ELSE ScanValue(loads, x, scan[ScanNext(loads, x)])
  BY <1>8, <1>9 DEF ScanDomain
<1> DEFINE muC == [x \in C |-> ScanMeasure(loads, x)]
           nextC == [x \in C |-> ScanNext(loads, x)]
           stopC == {x \in C : x[1] > L}
<1>12. Descends(C, muC, stopC, nextC)
  <2>1. \A x \in C : x \notin stopC => x[1] <= L
    BY <1>1 DEF ScanDomain
  <2>2. ASSUME NEW x \in C PROVE ScanNext(loads, x) \in C /\ ScanMeasure(loads, x) \in Nat
    <3>1. x[1] > L => ScanNext(loads, x) = x
      BY DEF ScanNext
    <3> QED  BY <1>1, <3>1, <2>1, ScanGoesOn
  <2>3. ASSUME NEW x \in C, x \notin stopC PROVE muC[nextC[x]] < muC[x]
    BY <1>1, <2>1, <2>2, <2>3, ScanGoesOn
  <2>4. muC \in [C -> Nat] /\ nextC \in [C -> C]
    BY <2>2
  <2> QED  BY <2>3, <2>4 DEF Descends
<1>13. Yields(C, W, stopC, nextC, scan)
  <2>1. ASSUME NEW x \in C, x \in stopC PROVE scan[x] \in W
    <3>1. scan[x] = <<>>
      BY <1>11, <2>1
    <3> QED  BY <3>1
  <2>2. ASSUME NEW x \in C, x \notin stopC, scan[nextC[x]] \in W PROVE scan[x] \in W
    <3>1. scan[x] = ScanValue(loads, x, scan[ScanNext(loads, x)])
      BY <1>11, <2>2
    <3>2. ScanFinds(loads, x) => ScanTriplet(loads, x) \in FoundTriplets
      BY <1>3, <2>2
    <3> QED  BY <2>2, <3>1, <3>2 DEF ScanValue
  <2> QED  BY <2>1, <2>2 DEF Yields
<1>14. \A x \in C : scan[x] \in W
  <2> HIDE DEF C, W, muC, stopC, nextC
  <2> QED  BY <1>12, <1>13, RecursionType
<1> QED
  <2>1. L >= 3 => <<1, 2, {}>> \in C
    BY <1>1 DEF ScanDomain
  <2> QED  BY <1>1, <1>10, <1>14, <2>1

LEMMA TripletsOfType ==
  ASSUME NEW S, NEW list \in Seq(S), NEW n
  PROVE  TripletsOf(list, n) \in Seq({t \in S : t.oNode1 = n})
<1> DEFINE N == Len(list)
           V == Seq({t \in S : t.oNode1 = n})
           Body(g, i) == IF i = 0 THEN <<>>
                         ELSE IF list[i].oNode1 = n THEN Append(g[i - 1], list[i]) ELSE g[i - 1]
           of[i \in 0..N] == Body(of, i)
           step == [p \in (0..N) \X V |->
                      IF p[1] # 0 /\ list[p[1]].oNode1 = n THEN Append(p[2], list[p[1]]) ELSE p[2]]
           mu == [i \in 0..N |-> i]
           next == [i \in 0..N |-> IF i = 0 THEN 0 ELSE i - 1]
<1>1. N \in Nat
  OBVIOUS
<1>2. Counting(N, V, <<>>, step)
  <2>1. ASSUME NEW p \in (0..N) \X V, p[1] # 0, list[p[1]].oNode1 = n
        PROVE  Append(p[2], list[p[1]]) \in V
    <3>1. list[p[1]] \in {t \in S : t.oNode1 = n}
      BY <2>1
    <3> QED  BY <3>1
  <2>2. step \in [(0..N) \X V -> V]
    BY <2>1
  <2> QED  BY <1>1, <2>2 DEF Counting
<1>3. PICK f : Counted(f, N, V, <<>>, step)
  <2> HIDE DEF N, V, step
  <2> QED  BY <1>2, CountingRecursion
<1>4. f = [i \in 0..N |-> Body(f, i)]
  <2>1. ASSUME NEW i \in 1..N PROVE f[i] = Body(f, i)
    <3>1. <<i, f[i - 1]>> \in (0..N) \X V
      <4>1. i \in 0..N /\ i - 1 \in 0..N
        BY <1>1
      <4>2. f \in [0..N -> V]
        BY <1>3 DEF Counted
      <4> HIDE DEF N, V
      <4> QED  BY <4>1, <4>2
    <3>2. f[i] = step[<<i, f[i - 1]>>]
      BY <1>3 DEF Counted
    <3> HIDE DEF N, V
    <3> QED  BY <3>1, <3>2
  <2>2. f[0] = Body(f, 0)
    BY <1>3 DEF Counted
  <2> HIDE DEF Body
  <2> QED  BY <1>1, <1>3, <2>1, <2>2 DEF Counted
<1>5. of = [i \in 0..N |-> Body(of, i)]
  <2> HIDE DEF Body
  <2> QED  BY <1>4, Zenon
<1>6. TripletsOf(list, n) = of[N]
  BY DEF TripletsOf
<1> HIDE DEF of
<1>7. Descends(0..N, mu, {0}, next)
  BY <1>1 DEF Descends
<1>8. Yields(0..N, V, {0}, next, of)
  <2>1. of[0] \in V
    BY <1>1, <1>5
  <2>2. ASSUME NEW i \in 1..N, of[i - 1] \in V PROVE of[i] \in V
    <3>1. of[i] = IF list[i].oNode1 = n THEN Append(of[i - 1], list[i]) ELSE of[i - 1]
      <4>1. i \in 0..N /\ i # 0
        BY <1>1
      <4>2. of[i] = Body(of, i)
        <5> HIDE DEF Body, N
        <5> QED  BY <1>5, <4>1
      <4> QED  BY <4>1, <4>2
    <3>2. list[i].oNode1 = n => list[i] \in {t \in S : t.oNode1 = n}
      OBVIOUS
    <3> QED  BY <2>2, <3>1, <3>2
  <2>3. \A i \in 0..N : i \notin {0} => i \in 1..N /\ next[i] = i - 1
    BY <1>1
  <2> HIDE DEF N, V, next
  <2> QED  BY <2>1, <2>2, <2>3 DEF Yields
<1>9. \A i \in 0..N : of[i] \in V
  <2> HIDE DEF N, V, mu, next
  <2> QED  BY <1>7, <1>8, RecursionType
<1> QED
  BY <1>1, <1>6, <1>9

\* What FindTriplets yields.
LEMMA CandidatesFound ==
  ASSUME IsGraph
  PROVE  /\ DOMAIN TripletsFrom \subseteq Nodes
         /\ \A n \in DOMAIN TripletsFrom :
              TripletsFrom[n] \in Seq({t \in FoundTriplets : t.oNode1 = n})
<1> DEFINE found == {Triplets(SpecMap(base)) : base \in {Base(n) : n \in Loads}}
           D == {t.oNode1 : t \in UNION {ToSet(list) : list \in found}}
           ListOf(n) == CHOOSE list \in found : \E t \in ToSet(list) : t.oNode1 = n
<1>1. \A list \in found : list \in Seq(FoundTriplets)
  BY SpecMapRises, TripletsFound
<1>2. TripletsFrom = [n \in D |-> TripletsOf(ListOf(n), n)]
  BY DEF TripletsFrom
<1> HIDE DEF found
<1>3. D \subseteq Nodes
  <2>1. ASSUME NEW list \in found, NEW t \in ToSet(list) PROVE t.oNode1 \in Nodes
    <3>1. t \in FoundTriplets
      BY <1>1 DEF ToSet
    <3> QED  BY <3>1 DEF FoundTriplets, TripletType
  <2> QED  BY <2>1
<1>4. ASSUME NEW n \in D PROVE ListOf(n) \in Seq(FoundTriplets)
  <2>1. \E list \in found : \E t \in ToSet(list) : t.oNode1 = n
    OBVIOUS
  <2>2. ListOf(n) \in found
    BY <2>1
  <2> QED  BY <1>1, <2>2
<1>5. ASSUME NEW n \in D PROVE TripletsOf(ListOf(n), n) \in Seq({t \in FoundTriplets : t.oNode1 = n})
  <2> HIDE DEF D, ListOf
  <2> QED  BY <1>4, TripletsOfType
<1> HIDE DEF D, ListOf
<1> QED
  BY <1>2, <1>3, <1>5

-----------------------------------------------------------------------------
(* What the search is made of *)

\* The neighbours that are reached from below.
Up(n) == IF n = oNode1 THEN {} ELSE InputsOf(n)

LEMMA NewInputsAre ==
  ASSUME IsGraph, NEW n \in Nodes
  PROVE  /\ NewInputs(n) \in Seq(Nodes)
         /\ ToSet(NewInputs(n)) = Up(n) \ aFlaggedNodes
         /\ \A i, j \in 1..Len(NewInputs(n)) : NewInputs(n)[i] = NewInputs(n)[j] => i = j
<1> DEFINE inputs == IF n = oNode1 THEN <<>> ELSE oCodeGraph.inputs[n]
           N == Len(inputs)
           V == Seq(Nodes)
           Body(g, i) == IF i = 0 THEN <<>>
                         ELSE IF inputs[i] \in aFlaggedNodes \cup ToSet(g[i - 1]) THEN g[i - 1]
                         ELSE Append(g[i - 1], inputs[i])
           new[i \in 0..N] == Body(new, i)
           step == [p \in (0..N) \X V |->
                      IF p[1] = 0 \/ inputs[p[1]] \in aFlaggedNodes \cup ToSet(p[2]) THEN p[2]
                      ELSE Append(p[2], inputs[p[1]])]
           Collected(s, i) ==
             /\ s \in Seq(Nodes)
             /\ ToSet(s) = {inputs[j] : j \in 1..i} \ aFlaggedNodes
             /\ \A j, k \in 1..Len(s) : s[j] = s[k] => j = k
<1>1. inputs \in Seq(Nodes) /\ N \in Nat /\ ToSet(inputs) = Up(n)
  BY GraphFacts DEF Up, InputsOf, ToSet
<1>2. NewInputs(n) = new[N]
  BY DEF NewInputs
<1> HIDE DEF inputs
<1>3. Counting(N, V, <<>>, step)
  <2>1. \A i \in 0..N : i # 0 => inputs[i] \in Nodes
    BY <1>1
  <2>2. step \in [(0..N) \X V -> V]
    BY <2>1
  <2> QED  BY <1>1, <2>2 DEF Counting
<1>4. PICK f : Counted(f, N, V, <<>>, step)
  <2> HIDE DEF N, V, step
  <2> QED  BY <1>3, CountingRecursion
<1>5. f = [i \in 0..N |-> Body(f, i)]
  <2>1. ASSUME NEW i \in 1..N PROVE f[i] = Body(f, i)
    <3>1. <<i, f[i - 1]>> \in (0..N) \X V /\ i # 0
      <4>1. i - 1 \in 0..N /\ i \in 0..N /\ i # 0
        BY <1>1
      <4> HIDE DEF N, V, step
      <4> QED  BY <1>4, <4>1 DEF Counted
    <3>2. f[i] = step[<<i, f[i - 1]>>]
      BY <1>4 DEF Counted
    <3> HIDE DEF N, V
    <3> QED  BY <3>1, <3>2
  <2>2. f[0] = Body(f, 0)
    BY <1>4 DEF Counted
  <2> HIDE DEF Body
  <2> QED  BY <1>1, <1>4, <2>1, <2>2 DEF Counted
<1>6. new = [i \in 0..N |-> Body(new, i)]
  <2> HIDE DEF Body, N
  <2> QED  BY <1>5, Zenon
<1> HIDE DEF new
<1>7. Collected(new[0], 0)
  <2>1. new[0] = <<>>
    BY <1>1, <1>6
  <2> QED  BY <2>1 DEF ToSet
<1>8. ASSUME NEW i \in 1..N, Collected(new[i - 1], i - 1) PROVE Collected(new[i], i)
  <2> DEFINE s == new[i - 1]
             m == inputs[i]
  <2>1. i \in 0..N /\ i # 0 /\ m \in Nodes /\ i \in Nat
    BY <1>1
  <2>2. new[i] = IF m \in aFlaggedNodes \cup ToSet(s) THEN s ELSE Append(s, m)
    <3>1. new[i] = Body(new, i)
      <4> HIDE DEF Body, N
      <4> QED  BY <1>6, <2>1
    <3> QED  BY <2>1, <3>1
  <2>3. {inputs[j] : j \in 1..i} = {inputs[j] : j \in 1..(i - 1)} \cup {m}
    <3>1. \A j : j \in 1..i <=> j \in 1..(i - 1) \/ j = i
      BY <2>1
    <3> QED  BY <3>1
  <2> HIDE DEF s, m
  <2>4. s \in Seq(Nodes) /\ ToSet(s) = {inputs[j] : j \in 1..(i - 1)} \ aFlaggedNodes
        /\ \A j, k \in 1..Len(s) : s[j] = s[k] => j = k
    BY <1>8 DEF s
  <2>5. CASE m \in aFlaggedNodes \cup ToSet(s)
    BY <2>2, <2>3, <2>4, <2>5
  <2>6. CASE m \notin aFlaggedNodes \cup ToSet(s)
    <3> DEFINE r == Append(s, m)
    <3>1. r \in Seq(Nodes) /\ Len(r) = Len(s) + 1 /\ r[Len(s) + 1] = m
          /\ \A j \in 1..Len(s) : r[j] = s[j]
      BY <2>1, <2>4
    <3> HIDE DEF r
    <3>2. \A j \in 1..Len(r) : j = Len(s) + 1 \/ j \in 1..Len(s)
      BY <2>4, <3>1
    <3>3. ToSet(r) = ToSet(s) \cup {m}
      BY <2>4, <3>1, <3>2 DEF ToSet
    <3>4. \A j \in 1..Len(s) : s[j] # m
      BY <2>4, <2>6 DEF ToSet
    <3>5. \A j, k \in 1..Len(r) : r[j] = r[k] => j = k
      BY <2>4, <3>1, <3>2, <3>4
    <3>6. ToSet(r) = {inputs[j] : j \in 1..i} \ aFlaggedNodes
      BY <2>3, <2>4, <2>6, <3>3
    <3> QED  BY <2>2, <2>6, <3>1, <3>5, <3>6 DEF r
  <2> QED  BY <2>5, <2>6
<1> DEFINE T == {i \in 0..N : Collected(new[i], i)}
<1>9. \A i \in 0..N : i \in T
  <2>1. 0 \in T /\ \A i \in 1..N : i - 1 \in T => i \in T
    BY <1>1, <1>7, <1>8
  <2> HIDE DEF T, N
  <2> QED  BY <1>1, <2>1, Climb
<1>10. Collected(new[N], N)
  <2>1. N \in 0..N
    BY <1>1
  <2> HIDE DEF N, Collected
  <2> QED  BY <1>9, <2>1
<1>11. {inputs[j] : j \in 1..N} = ToSet(inputs)
  BY <1>1 DEF ToSet
<1> QED
  BY <1>1, <1>2, <1>10, <1>11

\* f collects what is reached from one, step by step.
Spreads(f, one, k) ==
  /\ f[0] = {one}
  /\ \A i \in 1..k : f[i] = f[i - 1] \cup UNION {Neighbours(n, one) : n \in f[i - 1]}

LEMMA NeighboursType ==
  ASSUME IsGraph, NEW n \in Nodes, NEW one
  PROVE  Neighbours(n, one) \subseteq Nodes
  BY GraphFacts DEF Neighbours

LEMMA WithinSpreads ==
  ASSUME IsGraph, NEW one \in Nodes, NEW k \in Nat
  PROVE  \E f : Spreads(f, one, k) /\ f[k] = Within(one, k) /\ f[k] \subseteq Nodes
<1> DEFINE V == SUBSET Nodes
           Next1(s) == s \cup UNION {Neighbours(n, one) : n \in s}
           Body(g, i) == IF i = 0 THEN {one}
                         ELSE LET before == g[i - 1]
                              IN before \cup UNION {Neighbours(n, one) : n \in before}
           within[i \in 0..k] == Body(within, i)
           step == [p \in (0..k) \X V |-> Next1(p[2])]
<1>1. \A s \in V : Next1(s) \in V
  BY NeighboursType
<1> HIDE DEF Next1
<1>2. Counting(k, V, {one}, step)
  BY <1>1 DEF Counting
<1>3. PICK f : Counted(f, k, V, {one}, step)
  <2> HIDE DEF V, step
  <2> QED  BY <1>2, CountingRecursion
<1>4. \A i \in 1..k : f[i] = Next1(f[i - 1])
  <2>1. ASSUME NEW i \in 1..k PROVE f[i] = Next1(f[i - 1])
    <3>1. i - 1 \in 0..k /\ i \in 0..k
      OBVIOUS
    <3>2. f[i - 1] \in V /\ f[i] = step[<<i, f[i - 1]>>]
      BY <1>3, <3>1 DEF Counted
    <3>3. <<i, f[i - 1]>> \in (0..k) \X V
      BY <3>1, <3>2
    <3> HIDE DEF V
    <3> QED  BY <3>2, <3>3
  <2> QED  BY <2>1
<1>5. f = [i \in 0..k |-> Body(f, i)]
  <2>1. \A i \in 1..k : f[i] = Body(f, i)
    BY <1>4 DEF Next1
  <2>2. f[0] = Body(f, 0)
    BY <1>3 DEF Counted
  <2> HIDE DEF Body
  <2> QED  BY <1>3, <2>1, <2>2 DEF Counted
<1>6. within = [i \in 0..k |-> Body(within, i)]
  <2> HIDE DEF Body
  <2> QED  BY <1>5, Zenon
<1>7. Within(one, k) = within[k]
  BY DEF Within
<1> HIDE DEF within
<1>8. Spreads(within, one, k)
  BY <1>6 DEF Spreads
<1>9. within[0] \in V /\ \A i \in 1..k : within[i - 1] \in V => within[i] \in V
  BY <1>1, <1>8 DEF Spreads, Next1
<1>10. within[k] \in V
  <2> DEFINE T == {i \in 0..k : within[i] \in V}
  <2>1. 0 \in T /\ \A i \in 1..k : i - 1 \in T => i \in T
    BY <1>9
  <2>2. \A i \in 0..k : i \in T
    <3> HIDE DEF T
    <3> QED  BY <2>1, Climb
  <2> QED  BY <2>2
<1> QED
  BY <1>7, <1>8, <1>10

LEMMA SpreadsSame ==
  ASSUME NEW one, NEW k \in Nat, NEW f, NEW g, Spreads(f, one, k), Spreads(g, one, k)
  PROVE  \A i \in 0..k : f[i] = g[i]
<1> DEFINE T == {i \in 0..k : f[i] = g[i]}
<1>1. 0 \in T
  BY DEF Spreads
<1>2. ASSUME NEW i \in 1..k, i - 1 \in T PROVE i \in T
  <2> DEFINE Wider(s) == s \cup UNION {Neighbours(n, one) : n \in s}
  <2>1. f[i] = Wider(f[i - 1]) /\ g[i] = Wider(g[i - 1])
    BY DEF Spreads
  <2>2. f[i - 1] = g[i - 1] /\ i \in 0..k
    BY <1>2
  <2> HIDE DEF Wider
  <2> QED  BY <2>1, <2>2
<1>3. \A i \in 0..k : i \in T
  <2> HIDE DEF T
  <2> QED  BY <1>1, <1>2, Climb
<1> QED
  BY <1>3

\* What is within k + 1 steps is within k, or next to it.
WithinFacts ==
  \A one \in Nodes :
    /\ Within(one, 0) = {one}
    /\ \A k \in Nat : /\ Within(one, k) \subseteq Nodes
                      /\ Within(one, k + 1) = Within(one, k) \cup
                           UNION {Neighbours(n, one) : n \in Within(one, k)}

LEMMA WithinSteps ==
  IsGraph => WithinFacts
<1> SUFFICES ASSUME IsGraph, NEW one \in Nodes
             PROVE  /\ Within(one, 0) = {one}
                    /\ \A k \in Nat : /\ Within(one, k) \subseteq Nodes
                                      /\ Within(one, k + 1) = Within(one, k) \cup
                                           UNION {Neighbours(n, one) : n \in Within(one, k)}
  BY DEF WithinFacts
<1>1. Within(one, 0) = {one}
  <2>1. PICK f : Spreads(f, one, 0) /\ f[0] = Within(one, 0)
    BY WithinSpreads
  <2> QED  BY <2>1 DEF Spreads
<1>2. ASSUME NEW k \in Nat
      PROVE  Within(one, k + 1) = Within(one, k) \cup UNION {Neighbours(n, one) : n \in Within(one, k)}
  <2>1. PICK f : Spreads(f, one, k) /\ f[k] = Within(one, k)
    BY WithinSpreads
  <2>2. PICK g : Spreads(g, one, k + 1) /\ g[k + 1] = Within(one, k + 1)
    <3>1. k + 1 \in Nat
      OBVIOUS
    <3> QED  BY <3>1, WithinSpreads
  <2>3. Spreads(g, one, k)
    BY <2>2 DEF Spreads
  <2>4. f[k] = g[k]
    BY <2>1, <2>3, SpreadsSame
  <2>5. k + 1 \in 1..(k + 1) /\ (k + 1) - 1 = k
    OBVIOUS
  <2> QED  BY <2>1, <2>2, <2>4, <2>5 DEF Spreads
<1>3. \A k \in Nat : Within(one, k) \subseteq Nodes
  BY WithinSpreads
<1> QED
  BY <1>1, <1>2, <1>3

-----------------------------------------------------------------------------
(* Sequences *)

LEMMA HeadType ==
  ASSUME NEW S, NEW s \in Seq(S), s # <<>>
  PROVE  Head(s) \in S /\ Head(s) = s[1] /\ Tail(s) \in Seq(S) /\ Len(s) \in Nat \ {0}
  OBVIOUS

LEMMA TailIs ==
  ASSUME NEW S, NEW s \in Seq(S), NEW k \in Nat, Len(s) = k + 1
  PROVE  /\ Tail(s) \in Seq(S) /\ Len(Tail(s)) = k
         /\ \A i \in 1..k : Tail(s)[i] = s[i + 1] /\ i + 1 \in 1..Len(s)
<1>1. s # <<>>
  OBVIOUS
<1> QED
  BY <1>1

LEMMA ConcatIs ==
  ASSUME NEW S, NEW s \in Seq(S), NEW t \in Seq(S)
  PROVE  /\ s \o t \in Seq(S) /\ Len(s \o t) = Len(s) + Len(t)
         /\ \A i \in 1..Len(s) : (s \o t)[i] = s[i]
         /\ \A i \in 1..Len(t) : (s \o t)[Len(s) + i] = t[i]
  OBVIOUS

LEMMA ConsIs ==
  ASSUME NEW S, NEW e \in S, NEW s \in Seq(S)
  PROVE  /\ <<e>> \o s \in Seq(S) /\ <<e>> \o s # <<>>
         /\ Len(<<e>> \o s) = Len(s) + 1
         /\ Head(<<e>> \o s) = e /\ Tail(<<e>> \o s) = s
         /\ \A i \in 1..Len(s) : (<<e>> \o s)[i + 1] = s[i]
<1> DEFINE r == <<e>> \o s
<1>1. r \in Seq(S) /\ Len(r) = Len(s) + 1 /\ r[1] = e /\ r # <<>>
  OBVIOUS
<1>2. \A i \in 1..Len(s) : r[i + 1] = s[i]
  OBVIOUS
<1> HIDE DEF r
<1>3. Head(r) = e /\ Tail(r) \in Seq(S) /\ Len(Tail(r)) = Len(s)
  BY <1>1
<1>4. \A i \in 1..Len(s) : Tail(r)[i] = s[i]
  BY <1>1, <1>2
<1>5. Tail(r) = s
  BY <1>3, <1>4
<1> QED
  BY <1>1, <1>2, <1>3, <1>5 DEF r

\* An enumeration of a finite set has all of it.
LEMMA EnumerationHasAll ==
  ASSUME NEW S, IsFiniteSet(S), NEW s \in SetToSeqs(S)
  PROVE  s \in Seq(S) /\ ToSet(s) = S /\ \A i, j \in 1..Len(s) : s[i] = s[j] => i = j
<1> DEFINE c == Cardinality(S)
<1>1. c \in Nat
  BY FS_CardinalityType
<1>2. s \in [1..c -> S] /\ \A i, j \in 1..c : i # j => s[i] # s[j]
  BY DEF SetToSeqs
<1> HIDE DEF c
<1>3. s \in Injection(1..c, S)
  BY <1>2 DEF Injection, IsInjective
<1>4. Cardinality(1..c) = c
  BY <1>1, FS_Interval
<1>5. s \in Surjection(1..c, S)
  BY <1>3, <1>4, FS_Injection DEF c
<1>6. s \in Seq(S) /\ Len(s) = c
  BY <1>1, <1>2
<1>7. ToSet(s) = S
  BY <1>2, <1>5 DEF ToSet, Surjection
<1> QED
  BY <1>2, <1>6, <1>7

-----------------------------------------------------------------------------
(* Steps of the search *)

\* The graph is the same, and so are the blocks of the triplets.
SameBlocks ==
  /\ oCodeGraph' = oCodeGraph
  /\ DOMAIN aCandidates' = DOMAIN aCandidates
  /\ \A m \in DOMAIN aCandidates : SecondBlocks(m)' = SecondBlocks(m)

LEMMA NeighboursKept ==
  ASSUME SameBlocks, NEW one \in DOMAIN aCandidates, NEW n
  PROVE  Neighbours(n, one)' = Neighbours(n, one)
<1>1. oCodeGraph' = oCodeGraph /\ SecondBlocks(one)' = SecondBlocks(one)
  BY DEF SameBlocks
<1>2. Base(n)' = Base(n) /\ Base(one)' = Base(one)
  BY <1>1 DEF Base, Terms, TypeOf, Address, IsConstant
<1>3. TypeOf(n)' = TypeOf(n) /\ InputsOf(n)' = InputsOf(n) /\ OutputsOf(n)' = OutputsOf(n)
  BY <1>1 DEF TypeOf, InputsOf, OutputsOf, Nodes
<1> QED
  BY <1>1, <1>2, <1>3 DEF Neighbours, IsEnd

LEMMA WithinKept ==
  ASSUME IsGraph, IsGraph', SameBlocks, DOMAIN aCandidates \subseteq Nodes,
         NEW one \in DOMAIN aCandidates, NEW k \in Nat
  PROVE  Within(one, k)' = Within(one, k)
<1>1. WithinFacts
  BY WithinSteps
<1>2. WithinFacts'
  <2>1. IsGraph' => WithinFacts'
    BY WithinSteps, PTL
  <2> QED  BY <2>1
<1>3. one \in Nodes /\ one \in Nodes'
  BY DEF SameBlocks, Nodes
<1> DEFINE T == {i \in 0..k : Within(one, i)' = Within(one, i)}
<1>4. 0 \in T
  <2>1. Within(one, 0) = {one}
    BY <1>1, <1>3 DEF WithinFacts
  <2>2. Within(one, 0)' = {one}
    BY <1>2, <1>3 DEF WithinFacts
  <2> QED  BY <2>1, <2>2
<1>5. ASSUME NEW i \in 1..k, i - 1 \in T PROVE i \in T
  <2>1. i - 1 \in Nat /\ (i - 1) + 1 = i
    OBVIOUS
  <2>2. Within(one, i) = Within(one, i - 1) \cup UNION {Neighbours(n, one) : n \in Within(one, i - 1)}
    BY <1>1, <1>3, <2>1 DEF WithinFacts
  <2>3. Within(one, i)' = Within(one, i - 1)' \cup
                             UNION {Neighbours(n, one)' : n \in Within(one, i - 1)'}
    BY <1>2, <1>3, <2>1 DEF WithinFacts
  <2>4. Within(one, i - 1)' = Within(one, i - 1)
    BY <1>5
  <2>5. \A n : Neighbours(n, one)' = Neighbours(n, one)
    BY NeighboursKept
  <2>6. \A S : UNION {Neighbours(n, one)' : n \in S} = UNION {Neighbours(n, one) : n \in S}
    BY <2>5
  <2>7. Within(one, i)' = Within(one, i)
    BY <2>2, <2>3, <2>4, <2>6
  <2> QED  BY <2>7
<1>6. \A i \in 0..k : i \in T
  <2> HIDE DEF T
  <2> QED  BY <1>4, <1>5, Climb
<1> QED
  BY <1>6

\* What Visit visits.
oCurrent == Head(aQueue)
Visited == Head(oCurrent).oNode

\* What it puts into the queue.
Enqueues(paths) ==
  /\ paths \in Seq(Paths)
  /\ aQueue' = Tail(aQueue) \o paths
  /\ \A i \in DOMAIN paths :
       /\ Tail(paths[i]) = oCurrent
       /\ Head(paths[i]).oNode \in Neighbours(Visited, oNode1) \ aFlaggedNodes
       /\ Head(paths[i]).oNode \in IF Head(paths[i]).eDirection = "DOWN" THEN OutputsOf(Visited)
                                    ELSE InputsOf(Visited)
  /\ \A i, j \in DOMAIN paths : Head(paths[i]).oNode = Head(paths[j]).oNode => i = j
  /\ aFlaggedNodes' = aFlaggedNodes \cup {Head(paths[i]).oNode : i \in DOMAIN paths}
  /\ Neighbours(Visited, oNode1) \subseteq aFlaggedNodes'

LEMMA VisitEnqueues ==
  ASSUME TypeOK, Visit
  PROVE  \E paths : Enqueues(paths)
<1>1. oCurrent \in Paths /\ Tail(aQueue) \in Seq(Paths)
  BY DEF TypeOK, Visit, oCurrent
<1>2. Visited \in Nodes
  <2>1. oCurrent \in Seq(Entries) /\ oCurrent # <<>>
    BY <1>1 DEF Paths
  <2>2. Head(oCurrent) \in Entries
    BY <2>1, HeadType
  <2> QED  BY <2>2 DEF Visited, Entries
<1>3. IsGraph
  BY DEF TypeOK, IsGraph
<1>4. CASE IsEnd(Visited, oNode1)
  <2>1. aQueue' = Tail(aQueue) /\ aFlaggedNodes' = aFlaggedNodes
    BY <1>4 DEF Visit, oCurrent, Visited
  <2>2. aQueue' = Tail(aQueue) \o <<>>
    BY <1>1, <2>1
  <2>3. Neighbours(Visited, oNode1) = {}
    BY <1>4 DEF Neighbours
  <2>4. Enqueues(<<>>)
    BY <2>1, <2>2, <2>3 DEF Enqueues
  <2> QED  BY <2>4
<1>5. CASE ~IsEnd(Visited, oNode1)
  <2> DEFINE inputs == NewInputs(Visited)
             ups == Longer(oCurrent, inputs, "UP")
  <2>1. PICK outputs \in SetToSeqs(NewOutputs(Visited)) :
          /\ aQueue' = Enqueued(Tail(aQueue), Longer(oCurrent, inputs, "UP")
                                              \o Longer(oCurrent, outputs, "DOWN"))
          /\ aFlaggedNodes' = aFlaggedNodes \cup ToSet(inputs) \cup NewOutputs(Visited)
    BY <1>5 DEF Visit, oCurrent, Visited
  <2> DEFINE downs == Longer(oCurrent, outputs, "DOWN")
             paths == ups \o downs
  <2>2. /\ inputs \in Seq(Nodes) /\ ToSet(inputs) = Up(Visited) \ aFlaggedNodes
        /\ \A i, j \in 1..Len(inputs) : inputs[i] = inputs[j] => i = j
    BY <1>2, <1>3, NewInputsAre
  <2>3. NewOutputs(Visited) = OutputsOf(Visited) \ aFlaggedNodes /\ NewOutputs(Visited) \subseteq Nodes
    BY <1>2, <1>3, GraphFacts DEF NewOutputs
  <2>4. /\ outputs \in Seq(Nodes) /\ ToSet(outputs) = NewOutputs(Visited)
        /\ \A i, j \in 1..Len(outputs) : outputs[i] = outputs[j] => i = j
    <3>1. IsFiniteSet(NewOutputs(Visited))
      BY <1>3, <2>3, GraphFacts, FS_Subset
    <3>2. outputs \in Seq(NewOutputs(Visited))
      BY <3>1, EnumerationHasAll
    <3>3. outputs \in Seq(Nodes)
      BY <2>3, <3>2
    <3> QED  BY <3>1, <3>3, EnumerationHasAll
  <2>5. \A n \in Nodes : n \in Up(Visited) => n \notin OutputsOf(Visited)
    <3>1. \A n \in InputsOf(Visited) : n < Visited
      BY <1>2, <1>3, GraphFacts
    <3>2. \A n \in OutputsOf(Visited) : n \in Nodes /\ Visited < n
      BY <1>2, <1>3, GraphFacts DEF OutputsOf
    <3>3. \A n \in Nodes : n \in Nat
      BY <1>3, GraphFacts
    <3> QED  BY <1>2, <3>1, <3>2, <3>3 DEF Up
  <2>6. Neighbours(Visited, oNode1) = Up(Visited) \cup OutputsOf(Visited)
    BY <1>5 DEF Neighbours, Up
  <2> HIDE DEF inputs
  <2>7. ASSUME NEW nodes \in Seq(Nodes), NEW direction \in {"UP", "DOWN"}
        PROVE  /\ Longer(oCurrent, nodes, direction) \in Seq(Paths)
               /\ Len(Longer(oCurrent, nodes, direction)) = Len(nodes)
               /\ \A i \in 1..Len(nodes) :
                    LET path == Longer(oCurrent, nodes, direction)[i]
                    IN Head(path) = Entry(nodes[i], direction) /\ Tail(path) = oCurrent
    <3> DEFINE path(i) == <<Entry(nodes[i], direction)>> \o oCurrent
    <3>1. oCurrent \in Seq(Entries)
      BY <1>1 DEF Paths
    <3>2. ASSUME NEW i \in 1..Len(nodes)
          PROVE  path(i) \in Paths /\ Head(path(i)) = Entry(nodes[i], direction) /\ Tail(path(i)) = oCurrent
      <4>1. Entry(nodes[i], direction) \in Entries
        BY <2>7 DEF Entry, Entries
      <4> HIDE DEF Entries
      <4> QED  BY <3>1, <4>1, ConsIs DEF Paths
    <3>3. Longer(oCurrent, nodes, direction) = [i \in 1..Len(nodes) |-> path(i)]
      BY DEF Longer
    <3> HIDE DEF path
    <3> QED  BY <2>7, <3>2, <3>3
  <2>8. /\ ups \in Seq(Paths) /\ Len(ups) = Len(inputs)
        /\ \A i \in 1..Len(inputs) : Head(ups[i]) = Entry(inputs[i], "UP") /\ Tail(ups[i]) = oCurrent
    BY <2>2, <2>7
  <2>9. /\ downs \in Seq(Paths) /\ Len(downs) = Len(outputs)
        /\ \A i \in 1..Len(outputs) : Head(downs[i]) = Entry(outputs[i], "DOWN") /\ Tail(downs[i]) = oCurrent
    BY <2>4, <2>7
  <2> HIDE DEF ups, downs
  <2>10. /\ paths \in Seq(Paths) /\ Len(paths) = Len(ups) + Len(downs)
         /\ \A i \in 1..Len(ups) : paths[i] = ups[i]
         /\ \A i \in 1..Len(downs) : paths[Len(ups) + i] = downs[i]
    <3>1. ups \in Seq(Paths) /\ downs \in Seq(Paths)
      BY <2>8, <2>9
    <3> QED  BY <3>1, ConcatIs
  <2>11. Len(ups) \in Nat /\ Len(downs) \in Nat
    BY <2>8, <2>9
  <2> HIDE DEF paths
  <2>12. \A i \in DOMAIN paths : i \in 1..Len(ups) \/ \E k \in 1..Len(downs) : i = Len(ups) + k
    <3>1. ASSUME NEW i \in DOMAIN paths, i \notin 1..Len(ups)
          PROVE  i - Len(ups) \in 1..Len(downs) /\ i = Len(ups) + (i - Len(ups))
      BY <2>10, <2>11, <3>1
    <3> QED  BY <3>1
  <2>13. \A i \in 1..Len(ups) : i \in DOMAIN paths /\ paths[i] = ups[i]
    BY <2>10, <2>11
  <2>14. \A k \in 1..Len(downs) : Len(ups) + k \in DOMAIN paths /\ paths[Len(ups) + k] = downs[k]
    BY <2>10, <2>11
  <2> DEFINE m(i) == Head(paths[i]).oNode
  <2>15. \A i \in 1..Len(ups) :
           /\ m(i) = inputs[i] /\ Head(paths[i]).eDirection = "UP" /\ Tail(paths[i]) = oCurrent
           /\ m(i) \in Up(Visited) \ aFlaggedNodes
    <3>1. ASSUME NEW i \in 1..Len(ups)
          PROVE  /\ m(i) = inputs[i] /\ Head(paths[i]).eDirection = "UP" /\ Tail(paths[i]) = oCurrent
                 /\ inputs[i] \in Up(Visited) \ aFlaggedNodes
      <4>1. i \in 1..Len(inputs) /\ paths[i] = ups[i]
        BY <2>8, <2>13
      <4>2. Head(paths[i]) = Entry(inputs[i], "UP") /\ Tail(paths[i]) = oCurrent
        BY <2>8, <4>1
      <4>3. inputs[i] \in ToSet(inputs)
        BY <2>2, <4>1 DEF ToSet
      <4> QED  BY <2>2, <4>2, <4>3 DEF Entry
    <3> HIDE DEF m
    <3> QED  BY <3>1
  <2>16. \A k \in 1..Len(downs) :
           /\ m(Len(ups) + k) = outputs[k] /\ Head(paths[Len(ups) + k]).eDirection = "DOWN"
           /\ Tail(paths[Len(ups) + k]) = oCurrent
           /\ m(Len(ups) + k) \in OutputsOf(Visited) \ aFlaggedNodes
    <3>1. ASSUME NEW k \in 1..Len(downs), NEW i, i = Len(ups) + k
          PROVE  /\ m(i) = outputs[k] /\ Head(paths[i]).eDirection = "DOWN" /\ Tail(paths[i]) = oCurrent
                 /\ outputs[k] \in OutputsOf(Visited) \ aFlaggedNodes
      <4>1. k \in 1..Len(outputs) /\ paths[i] = downs[k]
        BY <2>9, <2>14, <3>1
      <4>2. Head(paths[i]) = Entry(outputs[k], "DOWN") /\ Tail(paths[i]) = oCurrent
        BY <2>9, <4>1
      <4>3. outputs[k] \in ToSet(outputs)
        BY <2>4, <4>1 DEF ToSet
      <4> QED  BY <2>3, <2>4, <4>2, <4>3 DEF Entry
    <3> HIDE DEF m
    <3> QED  BY <3>1
  <2>17. {m(i) : i \in DOMAIN paths} = ToSet(inputs) \cup NewOutputs(Visited)
    <3>1. \A i \in DOMAIN paths : m(i) \in ToSet(inputs) \cup NewOutputs(Visited)
      <4>1. \A i \in 1..Len(ups) : m(i) \in ToSet(inputs)
        BY <2>2, <2>15
      <4>2. ASSUME NEW i, NEW k \in 1..Len(downs), i = Len(ups) + k PROVE m(i) \in NewOutputs(Visited)
        BY <2>3, <2>16, <4>2
      <4> HIDE DEF m
      <4> QED  BY <2>12, <4>1, <4>2
    <3>2. ASSUME NEW n \in ToSet(inputs) PROVE \E i \in DOMAIN paths : m(i) = n
      <4>1. PICK i \in 1..Len(inputs) : inputs[i] = n
        BY <2>2 DEF ToSet
      <4>2. i \in 1..Len(ups)
        BY <2>8
      <4> HIDE DEF m
      <4> QED  BY <2>13, <2>15, <4>1, <4>2
    <3>3. ASSUME NEW n \in NewOutputs(Visited) PROVE \E i \in DOMAIN paths : m(i) = n
      <4>1. PICK i \in 1..Len(outputs) : outputs[i] = n
        BY <2>4 DEF ToSet
      <4>2. i \in 1..Len(downs)
        BY <2>9
      <4> HIDE DEF m
      <4> QED  BY <2>14, <2>16, <4>1, <4>2
    <3> HIDE DEF m
    <3> QED  BY <3>1, <3>2, <3>3
  <2>18. \A i, j \in DOMAIN paths : m(i) = m(j) => i = j
    <3>1. \A i, j \in 1..Len(ups) : m(i) = m(j) => i = j
      BY <2>2, <2>8, <2>15
    <3>2. \A k, l \in 1..Len(downs) : m(Len(ups) + k) = m(Len(ups) + l) => k = l
      BY <2>4, <2>9, <2>16
    <3>3. \A i \in 1..Len(ups), k \in 1..Len(downs) : m(i) # m(Len(ups) + k)
      <4>1. \A i \in 1..Len(ups) : m(i) \in Nodes /\ m(i) \in Up(Visited)
        BY <2>2, <2>8, <2>15
      <4>2. \A k \in 1..Len(downs) : m(Len(ups) + k) \in OutputsOf(Visited)
        BY <2>16
      <4> HIDE DEF m
      <4> QED  BY <2>5, <4>1, <4>2
    <3> HIDE DEF m
    <3> QED  BY <2>12, <3>1, <3>2, <3>3
  <2>19. \A i \in DOMAIN paths :
           /\ Tail(paths[i]) = oCurrent
           /\ m(i) \in Neighbours(Visited, oNode1) \ aFlaggedNodes
           /\ m(i) \in IF Head(paths[i]).eDirection = "DOWN" THEN OutputsOf(Visited)
                       ELSE InputsOf(Visited)
    <3>1. Up(Visited) \subseteq InputsOf(Visited)
      BY DEF Up
    <3>2. ASSUME NEW i \in 1..Len(ups)
          PROVE  /\ Tail(paths[i]) = oCurrent
                 /\ m(i) \in Neighbours(Visited, oNode1) \ aFlaggedNodes
                 /\ m(i) \in IF Head(paths[i]).eDirection = "DOWN" THEN OutputsOf(Visited)
                             ELSE InputsOf(Visited)
      BY <2>6, <2>15, <3>1
    <3>3. ASSUME NEW i, NEW k \in 1..Len(downs), i = Len(ups) + k
          PROVE  /\ Tail(paths[i]) = oCurrent
                 /\ m(i) \in Neighbours(Visited, oNode1) \ aFlaggedNodes
                 /\ m(i) \in IF Head(paths[i]).eDirection = "DOWN" THEN OutputsOf(Visited)
                             ELSE InputsOf(Visited)
      BY <2>6, <2>16, <3>3
    <3> HIDE DEF m
    <3> QED  BY <2>12, <3>2, <3>3
  <2>20. aQueue' = Tail(aQueue) \o paths
    BY <2>1 DEF Enqueued, paths, ups, downs
  <2>21. /\ aFlaggedNodes' = aFlaggedNodes \cup {m(i) : i \in DOMAIN paths}
         /\ Neighbours(Visited, oNode1) \subseteq aFlaggedNodes'
    <3>1. aFlaggedNodes' = aFlaggedNodes \cup ToSet(inputs) \cup NewOutputs(Visited)
      BY <2>1
    <3>2. aFlaggedNodes' = aFlaggedNodes \cup {m(i) : i \in DOMAIN paths}
      <4> HIDE DEF m
      <4> QED  BY <2>17, <3>1
    <3> QED  BY <2>2, <2>3, <2>6, <3>1, <3>2
  <2>22. Enqueues(paths)
    BY <2>10, <2>18, <2>19, <2>20, <2>21 DEF Enqueues
  <2> QED  BY <2>22
<1> QED
  BY <1>4, <1>5

LEMMA ReachedIs ==
  ASSUME NEW t \in TripletType, NEW path \in Seq(Entries)
  PROVE  /\ Reached(t, path) \in TripletType
         /\ Reached(t, path).oNode1 = t.oNode1
         /\ Reached(t, path).oNode2 = t.oNode2
         /\ Reached(t, path).oNode3 = t.oNode3
         /\ Reached(t, path).oPath = IF t.oNode2 = Head(path).oNode THEN path ELSE t.oPath
<1> HIDE DEF Entries
<1> QED
  BY DEF Reached, TripletType

\* Visit changes nothing of the triplets but their paths.
LEMMA VisitCandidates ==
  ASSUME TypeOK, Visit
  PROVE  /\ SameBlocks
         /\ \A m \in DOMAIN aCandidates :
              /\ aCandidates'[m] \in Seq(TripletType)
              /\ Len(aCandidates'[m]) = Len(aCandidates[m])
              /\ \A i \in 1..Len(aCandidates[m]) :
                   aCandidates'[m][i] = IF m = oNode1 THEN Reached(aCandidates[m][i], oCurrent)
                                        ELSE aCandidates[m][i]
<1>1. oCurrent \in Seq(Entries)
  BY DEF TypeOK, Visit, oCurrent, Paths
<1>2. /\ oCodeGraph' = oCodeGraph
      /\ aCandidates' = [m \in DOMAIN aCandidates |->
           IF m = oNode1 THEN [i \in DOMAIN aCandidates[m] |-> Reached(aCandidates[m][i], oCurrent)]
           ELSE aCandidates[m]]
  BY DEF Visit, oCurrent
<1>3. ASSUME NEW m \in DOMAIN aCandidates
      PROVE  /\ aCandidates'[m] \in Seq(TripletType)
             /\ Len(aCandidates'[m]) = Len(aCandidates[m])
             /\ \A i \in 1..Len(aCandidates[m]) :
                  aCandidates'[m][i] = IF m = oNode1 THEN Reached(aCandidates[m][i], oCurrent)
                                       ELSE aCandidates[m][i]
  <2>1. aCandidates[m] \in Seq(TripletType)
    BY DEF TypeOK
  <2>2. CASE m = oNode1
    <3> DEFINE s == [i \in DOMAIN aCandidates[m] |-> Reached(aCandidates[m][i], oCurrent)]
    <3>1. \A i \in 1..Len(aCandidates[m]) : Reached(aCandidates[m][i], oCurrent) \in TripletType
      BY <1>1, <2>1, ReachedIs
    <3>2. DOMAIN aCandidates[m] = 1..Len(aCandidates[m]) /\ Len(aCandidates[m]) \in Nat
      BY <2>1
    <3>3. s \in Seq(TripletType) /\ Len(s) = Len(aCandidates[m])
      BY <3>1, <3>2
    <3>4. aCandidates'[m] = s
      BY <1>2, <2>2
    <3> QED  BY <2>2, <3>2, <3>3, <3>4
  <2>3. CASE m # oNode1
    BY <1>2, <2>1, <2>3
  <2> QED  BY <2>2, <2>3
<1>4. DOMAIN aCandidates' = DOMAIN aCandidates
  BY <1>2
<1>5. ASSUME NEW m \in DOMAIN aCandidates PROVE SecondBlocks(m)' = SecondBlocks(m)
  <2>1. aCandidates[m] \in Seq(TripletType) /\ DOMAIN aCandidates'[m] = DOMAIN aCandidates[m]
    BY <1>3 DEF TypeOK
  <2>2. \A i \in DOMAIN aCandidates[m] : aCandidates'[m][i].oNode2 = aCandidates[m][i].oNode2
    BY <1>1, <1>3, <2>1, ReachedIs
  <2> QED  BY <2>1, <2>2 DEF SecondBlocks, ToSet
<1> QED
  BY <1>2, <1>3, <1>4, <1>5 DEF SameBlocks

LEMMA IsTripletKept ==
  ASSUME oCodeGraph' = oCodeGraph, NEW t, NEW u, IsTriplet(t),
         u.oNode1 = t.oNode1, u.oNode2 = t.oNode2, u.oNode3 = t.oNode3
  PROVE  IsTriplet(u)'
<1>1. \A n : Offset(n)' = Offset(n)
  BY DEF Offset, Terms, TypeOf, Address, IsConstant
<1>2. \A n : Base(n)' = Base(n)
  BY DEF Base, Terms, TypeOf, Address, IsConstant
<1>3. Loads' = Loads
  BY DEF Loads, Nodes, TypeOf
<1> QED
  BY <1>1, <1>2, <1>3 DEF IsTriplet

\* The types of the variables, in every state.
LEMMA TypeInit == Init => TypeOK /\ TripletsInv
<1> SUFFICES ASSUME Init PROVE TypeOK /\ TripletsInv
  OBVIOUS
<1>1. DOMAIN aCandidates = {}
  BY DEF Init
<1>2. TripletsInv
  BY <1>1 DEF TripletsInv
<1>3. aQueue \in Seq(Paths) /\ aFlaggedNodes \subseteq Nodes
  BY DEF Init
<1>4. \A n \in DOMAIN aCandidates : aCandidates[n] \in Seq(TripletType)
  BY <1>1
<1>5. /\ oCodeGraph \in CodeGraphs /\ left = {} /\ oNode1 = NoNode
      /\ itTrip = 1 /\ late = FALSE /\ pc = "triplets"
  BY DEF Init
<1>6. itTrip \in Nat \ {0}
  BY <1>5
<1> HIDE DEF Init
<1> QED
  BY <1>1, <1>2, <1>3, <1>4, <1>5, <1>6, Zenon DEF TypeOK

\* The actions that leave the graph, the candidates, and the search's queue alone.
LEMMA OtherSteps ==
  ASSUME Next, ~FindTriplets, ~Visit
  PROVE  oCodeGraph' = oCodeGraph /\ aCandidates' = aCandidates
  BY DEF Next, Step, BeginSearch, EndSearch, EndSearches, NextCandidate, SkipTriplet,
     MapTriplet, MatchFound, Follow, Refuse, ReturnFalse, NextTriplet, EndCandidate, NoMatchFound,
     TimeIsUp

LEMMA SameTypes ==
  ASSUME oCodeGraph' = oCodeGraph
  PROVE  Nodes' = Nodes /\ Paths' = Paths /\ TripletType' = TripletType /\ Entries' = Entries
  BY DEF Nodes, Paths, TripletType, Entries

LEMMA TypeStep ==
  ASSUME TypeOK, TripletsInv, [Next]_vars
  PROVE  TypeOK' /\ TripletsInv'
<1> DEFINE CandidatesType ==
             /\ oCodeGraph \in CodeGraphs
             /\ DOMAIN aCandidates \subseteq Nodes
             /\ \A n \in DOMAIN aCandidates : aCandidates[n] \in Seq(TripletType)
           OthersType ==
             /\ left \subseteq DOMAIN aCandidates
             /\ oNode1 \in {NoNode} \cup (DOMAIN aCandidates \ left)
             /\ aQueue \in Seq(Paths) /\ aFlaggedNodes \subseteq Nodes
             /\ itTrip \in Nat \ {0} /\ late \in BOOLEAN
             /\ pc \in {"triplets", "search", "map", "done"}
             /\ pc = "triplets" => oNode1 = NoNode
<1>1. ASSUME oCodeGraph' = oCodeGraph, aCandidates' = aCandidates
      PROVE  CandidatesType' /\ TripletsInv'
  <2>1. TripletsInv'
    BY <1>1, IsTripletKept DEF TripletsInv
  <2>2. CandidatesType'
    BY <1>1, SameTypes DEF TypeOK
  <2> QED  BY <2>1, <2>2
<1>2. ASSUME FindTriplets PROVE CandidatesType' /\ TripletsInv'
  <2>1. IsGraph /\ oCodeGraph' = oCodeGraph /\ aCandidates' = TripletsFrom
    BY <1>2 DEF FindTriplets, TypeOK, IsGraph
  <2>2. ASSUME NEW n \in DOMAIN aCandidates', NEW t \in ToSet(aCandidates'[n])
        PROVE  t \in FoundTriplets /\ t.oNode1 = n
    <3>1. aCandidates'[n] \in Seq({u \in FoundTriplets : u.oNode1 = n})
      BY <2>1, CandidatesFound
    <3> QED  BY <2>2, <3>1 DEF ToSet
  <2>3. TripletsInv'
    BY <2>1, <2>2, IsTripletKept DEF TripletsInv, FoundTriplets
  <2>4. CandidatesType'
    <3>1. DOMAIN aCandidates' \subseteq Nodes
      BY <2>1, CandidatesFound
    <3>2. ASSUME NEW n \in DOMAIN aCandidates' PROVE aCandidates'[n] \in Seq(TripletType)
      <4>1. aCandidates'[n] \in Seq({u \in FoundTriplets : u.oNode1 = n})
        BY <2>1, CandidatesFound
      <4>2. {u \in FoundTriplets : u.oNode1 = n} \subseteq TripletType
        BY DEF FoundTriplets
      <4> QED  BY <4>1, <4>2
    <3> QED  BY <2>1, <3>1, <3>2, SameTypes DEF IsGraph
  <2> QED  BY <2>3, <2>4
<1>3. ASSUME Visit PROVE CandidatesType' /\ TripletsInv'
  <2>1. oCodeGraph' = oCodeGraph /\ DOMAIN aCandidates' = DOMAIN aCandidates
    BY <1>3, VisitCandidates DEF SameBlocks
  <2>2. CandidatesType'
    BY <1>3, <2>1, VisitCandidates, SameTypes DEF TypeOK
  <2>3. ASSUME NEW n \in DOMAIN aCandidates', NEW u \in ToSet(aCandidates'[n])
        PROVE  u.oNode1 = n /\ IsTriplet(u)'
    <3>1. /\ aCandidates[n] \in Seq(TripletType)
          /\ aCandidates'[n] \in Seq(TripletType) /\ Len(aCandidates'[n]) = Len(aCandidates[n])
      BY <1>3, <2>1, VisitCandidates DEF TypeOK
    <3>2. PICK i \in 1..Len(aCandidates[n]) : u = aCandidates'[n][i]
      BY <2>3, <3>1 DEF ToSet
    <3> DEFINE t == aCandidates[n][i]
    <3>3. t \in TripletType /\ t \in ToSet(aCandidates[n])
      BY <3>1 DEF ToSet
    <3>4. u = t \/ u = Reached(t, oCurrent)
      BY <1>3, <2>1, <3>2, VisitCandidates
    <3> HIDE DEF t
    <3>5. oCurrent \in Seq(Entries)
      BY <1>3 DEF TypeOK, Visit, oCurrent, Paths
    <3>6. u.oNode1 = t.oNode1 /\ u.oNode2 = t.oNode2 /\ u.oNode3 = t.oNode3
      BY <3>3, <3>4, <3>5, ReachedIs
    <3>7. t.oNode1 = n /\ IsTriplet(t)
      BY <2>1, <3>3 DEF TripletsInv
    <3> QED  BY <2>1, <3>6, <3>7, IsTripletKept
  <2>4. TripletsInv'
    BY <2>3 DEF TripletsInv
  <2> QED  BY <2>2, <2>4
<1>4. CASE Next
  <2>1. CandidatesType' /\ TripletsInv'
    BY <1>1, <1>2, <1>3, <1>4, OtherSteps
  <2>2. OthersType'
    <3>1. oCodeGraph' = oCodeGraph
      BY <1>4, OtherSteps DEF FindTriplets, Visit
    <3>2. Nodes' = Nodes /\ Paths' = Paths
      BY <3>1, SameTypes
    <3>3. OthersType
      BY DEF TypeOK
    <3>4. CASE FindTriplets
      BY <3>2, <3>3, <3>4 DEF FindTriplets, searchVars, mapVars
    <3>5. CASE Visit
      <4>1. PICK paths : Enqueues(paths)
        BY <3>5, VisitEnqueues
      <4>2. Tail(aQueue) \in Seq(Paths)
        BY <3>3, <3>5 DEF Visit
      <4>3. aQueue' \in Seq(Paths)
        BY <4>1, <4>2, ConcatIs DEF Enqueues
      <4>4. oCurrent \in Paths
        BY <3>3, <3>5 DEF Visit, oCurrent
      <4>5. \A i \in DOMAIN paths : Head(paths[i]).oNode \in Nodes
        <5>1. ASSUME NEW i \in DOMAIN paths PROVE Head(paths[i]) \in Entries
          <6>1. paths[i] \in Seq(Entries) /\ paths[i] # <<>>
            BY <4>1 DEF Enqueues, Paths
          <6> QED  BY <6>1, HeadType
        <5> QED  BY <5>1 DEF Entries
      <4>6. aFlaggedNodes' \subseteq Nodes
        BY <3>3, <4>1, <4>5 DEF Enqueues
      <4>7. DOMAIN aCandidates' = DOMAIN aCandidates
        BY <3>5, VisitCandidates DEF SameBlocks
      <4>8. /\ left' = left /\ oNode1' = oNode1 /\ itTrip' = itTrip /\ late' = late /\ pc' = pc
        BY <3>5 DEF Visit, mapVars
      <4> QED  BY <3>2, <3>3, <4>3, <4>6, <4>7, <4>8
    <3>6. ASSUME NEW n \in Nodes, BeginSearch(n) PROVE OthersType'
      <4>1. <<<<Entry(n, "DOWN")>>>> \in Seq(Paths)
        <5>1. <<Entry(n, "DOWN")>> \in Paths
          BY DEF Paths, Entries, Entry
        <5> QED  BY <5>1
      <4> QED  BY <3>2, <3>3, <3>6, <4>1 DEF BeginSearch, mapVars
    <3>7. CASE EndSearch \/ EndSearches
      BY <3>2, <3>3, <3>7 DEF EndSearch, EndSearches, searchVars, mapVars
    <3>8. ASSUME NEW n \in Nodes, NextCandidate(n) PROVE OthersType'
      BY <3>2, <3>3, <3>8 DEF NextCandidate
    <3>9. CASE SkipTriplet \/ MapTriplet \/ ReturnFalse \/ NextTriplet \/ EndCandidate
      BY <3>2, <3>3, <3>9 DEF SkipTriplet, MapTriplet, ReturnFalse, NextTriplet, EndCandidate, searchVars, mapVars
    <3>10. ASSUME NEW oSource \in Nodes, MatchFound(oSource) \/ Follow(oSource) \/ Refuse(oSource)
           PROVE OthersType'
      BY <3>2, <3>3, <3>10 DEF MatchFound, Follow, Refuse, searchVars
    <3>11. CASE NoMatchFound \/ TimeIsUp
      BY <3>2, <3>3, <3>11 DEF NoMatchFound, TimeIsUp, searchVars, mapVars
    <3> HIDE DEF OthersType
    <3> QED  BY <1>4, <3>4, <3>5, <3>6, <3>7, <3>8, <3>9, <3>10, <3>11 DEF Next, Step
  <2> QED  BY <2>1, <2>2 DEF TypeOK
<1>5. CASE UNCHANGED vars
  <2>1. CandidatesType' /\ TripletsInv'
    BY <1>1, <1>5 DEF vars
  <2>2. oCodeGraph' = oCodeGraph
    BY <1>5 DEF vars
  <2>3. OthersType'
    BY <1>5, <2>2, SameTypes DEF vars, searchVars, mapVars, TypeOK
  <2> QED  BY <2>1, <2>3 DEF TypeOK
<1> QED
  BY <1>4, <1>5

-----------------------------------------------------------------------------
(* The search *)

LEMMA NoNodeIsNone == IsGraph => NoNode \notin Nodes
  BY GraphFacts DEF NoNode

\* What is kept of a path when only other paths are added.
LEMMA ShortestToKept ==
  ASSUME IsGraph, IsGraph', SameBlocks, DOMAIN aCandidates \subseteq Nodes,
         NEW one \in DOMAIN aCandidates, NEW p \in Seq(Entries), ShortestTo(p, one)
  PROVE  ShortestTo(p, one)'
<1>1. oCodeGraph' = oCodeGraph
  BY DEF SameBlocks
<1>2. p \in Seq(Entries)'
  BY <1>1, SameTypes
<1>3. \A n : OutputsOf(n)' = OutputsOf(n) /\ InputsOf(n)' = InputsOf(n)
  BY <1>1 DEF OutputsOf, InputsOf, Nodes
<1>4. PathTo(p, one)'
  BY <1>2, <1>3 DEF ShortestTo, PathTo, dwDepth
<1>5. p # <<>> /\ dwDepth(p) \in Nat
  BY DEF ShortestTo, PathTo, dwDepth
<1>6. \A k \in Nat : Within(one, k)' = Within(one, k)
  BY WithinKept
<1>7. Head(p).oNode \in Within(one, dwDepth(p))'
  BY <1>5, <1>6 DEF ShortestTo
<1>8. Farther(Head(p).oNode, one, dwDepth(p))'
  BY <1>5, <1>6 DEF ShortestTo, Farther
<1> QED
  BY <1>4, <1>7, <1>8 DEF ShortestTo, dwDepth

LEMMA ShortestKept ==
  ASSUME IsGraph, IsGraph', SameBlocks, DOMAIN aCandidates \subseteq Nodes,
         NEW t \in TripletType, t.oNode1 \in DOMAIN aCandidates, Shortest(t)
  PROVE  Shortest(t)'
<1>1. t.oPath \in Seq(Entries)
  <2> HIDE DEF Entries
  <2> QED  BY DEF TripletType
<1> QED
  BY <1>1, ShortestToKept DEF Shortest

LEMMA SearchedKept ==
  ASSUME TypeOK, IsGraph', SameBlocks, TripletsInv,
         NEW n \in DOMAIN aCandidates, aCandidates'[n] = aCandidates[n], Searched(n)
  PROVE  Searched(n)'
<1>1. IsGraph /\ DOMAIN aCandidates \subseteq Nodes /\ aCandidates[n] \in Seq(TripletType)
  BY DEF TypeOK, IsGraph
<1>2. ASSUME NEW t \in ToSet(aCandidates[n])
      PROVE  IF t.oPath = NoPath THEN \A k \in Nat : t.oNode2 \notin Within(n, k)' ELSE Shortest(t)'
  <2>1. t \in TripletType /\ t.oNode1 = n
    BY <1>1 DEF ToSet, TripletsInv
  <2>2. \A k \in Nat : Within(n, k)' = Within(n, k)
    BY <1>1, WithinKept
  <2>3. CASE t.oPath = NoPath
    BY <2>2, <2>3 DEF Searched
  <2>4. CASE t.oPath # NoPath
    BY <1>1, <2>1, <2>4, ShortestKept DEF Searched
  <2> QED  BY <2>3, <2>4
<1> QED
  BY <1>2 DEF Searched, ToSet

\* What is as near as all that is queued is flagged.
LEMMA Covered ==
  ASSUME IsGraph, oNode1 \in Nodes, QueueSound, Closed, aQueue \in Seq(Paths),
         NEW d \in Nat, \A k \in DOMAIN aQueue : d <= dwDepth(aQueue[k])
  PROVE  Within(oNode1, d) \subseteq aFlaggedNodes
<1> DEFINE T == {i \in 0..d : Within(oNode1, i) \subseteq aFlaggedNodes}
<1>1. 0 \in T
  BY WithinSteps DEF WithinFacts, Closed
<1>2. ASSUME NEW i \in 1..d, i - 1 \in T PROVE i \in T
  <2>1. i - 1 \in Nat /\ i - 1 < d /\ (i - 1) + 1 = i
    OBVIOUS
  <2>2. Within(oNode1, i) = Within(oNode1, i - 1)
                            \cup UNION {Neighbours(n, oNode1) : n \in Within(oNode1, i - 1)}
    BY <2>1, WithinSteps DEF WithinFacts
  <2>3. ASSUME NEW n \in Within(oNode1, i - 1) PROVE n \in aFlaggedNodes \ Heads
    <3>1. ASSUME NEW k \in DOMAIN aQueue, Queued(k) = n PROVE FALSE
      <4>1. dwDepth(aQueue[k]) \in Nat
        BY DEF dwDepth, Paths
      <4>2. i - 1 < dwDepth(aQueue[k])
        BY <2>1, <4>1
      <4> QED  BY <2>1, <2>3, <3>1, <4>2 DEF QueueSound, ShortestTo, Farther, Queued
    <3> QED  BY <1>2, <2>3, <3>1 DEF Heads
  <2>4. Within(oNode1, i) \subseteq aFlaggedNodes
    BY <2>2, <2>3, <1>2 DEF Closed
  <2> QED  BY <2>4
<1>3. \A i \in 0..d : i \in T
  <2> HIDE DEF T
  <2> QED  BY <1>1, <1>2, Climb
<1> QED
  BY <1>3

\* A shortest path, and a step from its end to a node that is not as near.
LEMMA Extended ==
  ASSUME IsGraph, NEW one \in Nodes, NEW p \in Paths, NEW q \in Paths, Tail(p) = q,
         ShortestTo(q, one),
         Head(p).oNode \in Neighbours(Head(q).oNode, one),
         Head(p).oNode \in IF Head(p).eDirection = "DOWN" THEN OutputsOf(Head(q).oNode)
                           ELSE InputsOf(Head(q).oNode),
         \A j \in 0..dwDepth(q) : Head(p).oNode \notin Within(one, j)
  PROVE  ShortestTo(p, one) /\ dwDepth(p) = dwDepth(q) + 1
<1>1. /\ p \in Seq(Entries) /\ q \in Seq(Entries) /\ p # <<>> /\ q # <<>>
  BY DEF Paths
<1> HIDE DEF Entries
<1>2. /\ Len(q) \in Nat \ {0} /\ Len(p) = Len(q) + 1
      /\ Head(p) = p[1] /\ Head(q) = q[1] /\ p[2] = q[1]
      /\ \A i \in 1..Len(q) : p[i + 1] = q[i]
  <2>1. Len(q) \in Nat \ {0} /\ Len(p) = Len(q) + 1
    BY <1>1
  <2>2. \A i \in 1..Len(q) : Tail(p)[i] = p[i + 1]
    BY <1>1, <2>1
  <2>3. Head(p) = p[1] /\ Head(q) = q[1] /\ 1 \in 1..Len(q)
    BY <1>1, <2>1
  <2> QED  BY <2>1, <2>2, <2>3
<1>3. dwDepth(q) \in Nat /\ dwDepth(p) = dwDepth(q) + 1
  BY <1>2 DEF dwDepth
<1>4. PathTo(p, one)
  <2>1. Last(p).oNode = one
    <3>1. Last(p) = p[Len(p)] /\ Last(q) = q[Len(q)] /\ p[Len(q) + 1] = q[Len(q)]
      BY <1>2 DEF Last
    <3> QED  BY <1>2, <3>1 DEF ShortestTo, PathTo
  <2>2. ASSUME NEW i \in 1..dwDepth(p)
        PROVE  p[i].oNode \in IF p[i].eDirection = "DOWN" THEN OutputsOf(p[i + 1].oNode)
                              ELSE InputsOf(p[i + 1].oNode)
    <3>1. CASE i = 1
      BY <1>2, <3>1
    <3>2. CASE i # 1
      <4>1. i - 1 \in 1..dwDepth(q) /\ i - 1 \in 1..Len(q) /\ i \in 1..Len(q)
            /\ (i - 1) + 1 = i
        BY <1>2, <1>3, <3>2 DEF dwDepth
      <4>2. p[i] = q[i - 1] /\ p[i + 1] = q[i]
        BY <1>2, <4>1
      <4> QED  BY <4>1, <4>2 DEF ShortestTo, PathTo
    <3> QED  BY <3>1, <3>2
  <2> QED  BY <1>1, <2>1, <2>2 DEF PathTo
<1>5. Head(p).oNode \in Within(one, dwDepth(p))
  <2>1. Head(q).oNode \in Within(one, dwDepth(q))
    BY DEF ShortestTo
  <2> QED  BY <1>3, <2>1, WithinSteps DEF WithinFacts
<1>6. Farther(Head(p).oNode, one, dwDepth(p))
  BY <1>3 DEF Farther
<1> QED
  BY <1>3, <1>4, <1>5, <1>6 DEF ShortestTo

\* The queue after Visit: the rest of it, and then the new paths.
LEMMA VisitQueue ==
  ASSUME TypeOK, IsGraph, oNode1 \in Nodes, aQueue # <<>>, QueueSound, QueueOrder, Closed,
         NEW paths, Enqueues(paths), NEW queue, queue = aQueue'
  PROVE  /\ \A k \in DOMAIN queue : /\ queue[k] \in Paths /\ ShortestTo(queue[k], oNode1)
                                    /\ Head(queue[k]).oNode \in aFlaggedNodes'
         /\ \A j, k \in DOMAIN queue :
              /\ Head(queue[j]).oNode = Head(queue[k]).oNode => j = k
              /\ j < k => /\ dwDepth(queue[j]) <= dwDepth(queue[k])
                          /\ dwDepth(queue[k]) <= dwDepth(queue[j]) + 1
         /\ aFlaggedNodes' \ {Head(queue[k]).oNode : k \in DOMAIN queue}
              \subseteq (aFlaggedNodes \ Heads) \cup {Visited}
<1> DEFINE N == Len(aQueue) - 1
           M == Len(paths)
           d == dwDepth(oCurrent)
<1>1. aQueue \in Seq(Paths) /\ paths \in Seq(Paths) /\ aFlaggedNodes \subseteq Nodes
  BY DEF TypeOK, Enqueues
<1> HIDE DEF Paths
<1>2. /\ N \in Nat /\ M \in Nat /\ Len(aQueue) = N + 1 /\ 1 \in DOMAIN aQueue
      /\ oCurrent = aQueue[1] /\ oCurrent \in Paths /\ DOMAIN paths = 1..M
      /\ DOMAIN aQueue = 1..(N + 1)
  BY <1>1 DEF oCurrent
<1>3. queue = Tail(aQueue) \o paths
  BY DEF Enqueues
<1>4. /\ queue \in Seq(Paths) /\ DOMAIN queue = 1..(N + M)
      /\ \A k \in 1..N : queue[k] = aQueue[k + 1]
      /\ \A i \in 1..M : queue[N + i] = paths[i]
  BY <1>1, <1>3
<1>5. \A p \in Paths : dwDepth(p) \in Nat
  BY DEF Paths, dwDepth
<1>6. \A k \in DOMAIN aQueue : /\ aQueue[k] \in Paths /\ ShortestTo(aQueue[k], oNode1)
                               /\ Head(aQueue[k]).oNode \in aFlaggedNodes
  BY <1>1 DEF QueueSound, Queued
<1>7. \A k \in DOMAIN aQueue : /\ d <= dwDepth(aQueue[k]) /\ dwDepth(aQueue[k]) <= d + 1
  <2>1. ASSUME NEW k \in DOMAIN aQueue
        PROVE  d <= dwDepth(aQueue[k]) /\ dwDepth(aQueue[k]) <= d + 1
    <3>1. dwDepth(aQueue[k]) \in Nat /\ d \in Nat
      BY <1>2, <1>5, <1>6
    <3>2. CASE k = 1
      BY <1>2, <3>1, <3>2
    <3>3. CASE k # 1
      <4>1. 1 < k
        BY <1>2, <3>3
      <4> QED  BY <1>2, <4>1 DEF QueueOrder
    <3> QED  BY <3>2, <3>3
  <2> QED  BY <2>1
<1>8. ASSUME NEW j \in 0..d PROVE Within(oNode1, j) \subseteq aFlaggedNodes
  <2>1. d \in Nat /\ j \in Nat
    BY <1>2, <1>5
  <2>2. \A k \in DOMAIN aQueue : j <= dwDepth(aQueue[k])
    <3>1. \A k \in DOMAIN aQueue : dwDepth(aQueue[k]) \in Nat
      BY <1>5, <1>6
    <3> HIDE DEF d
    <3> QED  BY <1>7, <2>1, <3>1
  <2> QED  BY <1>1, <2>1, <2>2, Covered
<1>9. ASSUME NEW i \in 1..M
      PROVE  /\ paths[i] \in Paths /\ ShortestTo(paths[i], oNode1) /\ dwDepth(paths[i]) = d + 1
             /\ Head(paths[i]).oNode \notin aFlaggedNodes
             /\ Head(paths[i]).oNode \in aFlaggedNodes'
  <2> DEFINE p == paths[i]
  <2>1. p \in Paths
    BY <1>1, <1>2
  <2>2. /\ Tail(p) = oCurrent /\ Head(p).oNode \in Neighbours(Visited, oNode1) \ aFlaggedNodes
        /\ Head(p).oNode \in IF Head(p).eDirection = "DOWN" THEN OutputsOf(Visited)
                              ELSE InputsOf(Visited)
        /\ Head(p).oNode \in aFlaggedNodes'
    BY <1>2 DEF Enqueues
  <2>3. \A j \in 0..dwDepth(oCurrent) : Head(p).oNode \notin Within(oNode1, j)
    BY <1>8, <2>2
  <2>4. ShortestTo(oCurrent, oNode1)
    BY <1>2, <1>6
  <2> HIDE DEF p
  <2>5. ShortestTo(p, oNode1) /\ dwDepth(p) = d + 1
    BY <1>2, <2>1, <2>2, <2>3, <2>4, Extended DEF Visited
  <2> QED  BY <2>1, <2>2, <2>5 DEF p
<1> HIDE DEF N, M, d
<1>10. ASSUME NEW k \in DOMAIN queue
       PROVE  \/ k \in 1..N /\ queue[k] = aQueue[k + 1] /\ k + 1 \in DOMAIN aQueue
              \/ k - N \in 1..M /\ queue[k] = paths[k - N] /\ k \notin 1..N
  <2>1. CASE k \in 1..N
    BY <1>2, <1>4, <2>1
  <2>2. CASE k \notin 1..N
    <3>1. k - N \in 1..M /\ N + (k - N) = k
      BY <1>2, <1>4, <2>2
    <3> QED  BY <1>4, <2>2, <3>1
  <2> QED  BY <2>1, <2>2
<1>11. ASSUME NEW k \in DOMAIN queue
       PROVE  /\ queue[k] \in Paths /\ ShortestTo(queue[k], oNode1)
              /\ Head(queue[k]).oNode \in aFlaggedNodes'
  <2>1. aFlaggedNodes \subseteq aFlaggedNodes'
    BY DEF Enqueues
  <2> QED  BY <1>6, <1>9, <1>10, <2>1
<1>12. ASSUME NEW j \in DOMAIN queue, NEW k \in DOMAIN queue,
              Head(queue[j]).oNode = Head(queue[k]).oNode
       PROVE  j = k
  <2>1. CASE j \in 1..N /\ k \in 1..N
    <3>1. j + 1 \in DOMAIN aQueue /\ k + 1 \in DOMAIN aQueue
          /\ Head(aQueue[j + 1]).oNode = Head(aQueue[k + 1]).oNode
      BY <1>2, <1>4, <1>12, <2>1
    <3>2. j + 1 = k + 1
      BY <3>1 DEF QueueOrder, Queued
    <3> QED  BY <1>2, <2>1, <3>2
  <2>2. CASE j \notin 1..N /\ k \notin 1..N
    <3>1. j - N \in 1..M /\ k - N \in 1..M /\ Head(paths[j - N]).oNode = Head(paths[k - N]).oNode
      BY <1>10, <1>12, <2>2
    <3>2. j - N = k - N
      BY <1>2, <3>1 DEF Enqueues
    <3> QED  BY <1>2, <1>4, <3>2
  <2>3. CASE ~(j \in 1..N <=> k \in 1..N)
    BY <1>6, <1>9, <1>10, <1>12, <2>3
  <2> QED  BY <2>1, <2>2, <2>3
<1>13. ASSUME NEW j \in DOMAIN queue, NEW k \in DOMAIN queue, j < k
       PROVE  /\ dwDepth(queue[j]) <= dwDepth(queue[k])
              /\ dwDepth(queue[k]) <= dwDepth(queue[j]) + 1
  <2>1. d \in Nat /\ dwDepth(queue[j]) \in Nat /\ dwDepth(queue[k]) \in Nat
    BY <1>2, <1>5, <1>11 DEF d
  <2>2. CASE k \in 1..N
    <3>1. j \in 1..N /\ j + 1 < k + 1 /\ j + 1 \in DOMAIN aQueue /\ k + 1 \in DOMAIN aQueue
      BY <1>2, <1>4, <1>13, <2>2
    <3> QED  BY <1>4, <2>2, <3>1 DEF QueueOrder
  <2>3. CASE k \notin 1..N
    <3>1. dwDepth(queue[k]) = d + 1
      BY <1>9, <1>10, <2>3
    <3>2. d <= dwDepth(queue[j]) /\ dwDepth(queue[j]) <= d + 1
      <4>1. CASE j \in 1..N
        BY <1>7, <1>10, <4>1
      <4>2. CASE j \notin 1..N
        BY <1>9, <1>10, <2>1, <4>2
      <4> QED  BY <4>1, <4>2
    <3> QED  BY <2>1, <3>1, <3>2
  <2> QED  BY <2>2, <2>3
<1>14. ASSUME NEW m \in aFlaggedNodes', \A k \in DOMAIN queue : Head(queue[k]).oNode # m, m # Visited
       PROVE  m \in aFlaggedNodes \ Heads
  <2>1. \A i \in 1..M : Head(paths[i]).oNode # m
    <3>1. ASSUME NEW i \in 1..M PROVE Head(paths[i]).oNode # m
      <4>1. N + i \in DOMAIN queue /\ queue[N + i] = paths[i]
        BY <1>2, <1>4
      <4> QED  BY <1>14, <4>1
    <3> QED  BY <3>1
  <2>2. m \in aFlaggedNodes
    BY <1>2, <2>1 DEF Enqueues
  <2>3. ASSUME NEW k \in DOMAIN aQueue PROVE Head(aQueue[k]).oNode # m
    <3>1. CASE k = 1
      BY <1>2, <1>14, <3>1 DEF Visited
    <3>2. CASE k # 1
      <4>1. k - 1 \in 1..N /\ (k - 1) + 1 = k /\ k - 1 \in DOMAIN queue
        BY <1>2, <1>4, <3>2
      <4>2. queue[k - 1] = aQueue[k]
        BY <1>4, <4>1
      <4> QED  BY <1>14, <4>1, <4>2
    <3> QED  BY <3>1, <3>2
  <2> QED  BY <2>2, <2>3 DEF Heads, Queued
<1> QED
  BY <1>11, <1>12, <1>13, <1>14

LEMMA VisitSearches ==
  ASSUME TypeOK, TripletsInv, SearchInv, Visit, TypeOK', TripletsInv'
  PROVE  SearchInv'
<1>1. IsGraph /\ IsGraph' /\ DOMAIN aCandidates \subseteq Nodes
  BY DEF TypeOK, IsGraph
<1>2. /\ pc = "search" /\ aQueue # <<>> /\ pc' = pc /\ oNode1' = oNode1 /\ left' = left
      /\ late' = late
  BY DEF Visit
<1>3. oNode1 \in DOMAIN aCandidates /\ oNode1 # NoNode /\ oNode1 \in Nodes
  BY <1>1, <1>2 DEF SearchInv, TypeOK
<1>4. QueueSound /\ QueueOrder /\ Closed /\ PathsSoFar
  BY <1>2, <1>3 DEF SearchInv, Searching
<1>5. PICK paths : Enqueues(paths)
  BY VisitEnqueues
<1>6. PICK queue : queue = aQueue'
  OBVIOUS
<1>7. PICK one : one = oNode1
  OBVIOUS
<1>8. /\ \A k \in DOMAIN queue : /\ queue[k] \in Paths /\ ShortestTo(queue[k], one)
                                 /\ Head(queue[k]).oNode \in aFlaggedNodes'
      /\ \A j, k \in DOMAIN queue :
           /\ Head(queue[j]).oNode = Head(queue[k]).oNode => j = k
           /\ j < k => /\ dwDepth(queue[j]) <= dwDepth(queue[k])
                       /\ dwDepth(queue[k]) <= dwDepth(queue[j]) + 1
      /\ aFlaggedNodes' \ {Head(queue[k]).oNode : k \in DOMAIN queue}
           \subseteq (aFlaggedNodes \ Heads) \cup {Visited}
  BY <1>1, <1>2, <1>3, <1>4, <1>5, <1>6, <1>7, VisitQueue
<1>9. SameBlocks
  BY VisitCandidates
<1>10. QueueSound'
  <2>1. ASSUME NEW k \in DOMAIN queue PROVE ShortestTo(queue[k], one)'
    <3>1. queue[k] \in Seq(Entries) /\ ShortestTo(queue[k], one)
      BY <1>8 DEF Paths
    <3> QED  BY <1>1, <1>3, <1>7, <1>9, <3>1, ShortestToKept
  <2>2. (\A k \in DOMAIN aQueue : ShortestTo(aQueue[k], oNode1))'
    BY <1>2, <1>6, <1>7, <2>1
  <2>3. (\A k \in DOMAIN aQueue : Queued(k) \in aFlaggedNodes)'
    BY <1>6, <1>8 DEF Queued
  <2> QED  BY <2>2, <2>3 DEF QueueSound
<1>11. QueueOrder'
  BY <1>6, <1>8 DEF QueueOrder, Queued, dwDepth
<1>12. Heads' = {Head(queue[k]).oNode : k \in DOMAIN queue}
  BY <1>6 DEF Heads, Queued
<1>13. Closed'
  <2>1. oNode1' \in aFlaggedNodes'
    BY <1>2, <1>4, <1>5 DEF Closed, Enqueues
  <2>2. ASSUME NEW n \in aFlaggedNodes' \ Heads' PROVE Neighbours(n, one)' \subseteq aFlaggedNodes'
    <3>1. Neighbours(n, one)' = Neighbours(n, one)
      BY <1>3, <1>7, <1>9, NeighboursKept
    <3>2. aFlaggedNodes \subseteq aFlaggedNodes' /\ Neighbours(Visited, one) \subseteq aFlaggedNodes'
      BY <1>5, <1>7 DEF Enqueues
    <3>3. n \in aFlaggedNodes \ Heads \/ n = Visited
      BY <1>8, <1>12, <2>2
    <3> QED  BY <1>4, <1>7, <3>1, <3>2, <3>3 DEF Closed
  <2>3. (\A n \in aFlaggedNodes \ Heads : Neighbours(n, oNode1) \subseteq aFlaggedNodes)'
    BY <1>2, <1>7, <2>2
  <2> QED  BY <2>1, <2>3 DEF Closed
<1>14. oCurrent \in Seq(Entries) /\ oCurrent # <<>> /\ ShortestTo(oCurrent, one)
  <2>1. aQueue \in Seq(Paths) /\ 1 \in DOMAIN aQueue /\ oCurrent = aQueue[1]
    BY <1>2 DEF TypeOK, oCurrent
  <2> QED  BY <1>4, <1>7, <2>1 DEF QueueSound, Paths
<1>15. /\ aCandidates[one] \in Seq(TripletType) /\ aCandidates'[one] \in Seq(TripletType)
       /\ Len(aCandidates'[one]) = Len(aCandidates[one])
       /\ \A i \in 1..Len(aCandidates[one]) :
            aCandidates'[one][i] = Reached(aCandidates[one][i], oCurrent)
  BY <1>3, <1>7, VisitCandidates DEF TypeOK
<1>16. ASSUME NEW t \in ToSet(aCandidates'[one])
       PROVE  IF t.oPath = NoPath THEN t.oNode2 \notin aFlaggedNodes' \ Heads' ELSE Shortest(t)'
  <2>1. PICK i \in 1..Len(aCandidates[one]) : t = Reached(aCandidates[one][i], oCurrent)
    BY <1>15 DEF ToSet
  <2>2. PICK u : u = aCandidates[one][i]
    OBVIOUS
  <2>3. u \in TripletType /\ u \in ToSet(aCandidates[one]) /\ u.oNode1 = one
    BY <1>3, <1>7, <1>15, <2>2 DEF ToSet, TripletsInv
  <2>4. /\ t \in TripletType /\ t.oNode1 = one /\ t.oNode2 = u.oNode2
        /\ t.oPath = IF u.oNode2 = Visited THEN oCurrent ELSE u.oPath
    BY <1>14, <2>1, <2>2, <2>3, ReachedIs DEF Visited
  <2>5. CASE u.oNode2 = Visited
    <3>1. Shortest(t)
      BY <1>14, <2>4, <2>5 DEF Shortest, Visited
    <3>2. Shortest(t)'
      BY <1>1, <1>3, <1>7, <1>9, <2>4, <3>1, ShortestKept
    <3>3. t.oPath # NoPath
      BY <1>14, <2>4, <2>5 DEF NoPath
    <3> QED  BY <3>2, <3>3
  <2>6. CASE u.oNode2 # Visited /\ u.oPath = NoPath
    <3>1. u.oNode2 \notin aFlaggedNodes \ Heads
      BY <1>4, <1>7, <2>3, <2>6 DEF PathsSoFar
    <3> QED  BY <1>8, <1>12, <2>4, <2>6, <3>1
  <2>7. CASE u.oNode2 # Visited /\ u.oPath # NoPath
    <3>1. Shortest(u)
      BY <1>4, <1>7, <2>3, <2>7 DEF PathsSoFar
    <3>2. Shortest(t)
      BY <2>3, <2>4, <2>7, <3>1 DEF Shortest
    <3>3. Shortest(t)'
      BY <1>1, <1>3, <1>7, <1>9, <2>4, <3>2, ShortestKept
    <3> QED  BY <2>4, <2>7, <3>3
  <2> QED  BY <2>5, <2>6, <2>7
<1>17. PathsSoFar'
  <2>1. (\A t \in ToSet(aCandidates[oNode1]) :
           IF t.oPath = NoPath THEN t.oNode2 \notin aFlaggedNodes \ Heads ELSE Shortest(t))'
    BY <1>2, <1>7, <1>16
  <2> QED  BY <2>1 DEF PathsSoFar
<1>18. ASSUME NEW n \in DOMAIN aCandidates', n # one
       PROVE  n \in DOMAIN aCandidates /\ aCandidates'[n] = aCandidates[n]
  <2>1. n \in DOMAIN aCandidates
    BY <1>9 DEF SameBlocks
  <2>2. aCandidates'[n] \in Seq(TripletType) /\ aCandidates[n] \in Seq(TripletType)
        /\ Len(aCandidates'[n]) = Len(aCandidates[n])
        /\ \A i \in 1..Len(aCandidates[n]) : aCandidates'[n][i] = aCandidates[n][i]
    BY <1>7, <1>18, <2>1, VisitCandidates DEF TypeOK
  <2> HIDE DEF TripletType
  <2> QED  BY <2>1, <2>2
<1>19. ASSUME NEW n \in DOMAIN aCandidates'
       PROVE  IF n \in left' THEN Untouched(n)' ELSE n # oNode1' => Searched(n)'
  <2>1. CASE n \in left'
    <3>1. n # one
      BY <1>2, <1>3, <1>7, <2>1 DEF TypeOK
    <3> QED  BY <1>2, <1>18, <2>1, <3>1 DEF SearchInv, Untouched
  <2>2. CASE n \notin left' /\ n # oNode1'
    <3>1. n \in DOMAIN aCandidates /\ aCandidates'[n] = aCandidates[n] /\ Searched(n)
      BY <1>2, <1>7, <1>18, <2>2 DEF SearchInv
    <3> QED  BY <1>1, <1>9, <2>2, <3>1, SearchedKept
  <2> QED  BY <2>1, <2>2
<1> QED
  BY <1>2, <1>3, <1>10, <1>11, <1>13, <1>17, <1>19 DEF SearchInv, Searching

LEMMA SearchInit == Init => SearchInv
  BY DEF Init, SearchInv, Searching

\* A search that is over has been to whatever is reached.
LEMMA SearchEnds ==
  ASSUME TypeOK, SearchInv, pc = "search", oNode1 # NoNode, aQueue = <<>>
  PROVE  Searched(oNode1)
<1>1. IsGraph /\ oNode1 \in Nodes /\ QueueSound /\ Closed /\ PathsSoFar
  BY DEF TypeOK, SearchInv, Searching, IsGraph
<1>2. DOMAIN aQueue = {} /\ aQueue \in Seq(Paths)
  BY DEF TypeOK
<1>3. Heads = {}
  BY <1>2 DEF Heads
<1>4. \A k \in Nat : Within(oNode1, k) \subseteq aFlaggedNodes
  BY <1>1, <1>2, Covered
<1> QED
  BY <1>1, <1>3, <1>4 DEF PathsSoFar, Searched

\* The search that begins.
LEMMA SearchBegins ==
  ASSUME TypeOK, TripletsInv, SearchInv, NEW n \in Nodes, BeginSearch(n), TypeOK',
         oCodeGraph' = oCodeGraph, aCandidates' = aCandidates, SameBlocks
  PROVE  QueueSound' /\ QueueOrder' /\ Closed' /\ PathsSoFar'
<1> DEFINE p == <<Entry(n, "DOWN")>>
<1>1. IsGraph /\ IsGraph' /\ DOMAIN aCandidates \subseteq Nodes /\ n \in DOMAIN aCandidates
  BY DEF TypeOK, IsGraph, BeginSearch
<1>2. p \in Seq(Entries) /\ p # <<>> /\ dwDepth(p) = 0 /\ Head(p).oNode = n /\ Last(p).oNode = n
  BY DEF Entry, Entries, dwDepth, Last
<1>3. aQueue' = <<p>> /\ aFlaggedNodes' = {n} /\ oNode1' = n
  BY DEF BeginSearch
<1> HIDE DEF p
<1>4. ShortestTo(p, n)
  <2>1. Within(n, 0) = {n}
    BY <1>1, WithinSteps DEF WithinFacts
  <2>2. PathTo(p, n)
    BY <1>2 DEF PathTo
  <2> QED  BY <1>2, <2>1, <2>2 DEF ShortestTo, Farther
<1>5. ShortestTo(p, n)'
  BY <1>1, <1>2, <1>4, ShortestToKept
<1>6. /\ DOMAIN aQueue' = {1} /\ aQueue'[1] = p
      /\ Heads' = {n} /\ (\A k \in DOMAIN aQueue : Queued(k) = n)'
  BY <1>2, <1>3 DEF Heads, Queued
<1>7. QueueSound'
  <2>1. (\A k \in DOMAIN aQueue : ShortestTo(aQueue[k], oNode1))'
    BY <1>3, <1>5, <1>6
  <2> QED  BY <1>3, <1>6, <2>1 DEF QueueSound
<1>8. QueueOrder'
  BY <1>6 DEF QueueOrder
<1>9. Closed'
  BY <1>3, <1>6 DEF Closed
<1>10. PathsSoFar'
  <2>1. Untouched(n)
    BY <1>1 DEF BeginSearch, SearchInv
  <2> QED  BY <1>3, <1>6, <2>1 DEF Untouched, PathsSoFar
<1> QED
  BY <1>7, <1>8, <1>9, <1>10

\* Nothing that a search depends on changes.
LEMMA SearchKept ==
  ASSUME TypeOK, TripletsInv, IsGraph', SameBlocks, aCandidates' = aCandidates,
         UNCHANGED searchVars, oNode1 \in DOMAIN aCandidates,
         QueueSound, QueueOrder, Closed, PathsSoFar
  PROVE  QueueSound' /\ QueueOrder' /\ Closed' /\ PathsSoFar'
<1>1. IsGraph /\ DOMAIN aCandidates \subseteq Nodes
  BY DEF TypeOK, IsGraph
<1>2. PICK one : one = oNode1
  OBVIOUS
<1>3. oNode1' = one /\ aQueue' = aQueue /\ aFlaggedNodes' = aFlaggedNodes /\ Heads' = Heads
  BY <1>2 DEF searchVars, Heads, Queued
<1>4. QueueSound'
  <2>1. PICK queue : queue = aQueue
    OBVIOUS
  <2>2. ASSUME NEW k \in DOMAIN queue PROVE ShortestTo(queue[k], one)'
    <3>1. queue[k] \in Seq(Entries) /\ ShortestTo(queue[k], one)
      BY <1>2, <2>1 DEF Paths, TypeOK, QueueSound
    <3> QED  BY <1>1, <1>2, <3>1, ShortestToKept
  <2>3. (\A k \in DOMAIN aQueue : ShortestTo(aQueue[k], oNode1))'
    BY <1>3, <2>1, <2>2
  <2>4. (\A k \in DOMAIN aQueue : Queued(k) \in aFlaggedNodes)'
    BY <1>3 DEF Queued, QueueSound
  <2> QED  BY <2>3, <2>4 DEF QueueSound
<1>5. QueueOrder'
  BY <1>3 DEF QueueOrder, Queued, dwDepth
<1>6. Closed'
  <2>1. \A n : Neighbours(n, one)' = Neighbours(n, one)
    BY <1>2, NeighboursKept
  <2>2. (\A n \in aFlaggedNodes \ Heads : Neighbours(n, oNode1) \subseteq aFlaggedNodes)'
    BY <1>2, <1>3, <2>1 DEF Closed
  <2> QED  BY <1>2, <1>3, <2>2 DEF Closed
<1>7. PathsSoFar'
  <2>1. ASSUME NEW t \in ToSet(aCandidates[one])
        PROVE  IF t.oPath = NoPath THEN t.oNode2 \notin aFlaggedNodes \ Heads ELSE Shortest(t)'
    <3>1. t \in TripletType /\ t.oNode1 = one
      BY <1>2 DEF TypeOK, TripletsInv, ToSet
    <3> QED  BY <1>1, <1>2, <3>1, ShortestKept DEF PathsSoFar
  <2>2. (\A t \in ToSet(aCandidates[oNode1]) :
           IF t.oPath = NoPath THEN t.oNode2 \notin aFlaggedNodes \ Heads ELSE Shortest(t))'
    BY <1>2, <1>3, <2>1
  <2> QED  BY <2>2 DEF PathsSoFar
<1> QED
  BY <1>4, <1>5, <1>6, <1>7

LEMMA SearchStep ==
  ASSUME TypeOK, TripletsInv, SearchInv, [Next]_vars, TypeOK', TripletsInv'
  PROVE  SearchInv'
<1>1. IsGraph /\ IsGraph' /\ DOMAIN aCandidates \subseteq Nodes /\ NoNode \notin Nodes
  BY NoNodeIsNone DEF TypeOK, IsGraph
<1>2. CASE Visit
  BY <1>2, VisitSearches
<1>3. CASE FindTriplets
  <2>1. /\ pc' = "search" /\ oNode1' = NoNode /\ aQueue' = <<>> /\ left' = DOMAIN aCandidates'
        /\ aCandidates' = TripletsFrom
    BY <1>3 DEF FindTriplets, searchVars, TypeOK, SearchInv
  <2>2. ASSUME NEW n \in DOMAIN aCandidates' PROVE Untouched(n)'
    <3>1. TripletsFrom[n] \in Seq({t \in FoundTriplets : t.oNode1 = n})
      BY <1>1, <2>1, CandidatesFound
    <3>2. ASSUME NEW t \in ToSet(aCandidates'[n]) PROVE t.oPath = NoPath
      BY <2>1, <3>1, <3>2 DEF ToSet, FoundTriplets
    <3> QED  BY <3>2 DEF Untouched
  <2> QED  BY <2>1, <2>2 DEF SearchInv, Searching
<1>4. ASSUME oCodeGraph' = oCodeGraph, aCandidates' = aCandidates
      PROVE  /\ SameBlocks
             /\ \A n \in DOMAIN aCandidates' :
                  (Searched(n) => Searched(n)') /\ (Untouched(n) => Untouched(n)')
  <2>1. SameBlocks
    BY <1>4 DEF SameBlocks, SecondBlocks
  <2> QED  BY <1>1, <1>4, <2>1, SearchedKept DEF Untouched
<1>5. ASSUME NEW n \in Nodes, BeginSearch(n) PROVE SearchInv'
  <2>1. /\ oCodeGraph' = oCodeGraph /\ aCandidates' = aCandidates /\ pc = "search" /\ pc' = "search"
        /\ n \in left /\ left' = left \ {n} /\ oNode1 = NoNode /\ oNode1' = n
    BY <1>5 DEF BeginSearch
  <2>2. QueueSound' /\ QueueOrder' /\ Closed' /\ PathsSoFar'
    BY <1>4, <1>5, <2>1, SearchBegins
  <2>3. ASSUME NEW m \in DOMAIN aCandidates'
        PROVE  IF m \in left' THEN Untouched(m)' ELSE m # oNode1' => Searched(m)'
    <3>1. CASE m \in left'
      BY <1>4, <2>1, <3>1 DEF SearchInv
    <3>2. CASE m \notin left' /\ m # oNode1'
      BY <1>1, <1>4, <2>1, <3>2 DEF SearchInv
    <3> QED  BY <3>1, <3>2
  <2>4. oNode1' # NoNode
    BY <1>1, <2>1
  <2> QED  BY <2>1, <2>2, <2>3, <2>4 DEF SearchInv
<1>6. CASE EndSearch
  <2>1. /\ oCodeGraph' = oCodeGraph /\ aCandidates' = aCandidates /\ pc = "search" /\ pc' = "search"
        /\ left' = left /\ oNode1 # NoNode /\ oNode1' = NoNode /\ aQueue = <<>> /\ aQueue' = <<>>
    BY <1>6 DEF EndSearch
  <2>2. Searched(oNode1)
    BY <2>1, SearchEnds
  <2>3. ASSUME NEW m \in DOMAIN aCandidates'
        PROVE  IF m \in left' THEN Untouched(m)' ELSE m # oNode1' => Searched(m)'
    <3>1. CASE m \in left'
      BY <1>4, <2>1, <3>1 DEF SearchInv
    <3>2. CASE m \notin left'
      <4>1. Searched(m)
        BY <2>1, <2>2, <3>2 DEF SearchInv
      <4> QED  BY <1>4, <2>1, <3>2, <4>1
    <3> QED  BY <3>1, <3>2
  <2> QED  BY <2>1, <2>3 DEF SearchInv, Searching
<1>7. CASE EndSearches
  <2>1. /\ oCodeGraph' = oCodeGraph /\ aCandidates' = aCandidates /\ pc = "search" /\ pc' = "map"
        /\ left = {} /\ oNode1 = NoNode
    BY <1>7 DEF EndSearches
  <2>2. \A n \in DOMAIN aCandidates : Searched(n)
    BY <1>1, <2>1 DEF SearchInv
  <2> QED  BY <1>4, <2>1, <2>2 DEF SearchInv, Searching
<1>8. CASE TimeIsUp \/ UNCHANGED vars
  <2>1. /\ oCodeGraph' = oCodeGraph /\ aCandidates' = aCandidates /\ pc' = pc
        /\ left' = left /\ UNCHANGED searchVars /\ (late' = late \/ late')
    BY <1>8 DEF TimeIsUp, vars
  <2>2. oNode1' = oNode1 /\ aQueue' = aQueue
    BY <2>1 DEF searchVars
  <2>3. ASSUME Searching' PROVE QueueSound' /\ QueueOrder' /\ Closed' /\ PathsSoFar'
    <3>1. Searching /\ oNode1 \in DOMAIN aCandidates
      BY <2>1, <2>2, <2>3 DEF Searching, TypeOK
    <3>2. QueueSound /\ QueueOrder /\ Closed /\ PathsSoFar
      BY <3>1 DEF SearchInv
    <3> QED  BY <1>1, <1>4, <2>1, <3>1, <3>2, SearchKept
  <2>4. ASSUME NEW m \in DOMAIN aCandidates', pc' = "search"
        PROVE  IF m \in left' THEN Untouched(m)' ELSE m # oNode1' => Searched(m)'
    <3>1. CASE m \in left'
      BY <1>4, <2>1, <2>4, <3>1 DEF SearchInv
    <3>2. CASE m \notin left' /\ m # oNode1'
      BY <1>4, <2>1, <2>2, <2>4, <3>2 DEF SearchInv
    <3> QED  BY <3>1, <3>2
  <2>5. ASSUME pc' = "map" \/ (pc' = "done" /\ ~late'), NEW m \in DOMAIN aCandidates'
        PROVE  Searched(m)'
    <3>1. late' \in BOOLEAN /\ late \in BOOLEAN
      BY DEF TypeOK
    <3>2. pc = "map" \/ (pc = "done" /\ ~late)
      BY <2>1, <2>5, <3>1
    <3>3. Searched(m)
      BY <2>1, <2>5, <3>2 DEF SearchInv
    <3> QED  BY <1>4, <2>1, <2>5, <3>3
  <2>6. oNode1' = NoNode /\ pc' \in {"triplets", "search"} => aQueue' = <<>>
    BY <2>1, <2>2 DEF SearchInv
  <2> QED  BY <2>3, <2>4, <2>5, <2>6 DEF SearchInv
<1>9. ASSUME oCodeGraph' = oCodeGraph, aCandidates' = aCandidates,
             pc = "map" \/ (late' = late /\ TimeExceeded),
             pc' = "done" \/ (pc = "map" /\ pc' = "map")
      PROVE  SearchInv'
  <2>1. ASSUME pc' = "map" \/ (pc' = "done" /\ ~late'), NEW m \in DOMAIN aCandidates'
        PROVE  Searched(m)'
    <3>1. pc = "map"
      BY <1>9, <2>1 DEF TimeExceeded
    <3> QED  BY <1>4, <1>9, <2>1, <3>1 DEF SearchInv
  <2> QED  BY <1>9, <2>1 DEF SearchInv, Searching
<1>10. ASSUME NEW n \in Nodes, NextCandidate(n) PROVE SearchInv'
  BY <1>9, <1>10 DEF NextCandidate
<1>11. CASE SkipTriplet \/ MapTriplet \/ ReturnFalse \/ NextTriplet \/ EndCandidate
  BY <1>9, <1>11 DEF SkipTriplet, MapTriplet, ReturnFalse, NextTriplet, EndCandidate, AtTriplet
<1>12. ASSUME NEW oSource \in Nodes, MatchFound(oSource) \/ Follow(oSource) \/ Refuse(oSource)
       PROVE  SearchInv'
  BY <1>9, <1>12 DEF MatchFound, Follow, Refuse, Calling
<1>13. CASE NoMatchFound
  BY <1>9, <1>13 DEF NoMatchFound, NothingLeft
<1> QED
  BY <1>2, <1>3, <1>5, <1>6, <1>7, <1>8, <1>10, <1>11, <1>12, <1>13 DEF Next, Step

LEMMA LeadsThere ==
  ASSUME IsGraph, NEW t \in TripletType, IsTriplet(t), Shortest(t)
  PROVE  Leads(t) /\ t.oNode2 \notin Within(t.oNode1, dwDepth(t.oPath) - 1)
<1>1. PathTo(t.oPath, t.oNode1) /\ Head(t.oPath).oNode = t.oNode2
  BY DEF Shortest, ShortestTo
<1>2. Leads(t)
  BY <1>1 DEF PathTo, Leads
<1>3. dwDepth(t.oPath) \in Nat /\ dwDepth(t.oPath) # 0
  <2> DEFINE p == t.oPath
  <2>1. p \in Seq(Entries) /\ p # <<>>
    BY <1>1 DEF PathTo
  <2>2. Len(p) \in Nat /\ Len(p) > 0 /\ Head(p) = p[1] /\ Last(p) = p[Len(p)]
    BY <2>1 DEF Last
  <2>3. t.oNode1 # t.oNode2
    <3>1. Offset(t.oNode1) \in Int
      BY OffsetType DEF IsTriplet
    <3>2. Offset(t.oNode2) - Offset(t.oNode1) >= MinDistance /\ MinDistance \in Nat \ {0}
      BY LimitsAssumption DEF IsTriplet
    <3> HIDE DEF p
    <3> QED  BY <3>1, <3>2
  <2>4. Len(p) # 1
    BY <1>1, <2>2, <2>3 DEF PathTo
  <2> HIDE DEF p
  <2>5. Len(p) - 1 \in Nat /\ Len(p) - 1 # 0
    BY <2>2, <2>4
  <2> QED  BY <2>5 DEF dwDepth, p
<1>4. dwDepth(t.oPath) - 1 \in Nat /\ dwDepth(t.oPath) - 1 < dwDepth(t.oPath)
  BY <1>3
<1> QED
  BY <1>1, <1>2, <1>4 DEF Shortest, ShortestTo, Farther

LEMMA SearchedIsShortest ==
  ASSUME TypeOK, TripletsInv, SearchInv
  PROVE  ShortestPaths
<1>1. IsGraph /\ Cardinality(Nodes) \in Nat
  <2>1. IsGraph
    BY DEF TypeOK, IsGraph
  <2> QED  BY <2>1, GraphFacts, FS_CardinalityType
<1>2. SUFFICES ASSUME pc \in {"map", "done"}, pc = "done" => ~late, NEW t \in AllTriplets
               PROVE  IF t.oPath = NoPath THEN t.oNode2 \notin Within(t.oNode1, Cardinality(Nodes))
                      ELSE Leads(t) /\ t.oNode2 \notin Within(t.oNode1, dwDepth(t.oPath) - 1)
  BY DEF ShortestPaths
<1>3. PICK n \in DOMAIN aCandidates : t \in ToSet(aCandidates[n])
  BY <1>2 DEF AllTriplets
<1>4. t \in TripletType /\ t.oNode1 = n /\ IsTriplet(t)
  BY <1>3 DEF TypeOK, TripletsInv, ToSet
<1>5. IF t.oPath = NoPath THEN \A k \in Nat : t.oNode2 \notin Within(n, k) ELSE Shortest(t)
  BY <1>2, <1>3 DEF SearchInv, Searched
<1> QED
  BY <1>1, <1>4, <1>5, LeadsThere

\* Types, triplets and searches, in every state.
LEMMA Searches == Spec => [](TypeOK /\ TripletsInv /\ SearchInv)
<1> DEFINE I == TypeOK /\ TripletsInv /\ SearchInv
<1>1. Init => I
  BY TypeInit, SearchInit
<1>2. I /\ [Next]_vars => I'
  BY TypeStep, SearchStep
<1> HIDE DEF I
<1>3. Spec => []I
  BY <1>1, <1>2, PTL DEF Spec
<1> QED
  BY <1>3 DEF I

(***************************************************************************)
(* The paths that the searches of BreadthFirstSearch leave in the triplets  *)
(* are shortest ones, and a second block without a path cannot be reached:  *)
(* for every graph, and in whatever order the neighbours are queued.        *)
(***************************************************************************)
THEOREM ShortestPathsAlways == Spec => []ShortestPaths
<1>1. TypeOK /\ TripletsInv /\ SearchInv => ShortestPaths
  BY SearchedIsShortest
<1> QED
  BY <1>1, Searches, PTL

-----------------------------------------------------------------------------
(* The mapping of paths *)

LEMMA MatchesKept ==
  ASSUME oCodeGraph' = oCodeGraph, NEW m, NEW n
  PROVE  Matches(m, n)' <=> Matches(m, n)
  BY DEF Matches, InputsOf, OutputsOf, TypeOf, Nodes, MayBeIV, TypeSpec, Specs

LEMMA FollowedKept ==
  ASSUME oCodeGraph' = oCodeGraph, NEW t
  PROVE  Followed(t)' = Followed(t)
  BY DEF Followed, StandingFor, From, InputsOf, OutputsOf, TypeOf, Nodes, Matches, MayBeIV,
         TypeSpec, Specs

LEMMA AheadKept ==
  ASSUME oCodeGraph' = oCodeGraph, NEW t
  PROVE  Ahead(t)' = Ahead(t)
<1>1. \A m, n : Stands(m, n)' <=> Stands(m, n)
  BY MatchesKept DEF Stands
<1>2. \A m, d : From(m, d)' = From(m, d)
  BY DEF From, InputsOf, OutputsOf, Nodes
<1>3. Nodes' = Nodes
  BY DEF Nodes
<1> QED
  BY <1>1, <1>2, <1>3 DEF Ahead

LEMMA MirroredIs ==
  ASSUME NEW t
  PROVE  Mirrored(t) <=> t.oNode2 \in Followed(t)[Len(t.oPath)]
  BY DEF Mirrored, Followed

LEMMA MirroredKept ==
  ASSUME oCodeGraph' = oCodeGraph, NEW t
  PROVE  Mirrored(t)' <=> Mirrored(t)
<1>1. Mirrored(t)' <=> t.oNode2 \in Followed(t)'[Len(t.oPath)]
  BY DEF Mirrored, Followed
<1> QED
  BY <1>1, FollowedKept, MirroredIs

LEMMA FromType ==
  ASSUME IsGraph, NEW m \in Nodes, NEW direction
  PROVE  From(m, direction) \subseteq Nodes
  BY GraphFacts DEF From

\* What a step of Followed does.
Onward(n, direction, S) == UNION {From(m, direction) : m \in StandingFor(n, S)}

LEMMA FollowedIs ==
  ASSUME IsGraph, NEW t \in TripletType, t.oPath # NoPath
  PROVE  /\ Followed(t)[1] = {t.oNode3}
         /\ \A i \in 2..Len(t.oPath) :
              Followed(t)[i] = Onward(t.oPath[i - 1].oNode, t.oPath[i - 1].eDirection, Followed(t)[i - 1])
         /\ \A i \in 1..Len(t.oPath) : Followed(t)[i] \subseteq Nodes
<1> DEFINE path == t.oPath
           L == Len(path)
           N == L - 1
           V == SUBSET Nodes
           Go(k, S) == Onward(path[k].oNode, path[k].eDirection, S)
           Body(g, i) == IF i = 1 THEN {t.oNode3}
                         ELSE UNION {From(m, path[i - 1].eDirection) :
                                       m \in StandingFor(path[i - 1].oNode, g[i - 1])}
           follow[i \in 1..L] == Body(follow, i)
           step == [p \in (0..N) \X V |-> Go(p[1], p[2])]
<1>1. t.oNode3 \in Nodes /\ L \in Nat \ {0} /\ N \in Nat /\ L = N + 1
  <2>1. t.oNode3 \in Nodes /\ path \in Seq(Entries) /\ path # <<>>
    <3> HIDE DEF Entries
    <3> QED  BY DEF TripletType, NoPath
  <2> HIDE DEF path
  <2>2. L \in Nat \ {0}
    BY <2>1
  <2> HIDE DEF L
  <2> QED  BY <2>1, <2>2
<1> HIDE DEF L, path
<1>2. \A k \in 0..N, S \in V : Go(k, S) \in V
  BY FromType DEF Onward, StandingFor
<1> HIDE DEF Go
<1>3. Counting(N, V, {t.oNode3}, step)
  BY <1>1, <1>2 DEF Counting
<1>4. PICK f : Counted(f, N, V, {t.oNode3}, step)
  <2> HIDE DEF V, step, N
  <2> QED  BY <1>3, CountingRecursion
<1>5. \A i \in 1..N : f[i] = Go(i, f[i - 1])
  <2>1. ASSUME NEW i \in 1..N PROVE f[i] = Go(i, f[i - 1])
    <3>1. i - 1 \in 0..N /\ i \in 0..N
      BY <1>1
    <3>2. f[i - 1] \in V /\ f[i] = step[<<i, f[i - 1]>>]
      BY <1>4, <3>1 DEF Counted
    <3>3. <<i, f[i - 1]>> \in (0..N) \X V
      BY <3>1, <3>2
    <3> HIDE DEF V
    <3> QED  BY <3>2, <3>3
  <2> QED  BY <2>1
<1> DEFINE g == [i \in 1..L |-> f[i - 1]]
<1>6. g[1] = {t.oNode3} /\ \A i \in 2..L : g[i] = Go(i - 1, g[i - 1])
  <2>1. \A i \in 1..L : g[i] = f[i - 1]
    OBVIOUS
  <2>2. f[0] = {t.oNode3}
    BY <1>4 DEF Counted
  <2>3. ASSUME NEW i \in 2..L PROVE g[i] = Go(i - 1, g[i - 1])
    <3>1. i - 1 \in 1..N /\ i \in 1..L /\ i - 1 \in 1..L /\ (i - 1) - 1 \in 0..N
      BY <1>1
    <3> HIDE DEF g
    <3>2. g[i] = f[i - 1] /\ g[i - 1] = f[(i - 1) - 1]
      BY <2>1, <3>1
    <3> QED  BY <1>5, <3>1, <3>2
  <2>4. 1 \in 1..L /\ 1 - 1 = 0
    BY <1>1
  <2> QED  BY <2>1, <2>2, <2>3, <2>4
<1> HIDE DEF g
<1>7. DOMAIN g = 1..L /\ g = [i \in 1..L |-> g[i]]
  BY DEF g
<1>8. \A i \in 1..L : g[i] = Body(g, i)
  <2>1. \A i \in 1..L : i = 1 \/ i \in 2..L
    BY <1>1
  <2> QED  BY <1>6, <2>1 DEF Go, Onward
<1>9. g = [i \in 1..L |-> Body(g, i)]
  <2> HIDE DEF Body
  <2> QED  BY <1>7, <1>8
<1>10. follow = [i \in 1..L |-> Body(follow, i)]
  <2> HIDE DEF Body
  <2> QED  BY <1>9, Zenon
<1>11. Followed(t) = follow
  BY DEF Followed, path, L
<1> HIDE DEF follow
<1>12. follow[1] = {t.oNode3} /\ \A i \in 2..L : follow[i] = Go(i - 1, follow[i - 1])
  <2>1. 1 \in 1..L
    BY <1>1
  <2>2. \A i \in 2..L : i \in 1..L /\ i # 1
    BY <1>1
  <2>3. \A i \in 1..L : follow[i] = Body(follow, i)
    <3> HIDE DEF Body
    <3> QED  BY <1>10
  <2> QED  BY <2>1, <2>2, <2>3 DEF Go, Onward
<1>13. \A i \in 1..L : follow[i] \in V
  <2> DEFINE T == {i \in 0..N : follow[i + 1] \in V}
  <2>1. 0 \in T
    BY <1>1, <1>12
  <2>2. ASSUME NEW i \in 1..N, i - 1 \in T PROVE i \in T
    <3>1. i + 1 \in 2..L /\ (i + 1) - 1 = i /\ (i - 1) + 1 = i /\ i \in 0..N
      BY <1>1
    <3>2. follow[i + 1] = Go(i, follow[i])
      BY <1>12, <3>1
    <3>3. follow[i] \in V
      BY <2>2, <3>1
    <3>4. follow[i + 1] \in V
      BY <1>2, <3>1, <3>2, <3>3
    <3> QED  BY <3>1, <3>4
  <2>3. \A i \in 0..N : i \in T
    <3> HIDE DEF T, N
    <3> QED  BY <1>1, <2>1, <2>2, Climb
  <2>4. \A i \in 1..L : i - 1 \in 0..N /\ (i - 1) + 1 = i
    BY <1>1
  <2> HIDE DEF V, N
  <2> QED  BY <2>3, <2>4
<1> QED
  BY <1>11, <1>12, <1>13 DEF L, path, Go

\* What a step of Ahead does.
Before(n, direction, S) == {m \in Nodes : Stands(n, m) /\ From(m, direction) \cap S # {}}

LEMMA AheadIs ==
  ASSUME IsGraph, NEW t \in TripletType, t.oPath # NoPath
  PROVE  /\ Ahead(t)[0] = {t.oNode2}
         /\ \A k \in 1..(Len(t.oPath) - 1) :
              Ahead(t)[k] = Before(t.oPath[Len(t.oPath) - k].oNode,
                                   t.oPath[Len(t.oPath) - k].eDirection, Ahead(t)[k - 1])
<1> DEFINE path == t.oPath
           L == Len(path)
           N == L - 1
           V == SUBSET Nodes
           Go(k, S) == Before(path[L - k].oNode, path[L - k].eDirection, S)
           Body(g, k) == IF k = 0 THEN {t.oNode2}
                         ELSE {m \in Nodes : /\ Stands(path[L - k].oNode, m)
                                             /\ From(m, path[L - k].eDirection) \cap g[k - 1] # {}}
           ahead[k \in 0..(L - 1)] == Body(ahead, k)
           step == [p \in (0..N) \X V |-> Go(p[1], p[2])]
<1>1. t.oNode2 \in Nodes /\ L \in Nat \ {0} /\ N \in Nat
  <2>1. t.oNode2 \in Nodes /\ path \in Seq(Entries) /\ path # <<>>
    <3> HIDE DEF Entries
    <3> QED  BY DEF TripletType, NoPath
  <2> HIDE DEF path
  <2>2. L \in Nat \ {0}
    BY <2>1
  <2> HIDE DEF L
  <2> QED  BY <2>1, <2>2
<1> HIDE DEF L, path
<1>2. \A k \in 0..N, S \in V : Go(k, S) \in V
  BY DEF Before
<1> HIDE DEF Go
<1>3. Counting(N, V, {t.oNode2}, step)
  BY <1>1, <1>2 DEF Counting
<1>4. PICK f : Counted(f, N, V, {t.oNode2}, step)
  <2> HIDE DEF V, step, N
  <2> QED  BY <1>3, CountingRecursion
<1>5. \A i \in 1..N : f[i] = Go(i, f[i - 1])
  <2>1. ASSUME NEW i \in 1..N PROVE f[i] = Go(i, f[i - 1])
    <3>1. i - 1 \in 0..N /\ i \in 0..N
      BY <1>1
    <3>2. f[i - 1] \in V /\ f[i] = step[<<i, f[i - 1]>>]
      BY <1>4, <3>1 DEF Counted
    <3>3. <<i, f[i - 1]>> \in (0..N) \X V
      BY <3>1, <3>2
    <3> HIDE DEF V
    <3> QED  BY <3>2, <3>3
  <2> QED  BY <2>1
<1>6. f = [i \in 0..N |-> f[i]]
  BY <1>4 DEF Counted
<1>7. \A i \in 0..N : f[i] = Body(f, i)
  <2>1. \A i \in 0..N : i = 0 \/ i \in 1..N
    BY <1>1
  <2> QED  BY <1>4, <1>5, <2>1 DEF Counted, Go, Before
<1>8. f = [i \in 0..N |-> Body(f, i)]
  <2> HIDE DEF Body
  <2> QED  BY <1>6, <1>7
<1>9. ahead = [i \in 0..N |-> Body(ahead, i)]
  <2> HIDE DEF Body
  <2> QED  BY <1>8, Zenon
<1>10. Ahead(t) = ahead
  BY DEF Ahead, path, L
<1> HIDE DEF ahead
<1>11. ahead[0] = {t.oNode2} /\ \A i \in 1..N : ahead[i] = Go(i, ahead[i - 1])
  <2>1. 0 \in 0..N /\ \A i \in 1..N : i \in 0..N /\ i # 0
    BY <1>1
  <2>2. \A i \in 0..N : ahead[i] = Body(ahead, i)
    <3> HIDE DEF Body
    <3> QED  BY <1>9
  <2> QED  BY <2>1, <2>2 DEF Go, Before
<1> QED
  BY <1>10, <1>11 DEF L, path, Go

\* A path that can be followed to its end can be followed from its start.
LEMMA MirroredAhead ==
  ASSUME IsGraph, NEW t \in TripletType, t.oPath # NoPath, Mirrored(t)
  PROVE  t.oNode3 \in Ahead(t)[Len(t.oPath) - 1]
<1> DEFINE L == Len(t.oPath)
           T == {k \in 0..(L - 1) : Followed(t)[L - k] \cap Ahead(t)[k] # {}}
<1>1. L \in Nat \ {0}
  <2>1. t.oPath \in Seq(Entries)
    <3> HIDE DEF Entries
    <3> QED  BY DEF TripletType
  <2> QED  BY <2>1 DEF NoPath
<1> HIDE DEF L
<1>2. 0 \in T
  <2>1. t.oNode2 \in Followed(t)[L] /\ Ahead(t)[0] = {t.oNode2} /\ L - 0 = L /\ 0 \in 0..(L - 1)
    BY <1>1, MirroredIs, AheadIs DEF L
  <2> QED  BY <2>1
<1>3. ASSUME NEW k \in 1..(L - 1), k - 1 \in T PROVE k \in T
  <2> DEFINE n == t.oPath[L - k].oNode
             direction == t.oPath[L - k].eDirection
  <2>1. L - k + 1 \in 2..L /\ L - k + 1 - 1 = L - k /\ L - (k - 1) = L - k + 1
        /\ k \in 0..(L - 1) /\ L - k \in 1..L
    BY <1>1
  <2>2. Followed(t)[L - k + 1] = Onward(n, direction, Followed(t)[L - k])
    BY <2>1, FollowedIs DEF L
  <2>3. Ahead(t)[k] = Before(n, direction, Ahead(t)[k - 1])
    BY AheadIs DEF L
  <2>4. PICK x : x \in Followed(t)[L - k + 1] /\ x \in Ahead(t)[k - 1]
    BY <1>3, <2>1
  <2> HIDE DEF n, direction
  <2>5. PICK m \in StandingFor(n, Followed(t)[L - k]) : x \in From(m, direction)
    BY <2>2, <2>4 DEF Onward
  <2>6. m \in Followed(t)[L - k] /\ m \in Nodes /\ Stands(n, m)
    <3>1. Followed(t)[L - k] \subseteq Nodes
      BY <2>1, FollowedIs DEF L
    <3> QED  BY <2>5, <3>1 DEF StandingFor, Stands
  <2>7. m \in Ahead(t)[k]
    BY <2>3, <2>4, <2>5, <2>6 DEF Before
  <2> QED  BY <2>1, <2>6, <2>7
<1>4. \A k \in 0..(L - 1) : k \in T
  <2>1. L - 1 \in Nat
    BY <1>1
  <2> HIDE DEF T
  <2> QED  BY <1>2, <1>3, <2>1, Climb
<1>5. L - 1 \in 0..(L - 1) /\ L - (L - 1) = 1
  BY <1>1
<1>6. Followed(t)[1] \cap Ahead(t)[L - 1] # {}
  BY <1>4, <1>5
<1> QED
  BY <1>6, FollowedIs DEF L

\* The calls, when the last one has tried one of its nodes.
Tries(frames, x, rest) == rest = [frames EXCEPT ![Len(frames)].sources = Tried(@, x)]
SourcesTried(frames, x, rest) ==
  \A j \in DOMAIN frames :
    rest[j].sources = IF j = Len(frames) THEN frames[j].sources \ {x} ELSE frames[j].sources

LEMMA TriedCalls ==
  ASSUME NEW t, NEW frames, CallsOf(frames, t), frames # <<>>, NEW x,
         NEW rest, Tries(frames, x, rest)
  PROVE  /\ CallsOf(rest, t) /\ Len(rest) = Len(frames) /\ DOMAIN rest = DOMAIN frames
         /\ SourcesTried(frames, x, rest)
<1>1. frames \in Seq(CallType) /\ Len(frames) <= Len(t.oPath)
  BY DEF CallsOf
<1>2. Len(frames) \in Nat /\ DOMAIN frames = 1..Len(frames) /\ Len(frames) \in DOMAIN frames
  BY <1>1
<1>3. \A j \in DOMAIN frames : frames[j] \in CallType
  BY <1>1
<1>4. ASSUME NEW j \in DOMAIN frames
      PROVE  /\ rest[j] \in CallType /\ rest[j].oParent = frames[j].oParent
             /\ rest[j].sources = IF j = Len(frames) THEN frames[j].sources \ {x} ELSE frames[j].sources
  <2>1. CASE j = Len(frames)
    <3>1. rest[j] = [frames[j] EXCEPT !.sources = Tried(frames[j].sources, x)]
      BY <1>2, <2>1 DEF Tries
    <3>2. frames[j] \in CallType
      BY <1>3
    <3> HIDE DEF Entries
    <3> QED  BY <2>1, <3>1, <3>2 DEF CallType, Tried
  <2>2. CASE j # Len(frames)
    BY <1>3, <2>2 DEF Tries
  <2> QED  BY <2>1, <2>2
<1>5. DOMAIN rest = DOMAIN frames
  BY DEF Tries
<1>6. rest \in Seq(CallType) /\ Len(rest) = Len(frames)
  <2>1. rest = [j \in 1..Len(frames) |-> rest[j]]
    BY <1>2, <1>5 DEF Tries
  <2>2. \A j \in 1..Len(frames) : rest[j] \in CallType
    BY <1>2, <1>4
  <2> HIDE DEF CallType
  <2>3. rest \in [1..Len(frames) -> CallType]
    BY <2>1, <2>2
  <2> QED  BY <1>2, <2>3
<1>7. \A j \in DOMAIN rest : CallOK(rest[j], t.oPath, j) /\ rest[j].sources \subseteq Followed(t)[j]
  <2>1. ASSUME NEW j \in DOMAIN frames
        PROVE  /\ rest[j].oParent = frames[j].oParent
               /\ rest[j].sources \subseteq frames[j].sources
    BY <1>4
  <2>2. ASSUME NEW j \in DOMAIN frames
        PROVE  CallOK(frames[j], t.oPath, j) /\ frames[j].sources \subseteq Followed(t)[j]
    BY DEF CallsOf
  <2>3. ASSUME NEW j \in DOMAIN frames PROVE CallOK(rest[j], t.oPath, j)
    BY <2>1, <2>2 DEF CallOK
  <2> QED  BY <1>5, <2>1, <2>2, <2>3
<1> QED
  BY <1>1, <1>4, <1>5, <1>6, <1>7 DEF CallsOf, SourcesTried

LEMMA TriedPromising ==
  ASSUME NEW t, NEW frames, CallsOf(frames, t), frames # <<>>, NEW x,
         NEW rest, Tries(frames, x, rest),
         Promising(frames, t), x \notin Ahead(t)[Len(t.oPath) - Len(frames)]
  PROVE  Promising(rest, t)
<1>1. PICK j \in DOMAIN frames : frames[j].sources \cap Ahead(t)[Len(t.oPath) - j] # {}
  BY DEF Promising
<1>2. j \in DOMAIN rest
  BY TriedCalls
<1>3. rest[j].sources = IF j = Len(frames) THEN frames[j].sources \ {x} ELSE frames[j].sources
  <2>1. SourcesTried(frames, x, rest)
    BY TriedCalls
  <2> QED  BY <2>1 DEF SourcesTried
<1>4. rest[j].sources \cap Ahead(t)[Len(t.oPath) - j] # {}
  BY <1>1, <1>3
<1> QED
  BY <1>2, <1>4 DEF Promising

\* What the last call stands at.
LEMMA LastCall ==
  ASSUME IsGraph, NEW t \in TripletType, t.oPath # NoPath,
         NEW frames, CallsOf(frames, t), frames # <<>>
  PROVE  LET d == Len(frames)
             top == frames[d]
         IN /\ Last(frames) = top /\ d \in 1..Len(t.oPath)
            /\ top.oParent \in Seq(Entries) /\ top.oParent # <<>>
            /\ top.sources \subseteq Nodes /\ top.sources \subseteq Followed(t)[d]
            /\ Len(top.oParent) = Len(t.oPath) - d + 1
            /\ Head(top.oParent) = t.oPath[d]
            /\ Len(top.oParent) = 1 <=> d = Len(t.oPath)
<1> DEFINE d == Len(frames)
           top == frames[d]
           L == Len(t.oPath)
<1>1. frames \in Seq(CallType) /\ d <= L
  BY DEF CallsOf
<1>2. d \in Nat \ {0} /\ d \in DOMAIN frames /\ Last(frames) = top
  <2> HIDE DEF CallType
  <2> QED  BY <1>1 DEF Last
<1>3. L \in Nat
  <2>1. t.oPath \in Seq(Entries)
    <3> HIDE DEF Entries
    <3> QED  BY DEF TripletType
  <2> HIDE DEF Entries
  <2> QED  BY <2>1
<1>4. top \in CallType
  BY <1>1, <1>2
<1>5. top.oParent \in Seq(Entries) /\ top.sources \subseteq Nodes
  <2> HIDE DEF Entries, top
  <2> QED  BY <1>4 DEF CallType
<1>6. /\ top.sources \subseteq Followed(t)[d] /\ Len(top.oParent) = L - d + 1
      /\ \A i \in 1..Len(top.oParent) : top.oParent[i] = t.oPath[i + d - 1]
  BY <1>2 DEF CallsOf, CallOK
<1> HIDE DEF d, top, L
<1>7. L - d + 1 \in Nat \ {0} /\ d \in 1..L /\ (L - d + 1 = 1 <=> d = L)
  BY <1>1, <1>2, <1>3
<1>8. top.oParent # <<>> /\ Head(top.oParent) = top.oParent[1] /\ 1 \in 1..Len(top.oParent)
  <2> HIDE DEF Entries
  <2> QED  BY <1>5, <1>6, <1>7
<1>9. Head(top.oParent) = t.oPath[d]
  <2>1. 1 + d - 1 = d
    BY <1>2
  <2> QED  BY <1>6, <1>8, <2>1
<1> QED
  BY <1>2, <1>5, <1>6, <1>7, <1>8, <1>9 DEF d, top, L

\* The calls, when the last one goes on from a node that matches.
GoesOn(rest, top, x, more) ==
  more = Append(rest, Call(Tail(top.oParent), From(x, Head(top.oParent).eDirection)))

LEMMA FollowedCalls ==
  ASSUME IsGraph, NEW t \in TripletType, t.oPath # NoPath,
         NEW frames, CallsOf(frames, t), frames # <<>>, NEW top, top = frames[Len(frames)],
         NEW x \in top.sources, Len(top.oParent) # 1, Stands(Head(top.oParent).oNode, x),
         NEW rest, Tries(frames, x, rest), NEW more, GoesOn(rest, top, x, more)
  PROVE  CallsOf(more, t) /\ (Promising(frames, t) => Promising(more, t))
<1> DEFINE d == Len(frames)
           L == Len(t.oPath)
           direction == Head(top.oParent).eDirection
           call == Call(Tail(top.oParent), From(x, direction))
<1>1. /\ d \in 1..L /\ top.oParent \in Seq(Entries) /\ top.oParent # <<>>
      /\ top.sources \subseteq Nodes /\ top.sources \subseteq Followed(t)[d]
      /\ Len(top.oParent) = L - d + 1 /\ Head(top.oParent) = t.oPath[d] /\ d # L
  BY LastCall
<1>2. L \in Nat
  <2>1. t.oPath \in Seq(Entries)
    <3> HIDE DEF Entries
    <3> QED  BY DEF TripletType
  <2> HIDE DEF Entries
  <2> QED  BY <2>1
<1>3. /\ rest \in Seq(CallType) /\ Len(rest) = d
      /\ \A j \in DOMAIN rest : CallOK(rest[j], t.oPath, j) /\ rest[j].sources \subseteq Followed(t)[j]
  BY TriedCalls DEF CallsOf
<1>4. d \in DOMAIN frames /\ \A i \in 1..Len(top.oParent) : top.oParent[i] = t.oPath[i + d - 1]
  <2>1. d \in DOMAIN frames
    BY <1>1 DEF CallsOf
  <2> QED  BY <2>1 DEF CallsOf, CallOK
<1>5. From(x, direction) \subseteq Nodes
  BY <1>1, FromType
<1>6. /\ Tail(top.oParent) \in Seq(Entries) /\ Len(Tail(top.oParent)) = L - d
      /\ \A i \in 1..(L - d) : Tail(top.oParent)[i] = t.oPath[i + d]
  <2> DEFINE p == top.oParent
  <2>1. p \in Seq(Entries) /\ Len(p) = (L - d) + 1 /\ L - d \in Nat /\ d \in Int
    BY <1>1, <1>2
  <2> HIDE DEF p, Entries, d, L
  <2>2. /\ Tail(p) \in Seq(Entries) /\ Len(Tail(p)) = L - d
        /\ \A i \in 1..(L - d) : Tail(p)[i] = p[i + 1] /\ i + 1 \in 1..Len(p)
    BY <2>1, TailIs
  <2>3. \A i \in 1..(L - d) : i + 1 \in 1..Len(p) /\ i + 1 + d - 1 = i + d
    <3>1. \A i \in 1..(L - d) : i \in Int
      OBVIOUS
    <3> QED  BY <2>1, <2>2, <3>1
  <2>4. \A i \in 1..(L - d) : p[i + 1] = t.oPath[i + d]
    BY <1>4, <2>3 DEF p
  <2> QED  BY <2>2, <2>4 DEF p
<1>7. /\ call.oParent = Tail(top.oParent) /\ call.sources = From(x, direction)
      /\ call \in CallType
  <2> HIDE DEF Entries
  <2> QED  BY <1>5, <1>6 DEF Call, CallType
<1> HIDE DEF call
<1>8. more = Append(rest, call)
  BY DEF call, GoesOn
<1>9. /\ more \in Seq(CallType) /\ DOMAIN more = 1..(d + 1) /\ Len(more) = d + 1 /\ more[d + 1] = call
      /\ \A j \in DOMAIN rest : j \in 1..d /\ more[j] = rest[j]
  <2> HIDE DEF CallType
  <2> QED  BY <1>3, <1>7, <1>8
<1>10. DOMAIN rest = 1..d
  BY <1>3
<1>11. CallOK(call, t.oPath, d + 1)
  <2>1. L - d = L - (d + 1) + 1 /\ \A i \in 1..(L - d) : i + (d + 1) - 1 = i + d
    BY <1>1, <1>2
  <2> QED  BY <1>6, <1>7, <2>1 DEF CallOK
<1>12. call.sources \subseteq Followed(t)[d + 1]
  <2>1. d + 1 \in 2..L /\ (d + 1) - 1 = d
    BY <1>1, <1>2
  <2>2. Followed(t)[d + 1] = Onward(t.oPath[d].oNode, t.oPath[d].eDirection, Followed(t)[d])
    BY <2>1, FollowedIs
  <2>3. x \in StandingFor(t.oPath[d].oNode, Followed(t)[d])
    BY <1>1 DEF StandingFor, Stands
  <2>4. From(x, direction) \subseteq Followed(t)[d + 1]
    BY <1>1, <2>2, <2>3 DEF Onward
  <2> QED  BY <1>7, <2>4
<1> HIDE DEF d, L
<1>13. CallsOf(more, t)
  <2>1. d + 1 <= L
    BY <1>1, <1>2
  <2>2. ASSUME NEW j \in DOMAIN more
        PROVE  CallOK(more[j], t.oPath, j) /\ more[j].sources \subseteq Followed(t)[j]
    <3>1. CASE j = d + 1
      BY <1>9, <1>11, <1>12, <3>1
    <3>2. CASE j # d + 1
      <4>1. j \in DOMAIN rest
        BY <1>1, <1>9, <1>10, <3>2
      <4> QED  BY <1>3, <1>9, <4>1
    <3> QED  BY <3>1, <3>2
  <2> QED  BY <1>9, <2>1, <2>2 DEF CallsOf, L
<1>14. ASSUME Promising(rest, t) PROVE Promising(more, t)
  <2>1. PICK j \in DOMAIN rest : rest[j].sources \cap Ahead(t)[Len(t.oPath) - j] # {}
    BY <1>14 DEF Promising
  <2>2. j \in DOMAIN more /\ more[j] = rest[j]
    BY <1>1, <1>9, <1>10, <2>1
  <2> QED  BY <2>1, <2>2 DEF Promising
<1>15. ASSUME x \in Ahead(t)[L - d] PROVE Promising(more, t)
  <2>1. L - d \in 1..(L - 1) /\ L - (L - d) = d /\ L - d - 1 = L - (d + 1)
    BY <1>1, <1>2
  <2>2. Ahead(t)[L - d] = Before(t.oPath[d].oNode, t.oPath[d].eDirection, Ahead(t)[L - d - 1])
    BY <2>1, AheadIs DEF L
  <2>3. From(x, direction) \cap Ahead(t)[L - (d + 1)] # {}
    BY <1>1, <1>15, <2>1, <2>2 DEF Before
  <2>4. d + 1 \in DOMAIN more
    BY <1>1, <1>9
  <2> QED  BY <1>7, <1>9, <2>3, <2>4 DEF Promising, L
<1>16. ASSUME Promising(frames, t), x \notin Ahead(t)[L - d] PROVE Promising(more, t)
  <2>1. Promising(rest, t)
    BY <1>16, TriedPromising DEF L, d
  <2> QED  BY <1>14, <2>1
<1> QED
  BY <1>13, <1>15, <1>16

\* The calls, when the last one returns.
LEMMA PoppedCalls ==
  ASSUME NEW t, NEW frames, CallsOf(frames, t), Len(frames) > 1,
         frames[Len(frames)].sources = {}, NEW rest, rest = Front(frames)
  PROVE  CallsOf(rest, t) /\ (Promising(frames, t) => Promising(rest, t))
<1> DEFINE d == Len(frames)
<1>1. frames \in Seq(CallType) /\ d <= Len(t.oPath)
  BY DEF CallsOf
<1>2. d \in Nat /\ DOMAIN frames = 1..d
  BY <1>1
<1>3. rest \in Seq(CallType) /\ Len(rest) = d - 1 /\ \A j \in 1..(d - 1) : rest[j] = frames[j]
  <2> HIDE DEF CallType
  <2> QED  BY <1>1, <1>2 DEF Front
<1>4. DOMAIN rest = 1..(d - 1)
  BY <1>3
<1>5. Len(rest) <= Len(t.oPath)
  <2>1. PICK L : L = Len(t.oPath)
    OBVIOUS
  <2>2. L \in Nat
    BY <2>1
  <2> QED  BY <1>1, <1>2, <1>3, <2>1, <2>2
<1>6. CallsOf(rest, t)
  BY <1>2, <1>3, <1>4, <1>5 DEF CallsOf
<1>7. ASSUME Promising(frames, t) PROVE Promising(rest, t)
  <2>1. PICK j \in DOMAIN frames : frames[j].sources \cap Ahead(t)[Len(t.oPath) - j] # {}
    BY <1>7 DEF Promising
  <2>2. j \in 1..(d - 1)
    BY <1>2, <2>1
  <2> QED  BY <1>3, <1>4, <2>1, <2>2 DEF Promising
<1> QED
  BY <1>6, <1>7

\* The first call.
LEMMA FirstCall ==
  ASSUME IsGraph, NEW t \in TripletType, t.oPath # NoPath,
         NEW frames, frames = <<Call(t.oPath, {t.oNode3})>>
  PROVE  CallsOf(frames, t) /\ (Mirrored(t) => Promising(frames, t))
<1> DEFINE call == Call(t.oPath, {t.oNode3})
<1>1. t.oPath \in Seq(Entries) /\ t.oNode3 \in Nodes
  <2> HIDE DEF Entries
  <2> QED  BY DEF TripletType
<1>2. Len(t.oPath) \in Nat \ {0}
  <2> HIDE DEF Entries
  <2> QED  BY <1>1 DEF NoPath
<1>3. call.oParent = t.oPath /\ call.sources = {t.oNode3} /\ call \in CallType
  <2> HIDE DEF Entries
  <2> QED  BY <1>1 DEF Call, CallType
<1> HIDE DEF call
<1>4. frames = <<call>>
  BY DEF call
<1>5. frames \in Seq(CallType) /\ Len(frames) = 1 /\ DOMAIN frames = {1} /\ frames[1] = call
  <2> HIDE DEF CallType
  <2> QED  BY <1>3, <1>4
<1>6. CallOK(call, t.oPath, 1)
  BY <1>2, <1>3 DEF CallOK
<1>7. CallsOf(frames, t)
  <2>1. Followed(t)[1] = {t.oNode3}
    BY FollowedIs
  <2>2. Len(frames) <= Len(t.oPath)
    BY <1>2, <1>5
  <2>3. \A j \in DOMAIN frames : CallOK(frames[j], t.oPath, j) /\ frames[j].sources \subseteq Followed(t)[j]
    BY <1>3, <1>5, <1>6, <2>1
  <2> QED  BY <1>5, <2>2, <2>3 DEF CallsOf
<1>8. ASSUME Mirrored(t) PROVE Promising(frames, t)
  <2>1. t.oNode3 \in Ahead(t)[Len(t.oPath) - 1]
    BY <1>8, MirroredAhead
  <2> QED  BY <1>3, <1>5, <2>1 DEF Promising
<1> QED
  BY <1>7, <1>8

LEMMA CallsKept ==
  ASSUME oCodeGraph' = oCodeGraph, NEW t, NEW frames
  PROVE  /\ CallsOf(frames, t) => CallsOf(frames, t)'
         /\ Promising(frames, t) => Promising(frames, t)'
<1>1. CallType' = CallType
  BY DEF CallType, Entries, Nodes
<1>2. Followed(t)' = Followed(t) /\ Ahead(t)' = Ahead(t)
  BY FollowedKept, AheadKept
<1> QED
  BY <1>1, <1>2 DEF CallsOf, CallOK, Promising

LEMMA GraphKept ==
  ASSUME [Next]_vars
  PROVE  oCodeGraph' = oCodeGraph
<1>1. FindTriplets => oCodeGraph' = oCodeGraph
  BY DEF FindTriplets
<1>2. Visit => oCodeGraph' = oCodeGraph
  BY DEF Visit
<1> QED
  BY <1>1, <1>2, OtherSteps DEF vars

\* What the cache or the comparison decides for a node.
LEMMA FollowStands ==
  ASSUME CacheInv, NEW x, KnownValid(x) \/ PairMatches(x)
  PROVE  Stands(Head(Top.oParent).oNode, x)
  BY DEF CacheInv, KnownValid, PairMatches, IsSame, Pair, Stands

LEMMA RefuseStands ==
  ASSUME CacheInv, NEW x, KnownInvalid(x) \/ (Unexplored(x) /\ ~PairMatches(x))
  PROVE  ~Stands(Head(Top.oParent).oNode, x) /\ ~Matches(Head(Top.oParent).oNode, x)
  BY DEF CacheInv, KnownInvalid, KnownValid, Unexplored, PairMatches, IsSame, Pair, Stands

LEMMA AssignedInvalid ==
  ASSUME NEW cache, NEW pair
  PROVE  /\ AssignInvalid(cache, pair).valid \subseteq cache.valid
         /\ AssignInvalid(cache, pair).invalid \subseteq cache.invalid \cup {pair}
  BY DEF AssignInvalid, Word

LEMMA AssignedValid ==
  ASSUME NEW cache, NEW pair
  PROVE  /\ AssignValid(cache, pair).valid = cache.valid \cup {pair}
         /\ AssignValid(cache, pair).invalid \subseteq cache.invalid
  BY DEF AssignValid

LEMMA CacheStep ==
  ASSUME CacheInv, [Next]_vars
  PROVE  CacheInv'
<1>1. \A m, n : Matches(m, n)' <=> Matches(m, n)
  BY GraphKept, MatchesKept
<1>2. ASSUME oEvalCache'.valid \subseteq oEvalCache.valid, NEW pair, ~Matches(pair[1], pair[2]),
             oEvalCache'.invalid \subseteq oEvalCache.invalid \cup {pair}
      PROVE  CacheInv'
  BY <1>1, <1>2 DEF CacheInv
<1>3. ASSUME NEW pair, oEvalCache'.valid = oEvalCache.valid \cup {pair}, Matches(pair[1], pair[2]),
             oEvalCache'.invalid \subseteq oEvalCache.invalid
      PROVE  CacheInv'
  BY <1>1, <1>3 DEF CacheInv
<1>4. ASSUME oEvalCache' = oEvalCache PROVE CacheInv'
  BY <1>1, <1>4 DEF CacheInv
<1>5. ASSUME NEW x, Follow(x) PROVE CacheInv'
  <2>1. CASE oEvalCache' = oEvalCache
    BY <1>4, <2>1
  <2>2. CASE oEvalCache' # oEvalCache
    <3>1. PairMatches(x) /\ oEvalCache' = AssignValid(oEvalCache, Pair(x))
      BY <1>5, <2>2 DEF Follow
    <3>2. Matches(Pair(x)[1], Pair(x)[2])
      BY <3>1 DEF PairMatches, Pair
    <3> QED  BY <1>3, <3>1, <3>2, AssignedValid
  <2> QED  BY <2>1, <2>2
<1>6. ASSUME NEW x, Refuse(x) PROVE CacheInv'
  <2>1. CASE oEvalCache' = oEvalCache
    BY <1>4, <2>1
  <2>2. CASE oEvalCache' # oEvalCache
    <3>1. /\ KnownInvalid(x) \/ (Unexplored(x) /\ ~PairMatches(x))
          /\ oEvalCache' = AssignInvalid(oEvalCache, Pair(x))
      BY <1>6, <2>2 DEF Refuse
    <3>2. ~Matches(Pair(x)[1], Pair(x)[2])
      BY <3>1, RefuseStands DEF Pair
    <3> QED  BY <1>2, <3>1, <3>2, AssignedInvalid
  <2> QED  BY <2>1, <2>2
<1>7. ASSUME FindTriplets \/ Visit \/ EndSearch \/ EndSearches PROVE CacheInv'
  BY <1>4, <1>7 DEF FindTriplets, Visit, EndSearch, EndSearches, mapVars
<1>8. ASSUME NEW n \in Nodes, BeginSearch(n) \/ NextCandidate(n) PROVE CacheInv'
  BY <1>4, <1>8 DEF BeginSearch, NextCandidate, mapVars
<1>9. CASE SkipTriplet \/ MapTriplet \/ ReturnFalse \/ NextTriplet \/ EndCandidate
  BY <1>4, <1>9 DEF SkipTriplet, MapTriplet, ReturnFalse, NextTriplet, EndCandidate, mapVars
<1>10. ASSUME NEW x \in Nodes, MatchFound(x) PROVE CacheInv'
  BY <1>4, <1>10 DEF MatchFound
<1>11. CASE NoMatchFound \/ TimeIsUp \/ UNCHANGED vars
  BY <1>4, <1>11 DEF NoMatchFound, TimeIsUp, vars, mapVars
<1> QED
  BY <1>5, <1>6, <1>7, <1>8, <1>9, <1>10, <1>11 DEF Next, Step

LEMMA TripletAtIs ==
  ASSUME TypeOK, oNode1 # NoNode, itTrip <= Len(aCandidates[oNode1])
  PROVE  /\ oNode1 \in DOMAIN aCandidates /\ itTrip \in DOMAIN aCandidates[oNode1]
         /\ TripletAt \in TripletType /\ TripletAt \in ToSet(aCandidates[oNode1])
<1>1. oNode1 \in DOMAIN aCandidates /\ aCandidates[oNode1] \in Seq(TripletType) /\ itTrip \in Nat \ {0}
  BY DEF TypeOK
<1>2. itTrip \in DOMAIN aCandidates[oNode1]
  <2> HIDE DEF TripletType
  <2> QED  BY <1>1
<1> HIDE DEF TripletType
<1> QED
  BY <1>1, <1>2 DEF TripletAt, ToSet

\* What the calls are about.
LEMMA InCall ==
  ASSUME TypeOK, CallsInv, calls # <<>>
  PROVE  /\ IsGraph /\ TripletAt \in TripletType /\ TripletAt.oPath # NoPath
         /\ CallsOf(calls, TripletAt)
         /\ Last(calls) = calls[Len(calls)]
<1>1. TripletAt \in TripletType
  BY TripletAtIs DEF CallsInv
<1>2. calls \in Seq(CallType)
  BY DEF CallsInv, CallsOf
<1>3. Last(calls) = calls[Len(calls)]
  BY DEF Last
<1> QED
  BY <1>1, <1>3 DEF CallsInv, Followable, TypeOK, IsGraph

\* The calls change, and nothing that they are about.
LEMMA CallsGoOn ==
  ASSUME CallsInv, calls # <<>>, UNCHANGED <<oCodeGraph, aCandidates, oNode1, itTrip, late, pc>>,
         NEW frames, frames = calls', CallsOf(frames, TripletAt),
         ~late /\ Mirrored(TripletAt) => Promising(frames, TripletAt)
  PROVE  CallsInv'
<1>1. PICK t : t = TripletAt
  OBVIOUS
<1>2. TripletAt' = t
  BY <1>1 DEF TripletAt
<1>3. CallsOf(frames, t)'
  BY <1>1, CallsKept
<1>4. ~late' /\ Mirrored(t)' => Promising(frames, t)'
  BY <1>1, CallsKept, MirroredKept
<1>5. pc' = "map" /\ oNode1' # NoNode /\ itTrip' <= Len(aCandidates'[oNode1']) /\ Followable(t)
  BY <1>1 DEF CallsInv
<1>6. CallsOf(calls, TripletAt)'
  BY <1>2, <1>3
<1>7. (~late /\ Mirrored(TripletAt) => Promising(calls, TripletAt))'
  BY <1>2, <1>4
<1>8. Followable(TripletAt)'
  BY <1>2, <1>5 DEF Followable
<1> QED
  BY <1>5, <1>6, <1>7, <1>8 DEF CallsInv

LEMMA CallsStep ==
  ASSUME TypeOK, CacheInv, CallsInv, [Next]_vars
  PROVE  CallsInv'
<1>1. PICK t : t = TripletAt
  OBVIOUS
<1>2. PICK frames : frames = calls'
  OBVIOUS
<1>3. PICK before : before = calls
  OBVIOUS
<1>4. ASSUME calls' = <<>> PROVE CallsInv'
  BY <1>4 DEF CallsInv
<1>5. ASSUME calls # <<>>
      PROVE  /\ IsGraph /\ t \in TripletType /\ t.oPath # NoPath
             /\ CallsOf(before, t) /\ before # <<>>
             /\ Top = before[Len(before)]
             /\ ~late /\ Mirrored(t) => Promising(before, t)
  BY <1>1, <1>3, <1>5, InCall DEF CallsInv, Top
<1>6. MapTriplet => CallsInv'
  <2>1. SUFFICES ASSUME MapTriplet PROVE CallsInv'
    OBVIOUS
  <2>2. /\ frames = <<Call(t.oPath, {t.oNode3})>> /\ Followable(t)
        /\ UNCHANGED <<oCodeGraph, aCandidates, oNode1, itTrip, late, pc>>
        /\ pc = "map" /\ oNode1 # NoNode /\ itTrip <= Len(aCandidates[oNode1])
    BY <1>1, <1>2, <2>1 DEF MapTriplet, AtTriplet, searchVars
  <2>3. IsGraph /\ t \in TripletType /\ t.oPath # NoPath
    BY <1>1, <2>2, TripletAtIs DEF TypeOK, IsGraph, Followable
  <2>4. CallsOf(frames, t) /\ (Mirrored(t) => Promising(frames, t))
    BY <2>2, <2>3, FirstCall
  <2>5. TripletAt' = t
    BY <1>1, <2>2 DEF TripletAt
  <2>6. CallsOf(frames, t)' /\ (Mirrored(t)' => Promising(frames, t)')
    BY <2>2, <2>4, CallsKept, MirroredKept
  <2>7. CallsOf(calls, TripletAt)' /\ (Mirrored(TripletAt) => Promising(calls, TripletAt))'
    BY <1>2, <2>5, <2>6
  <2>8. Followable(TripletAt)'
    BY <2>2, <2>5 DEF Followable
  <2> QED  BY <2>2, <2>7, <2>8 DEF CallsInv
<1>7. ASSUME NEW x \in Nodes, Follow(x) PROVE CallsInv'
  <2>1. /\ calls # <<>> /\ x \in Top.sources /\ ~AtRoot
        /\ KnownValid(x) \/ PairMatches(x)
        /\ calls' = Append(CallsAfter(x), Call(Tail(Top.oParent), From(x, Head(Top.oParent).eDirection)))
        /\ UNCHANGED <<oCodeGraph, aCandidates, oNode1, itTrip, late, pc>>
    BY <1>7 DEF Follow, Calling, searchVars
  <2>2. PICK top : top = Top
    OBVIOUS
  <2>3. PICK rest : rest = CallsAfter(x)
    OBVIOUS
  <2>4. Tries(before, x, rest)
    BY <1>3, <2>3 DEF CallsAfter, Tries
  <2>5. Stands(Head(top.oParent).oNode, x)
    BY <2>1, <2>2, FollowStands
  <2>6. GoesOn(rest, top, x, frames)
    BY <1>2, <2>1, <2>2, <2>3 DEF GoesOn
  <2>7. Len(top.oParent) # 1 /\ x \in top.sources /\ top = before[Len(before)]
    BY <1>5, <2>1, <2>2 DEF AtRoot
  <2>8. CallsOf(frames, t) /\ (Promising(before, t) => Promising(frames, t))
    <3>1. IsGraph /\ t \in TripletType /\ t.oPath # NoPath /\ CallsOf(before, t) /\ before # <<>>
      BY <1>5, <2>1
    <3> QED  BY <2>4, <2>5, <2>6, <2>7, <3>1, FollowedCalls
  <2> QED  BY <1>1, <1>2, <1>5, <2>1, <2>8, CallsGoOn
<1>8. ASSUME NEW x \in Nodes, Refuse(x) PROVE CallsInv'
  <2>1. /\ calls # <<>> /\ x \in Top.sources /\ calls' = CallsAfter(x)
        /\ UNCHANGED <<oCodeGraph, aCandidates, oNode1, itTrip, late, pc>>
    BY <1>8 DEF Refuse, Calling, searchVars
  <2>2. PICK top : top = Top
    OBVIOUS
  <2>3. Tries(before, x, frames) /\ before # <<>> /\ CallsOf(before, t)
    BY <1>2, <1>3, <1>5, <2>1 DEF CallsAfter, Tries
  <2>4. CallsOf(frames, t)
    BY <2>3, TriedCalls
  <2>5. ASSUME ~late PROVE x \notin Ahead(t)[Len(t.oPath) - Len(before)]
    <3> DEFINE d == Len(before)
               L == Len(t.oPath)
    <3>1. /\ d \in 1..L /\ Head(top.oParent) = t.oPath[d] /\ (Len(top.oParent) = 1 <=> d = L)
          /\ L \in Nat
      <4>1. top = before[Len(before)]
        BY <1>5, <2>1, <2>2
      <4>2. t.oPath \in Seq(Entries)
        <5>1. t \in TripletType
          BY <1>5, <2>1
        <5> HIDE DEF Entries
        <5> QED  BY <5>1 DEF TripletType
      <4>3. L \in Nat
        <5> HIDE DEF Entries
        <5> QED  BY <4>2
      <4> QED  BY <1>5, <2>1, <2>3, <4>1, <4>3, LastCall
    <3> HIDE DEF d, L
    <3>2. CASE AtRoot
      <4>1. x # t.oNode2
        BY <1>1, <1>8, <3>2 DEF Refuse, AtTarget
      <4>2. L - d = 0
        BY <2>2, <3>1, <3>2 DEF AtRoot
      <4>3. Ahead(t)[L - d] = {t.oNode2}
        BY <1>5, <2>1, <4>2, AheadIs
      <4> QED  BY <4>1, <4>3 DEF L, d
    <3>3. CASE ~AtRoot
      <4>1. KnownInvalid(x) \/ (Unexplored(x) /\ ~PairMatches(x))
        BY <1>8, <2>5, <3>3 DEF Refuse
      <4>2. ~Stands(t.oPath[d].oNode, x)
        BY <2>2, <3>1, <4>1, RefuseStands
      <4>3. L - d \in 1..(L - 1) /\ L - (L - d) = d
        BY <2>2, <3>1, <3>3 DEF AtRoot
      <4>4. Ahead(t)[L - d] = Before(t.oPath[d].oNode, t.oPath[d].eDirection, Ahead(t)[L - d - 1])
        BY <1>5, <2>1, <4>3, AheadIs DEF L
      <4> QED  BY <4>2, <4>4 DEF Before, L, d
    <3> QED  BY <3>2, <3>3
  <2>6. ~late /\ Mirrored(t) => Promising(frames, t)
    BY <1>5, <2>1, <2>3, <2>5, TriedPromising
  <2> QED  BY <1>1, <1>2, <2>1, <2>4, <2>6, CallsGoOn
<1>9. ReturnFalse => CallsInv'
  <2>1. SUFFICES ASSUME ReturnFalse PROVE CallsInv'
    OBVIOUS
  <2>2. /\ Len(calls) > 1 /\ Top.sources = {} /\ calls' = Front(calls)
        /\ UNCHANGED <<oCodeGraph, aCandidates, oNode1, itTrip, late, pc>>
    BY <2>1 DEF ReturnFalse, searchVars
  <2>3. calls # <<>>
    BY <2>2
  <2>4. CallsOf(frames, t) /\ (Promising(before, t) => Promising(frames, t))
    <3>1. Len(before) > 1 /\ before[Len(before)].sources = {} /\ frames = Front(before)
      BY <1>2, <1>3, <1>5, <2>2, <2>3
    <3> QED  BY <1>5, <2>3, <3>1, PoppedCalls
  <2> QED  BY <1>1, <1>2, <1>5, <2>2, <2>3, <2>4, CallsGoOn
<1>10. ASSUME UNCHANGED <<oCodeGraph, aCandidates, oNode1, itTrip, calls, pc>>, late' = late \/ late'
       PROVE  CallsInv'
  <2>1. TripletAt' = t
    BY <1>1, <1>10 DEF TripletAt
  <2>2. SUFFICES ASSUME calls # <<>> PROVE CallsInv'
    BY <1>4, <1>10
  <2>3. CallsOf(before, t)' /\ (Promising(before, t) => Promising(before, t)')
    BY <1>5, <1>10, <2>2, CallsKept
  <2>4. ~late' /\ Mirrored(t)' => Promising(before, t)'
    <3>1. late \in BOOLEAN
      BY DEF TypeOK
    <3> QED  BY <1>5, <1>10, <2>2, <2>3, <3>1, MirroredKept
  <2>5. CallsOf(calls, TripletAt)' /\ (~late /\ Mirrored(TripletAt) => Promising(calls, TripletAt))'
    BY <1>3, <1>10, <2>1, <2>3, <2>4
  <2>6. Followable(TripletAt)'
    BY <1>1, <2>1, <2>2 DEF CallsInv, Followable
  <2> QED  BY <1>10, <2>2, <2>5, <2>6 DEF CallsInv
<1>11. CASE TimeIsUp \/ UNCHANGED vars
  BY <1>10, <1>11 DEF TimeIsUp, vars, searchVars, mapVars
<1>12. ASSUME FindTriplets \/ Visit \/ EndSearch \/ EndSearches PROVE CallsInv'
  <2>1. calls' = calls /\ pc # "map"
    BY <1>12 DEF FindTriplets, Visit, EndSearch, EndSearches, mapVars
  <2> QED  BY <1>4, <2>1 DEF CallsInv
<1>13. ASSUME NEW n \in Nodes, BeginSearch(n) \/ NextCandidate(n) PROVE CallsInv'
  <2>1. calls' = calls /\ oNode1 = NoNode
    BY <1>13 DEF BeginSearch, NextCandidate, mapVars
  <2> QED  BY <1>4, <2>1 DEF CallsInv
<1>14. CASE SkipTriplet \/ NextTriplet \/ EndCandidate \/ NoMatchFound
  <2>1. calls' = <<>>
    BY <1>14 DEF SkipTriplet, NextTriplet, EndCandidate, NoMatchFound, AtTriplet, mapVars
  <2> QED  BY <1>4, <2>1
<1>15. ASSUME NEW x \in Nodes, MatchFound(x) PROVE CallsInv'
  BY <1>4, <1>15 DEF MatchFound
<1> QED
  BY <1>6, <1>7, <1>8, <1>9, <1>11, <1>12, <1>13, <1>14, <1>15 DEF Next, Step

LEMMA RefutedKept ==
  ASSUME oCodeGraph' = oCodeGraph, NEW t
  PROVE  Refuted(t)' <=> Refuted(t)
  BY MirroredKept DEF Refuted, Followable, dwDepth

LEMMA RefutedStep ==
  ASSUME TypeOK, CallsInv, RefutedInv, [Next]_vars
  PROVE  RefutedInv'
<1> DEFINE Behind(n, i) == n \in DOMAIN aCandidates \ left /\ i \in DOMAIN aCandidates[n]
                           /\ (n = oNode1 => i < itTrip)
<1>1. SUFFICES ASSUME pc' = "map", ~late', NEW n, NEW i, NEW t, Behind(n, i)', t = aCandidates'[n][i]
               PROVE  Refuted(t)
  <2>1. SUFFICES ASSUME pc' = "map", ~late'
                 PROVE  (\A n, i : Behind(n, i) => Refuted(aCandidates[n][i]))'
    BY DEF RefutedInv
  <2>2. SUFFICES ASSUME NEW n, NEW i, NEW t, Behind(n, i)', t = aCandidates'[n][i]
                 PROVE  Refuted(t)'
    BY <2>1
  <2>3. Refuted(t)
    BY <2>1, <2>2
  <2> QED  BY <2>3, GraphKept, RefutedKept
<1>4. ASSUME pc = "map", ~late, aCandidates' = aCandidates, Behind(n, i) PROVE Refuted(t)
  BY <1>1, <1>4 DEF RefutedInv
<1>5. ASSUME pc = "map", ~late, UNCHANGED <<aCandidates, left, oNode1, itTrip>> PROVE Refuted(t)
  BY <1>1, <1>4, <1>5
<1>6. /\ \A m \in DOMAIN aCandidates : DOMAIN aCandidates[m] = 1..Len(aCandidates[m])
                                       /\ Len(aCandidates[m]) \in Nat
      /\ itTrip \in Nat \ {0} /\ late \in BOOLEAN
      /\ NoNode \notin DOMAIN aCandidates
  <2>1. \A m \in DOMAIN aCandidates : aCandidates[m] \in Seq(TripletType)
    BY DEF TypeOK
  <2>2. \A m \in DOMAIN aCandidates : DOMAIN aCandidates[m] = 1..Len(aCandidates[m])
                                      /\ Len(aCandidates[m]) \in Nat
    <3> HIDE DEF TripletType
    <3> QED  BY <2>1
  <2>3. itTrip \in Nat \ {0} /\ late \in BOOLEAN /\ NoNode \notin DOMAIN aCandidates
    BY NoNodeIsNone DEF TypeOK, IsGraph
  <2> QED  BY <2>2, <2>3
<1>7. ASSUME UNCHANGED <<aCandidates, left, oNode1>>, pc = "map", ~late, itTrip' = itTrip + 1,
             oNode1 # NoNode, Refuted(TripletAt)
      PROVE  Refuted(t)
  <2>1. CASE n = oNode1 /\ i = itTrip
    BY <1>1, <1>7, <2>1 DEF TripletAt
  <2>2. CASE ~(n = oNode1 /\ i = itTrip)
    <3>1. n \in DOMAIN aCandidates \ left /\ i \in DOMAIN aCandidates[n] /\ (n = oNode1 => i < itTrip + 1)
      BY <1>1, <1>7
    <3>2. n = oNode1 => i < itTrip
      BY <1>6, <2>2, <3>1
    <3>3. Behind(n, i)
      BY <3>1, <3>2
    <3> QED  BY <1>4, <1>7, <3>3
  <2> QED  BY <2>1, <2>2
<1>8. CASE FindTriplets \/ Visit \/ EndSearch \/ EndSearches
  <2>1. pc' = "search" \/ left' = DOMAIN aCandidates'
    BY <1>8 DEF FindTriplets, Visit, EndSearch, EndSearches
  <2> QED  BY <1>1, <2>1
<1>9. ASSUME NEW m \in Nodes, BeginSearch(m) PROVE Refuted(t)
  BY <1>1, <1>9 DEF BeginSearch
<1>10. ASSUME NEW m \in Nodes, NextCandidate(m) PROVE Refuted(t)
  <2>1. /\ pc = "map" /\ ~late /\ aCandidates' = aCandidates /\ oNode1 = NoNode /\ oNode1' = m
        /\ left' = left \ {m} /\ itTrip' = 1
    BY <1>1, <1>10 DEF NextCandidate
  <2>2. n # m
    <3>1. ASSUME n = m PROVE FALSE
      <4>1. i \in 1..Len(aCandidates[n]) /\ i < 1 /\ Len(aCandidates[n]) \in Nat
        BY <1>1, <1>6, <2>1, <3>1
      <4> QED  BY <4>1
    <3> QED  BY <3>1
  <2>3. Behind(n, i)
    BY <1>1, <1>6, <2>1, <2>2
  <2> QED  BY <1>4, <2>1, <2>3
<1>11. CASE SkipTriplet
  <2>1. ~Followable(TripletAt)
    BY <1>11 DEF SkipTriplet
  <2>2. UNCHANGED <<aCandidates, left, oNode1>> /\ pc = "map" /\ ~late /\ itTrip' = itTrip + 1
        /\ oNode1 # NoNode
    BY <1>1, <1>11 DEF SkipTriplet, AtTriplet, searchVars
  <2> QED  BY <1>7, <2>1, <2>2 DEF Refuted
<1>12. CASE NextTriplet
  <2>1. /\ UNCHANGED <<aCandidates, left, oNode1>> /\ pc = "map" /\ ~late /\ itTrip' = itTrip + 1
        /\ Len(calls) = 1 /\ Top.sources = {}
    BY <1>1, <1>12 DEF NextTriplet, searchVars
  <2>2. calls # <<>>
    BY <2>1
  <2>3. oNode1 # NoNode /\ (Mirrored(TripletAt) => Promising(calls, TripletAt))
    BY <2>1, <2>2 DEF CallsInv
  <2>4. calls \in Seq(CallType) /\ Top = calls[Len(calls)]
    BY <2>2, InCall DEF CallsOf, Top
  <2>5. DOMAIN calls = {1} /\ calls[1].sources = {}
    <3> HIDE DEF CallType
    <3> QED  BY <2>1, <2>4
  <2>6. ~Promising(calls, TripletAt)
    BY <2>5 DEF Promising
  <2> QED  BY <1>7, <2>1, <2>3, <2>6 DEF Refuted
<1>13. CASE EndCandidate
  <2>1. /\ pc = "map" /\ ~late /\ UNCHANGED <<aCandidates, left, itTrip>>
        /\ ~(itTrip <= Len(aCandidates[oNode1]))
    BY <1>1, <1>13 DEF EndCandidate, AtTriplet, mapVars
  <2>2. n \in DOMAIN aCandidates \ left /\ i \in DOMAIN aCandidates[n]
    BY <1>1, <2>1
  <2>3. n = oNode1 => i < itTrip
    BY <1>6, <2>1, <2>2
  <2>4. Behind(n, i)
    BY <2>2, <2>3
  <2> QED  BY <1>4, <2>1, <2>4
<1>14. CASE MapTriplet \/ ReturnFalse
  BY <1>1, <1>5, <1>14 DEF MapTriplet, AtTriplet, ReturnFalse, searchVars
<1>15. ASSUME NEW x \in Nodes, MatchFound(x) \/ Follow(x) \/ Refuse(x) PROVE Refuted(t)
  BY <1>1, <1>5, <1>15 DEF MatchFound, Follow, Refuse, Calling, searchVars
<1>16. CASE NoMatchFound \/ TimeIsUp
  BY <1>1, <1>16 DEF NoMatchFound, TimeIsUp
<1>17. CASE UNCHANGED vars
  BY <1>1, <1>5, <1>17 DEF vars, searchVars, mapVars
<1> QED
  BY <1>8, <1>9, <1>10, <1>11, <1>12, <1>13, <1>14, <1>15, <1>16, <1>17 DEF Next, Step

LEMMA ResultStep ==
  ASSUME TypeOK, TripletsInv, SearchInv, CallsInv, RefutedInv, ResultInv, [Next]_vars
  PROVE  ResultInv'
<1>1. oCodeGraph' = oCodeGraph
  BY GraphKept
<1>2. ASSUME pc # "done", pc' # "done", lpOutput' = lpOutput PROVE ResultInv'
  BY <1>2 DEF ResultInv
<1>3. ASSUME NEW x \in Nodes, MatchFound(x) PROVE ResultInv'
  <2>1. /\ calls # <<>> /\ x \in Top.sources /\ AtRoot /\ x = TripletAt.oNode2
        /\ pc = "map" /\ pc' = "done" /\ lpOutput' = Result("MATCH_FOUND", TripletAt.oPath)
        /\ aCandidates' = aCandidates
    BY <1>3 DEF MatchFound, Calling, AtTarget
  <2>2. PICK t : t = TripletAt
    OBVIOUS
  <2>3. /\ IsGraph /\ t \in TripletType /\ t.oPath # NoPath /\ CallsOf(calls, t) /\ Followable(t)
        /\ t \in ToSet(aCandidates[oNode1]) /\ oNode1 \in DOMAIN aCandidates
    BY <2>1, <2>2, InCall, TripletAtIs DEF CallsInv
  <2>4. t.oNode2 \in Followed(t)[Len(t.oPath)]
    <3>1. PICK frames : frames = calls
      OBVIOUS
    <3>2. PICK d : d = Len(frames)
      OBVIOUS
    <3>3. Last(frames) = frames[d] /\ frames[d].sources \subseteq Followed(t)[d]
          /\ (Len(frames[d].oParent) = 1 <=> d = Len(t.oPath))
      BY <2>1, <2>3, <3>1, <3>2, LastCall
    <3> QED  BY <2>1, <2>2, <3>1, <3>3 DEF Top, AtRoot
  <2>5. ~Refuted(t)
    BY <2>3, <2>4, MirroredIs DEF Refuted
  <2>6. t.oNode1 = oNode1 /\ IsTriplet(t)
    BY <2>3 DEF TripletsInv
  <2>7. Shortest(t)
    BY <2>1, <2>3 DEF SearchInv, Searched
  <2>8. \A n \in {t.oNode1, t.oNode2} : \E i \in DOMAIN t.oPath : t.oPath[i].oNode = n
    <3> DEFINE p == t.oPath
    <3>1. p \in Seq(Entries) /\ p # <<>> /\ Last(p).oNode = t.oNode1 /\ Head(p).oNode = t.oNode2
      BY <2>7 DEF Shortest, ShortestTo, PathTo
    <3> HIDE DEF p, Entries
    <3>2. 1 \in DOMAIN p /\ Len(p) \in DOMAIN p /\ Head(p) = p[1] /\ Last(p) = p[Len(p)]
      BY <3>1 DEF Last
    <3> QED  BY <3>1, <3>2 DEF p
  <2>9. lpOutput'.oBFSPath = t.oPath /\ lpOutput'.eStatus = "MATCH_FOUND"
    BY <2>1, <2>2 DEF Result
  <2>10. Reported(t)'
    <3>1. ~Refuted(t)' /\ IsTriplet(t)'
      BY <1>1, <2>5, <2>6, RefutedKept, IsTripletKept
    <3>2. Mark(t.oNode1)' /\ Mark(t.oNode2)'
      BY <2>8, <2>9 DEF Mark
    <3> QED  BY <2>9, <3>1, <3>2 DEF Reported
  <2>11. t \in AllTriplets'
    BY <2>1, <2>3 DEF AllTriplets
  <2> QED  BY <2>1, <2>9, <2>10, <2>11 DEF ResultInv
<1>4. CASE NoMatchFound
  <2>1. /\ TimeExceeded \/ NothingLeft
        /\ lpOutput'.eStatus = "NO_MATCH_FOUND" /\ aCandidates' = aCandidates /\ late' = late
        /\ pc' = "done"
    BY <1>4 DEF NoMatchFound, Result
  <2>2. ASSUME ~late', NEW t \in AllTriplets' PROVE Refuted(t)'
    <3>1. pc = "map" /\ left = {} /\ oNode1 = NoNode /\ ~late
      BY <2>1, <2>2 DEF TimeExceeded, NothingLeft
    <3>2. PICK n \in DOMAIN aCandidates : t \in ToSet(aCandidates[n])
      BY <2>1, <2>2 DEF AllTriplets
    <3>3. PICK i \in DOMAIN aCandidates[n] : t = aCandidates[n][i]
      BY <3>2 DEF ToSet
    <3>4. n # oNode1
      BY <3>1, NoNodeIsNone DEF TypeOK, IsGraph
    <3>5. Refuted(t)
      BY <3>1, <3>3, <3>4 DEF RefutedInv
    <3> QED  BY <1>1, <3>5, RefutedKept
  <2>3. ASSUME NEW t \in AllTriplets', ~late' PROVE Refuted(t)'
    BY <2>2, <2>3
  <2> QED  BY <2>1, <2>3 DEF ResultInv
<1>5. CASE UNCHANGED vars
  <2>1. UNCHANGED <<pc, lpOutput, late, aCandidates>> /\ AllTriplets' = AllTriplets
    BY <1>5 DEF vars, AllTriplets
  <2>2. ASSUME NEW t, Reported(t) PROVE Reported(t)'
    BY <1>1, <2>1, <2>2, RefutedKept, IsTripletKept DEF Reported, Mark
  <2>3. ASSUME NEW t, Refuted(t) PROVE Refuted(t)'
    BY <1>1, <2>3, RefutedKept
  <2>4. (lpOutput.eStatus = "MATCH_FOUND" => \E t \in AllTriplets : Reported(t))'
    BY <2>1, <2>2 DEF ResultInv
  <2>5. (lpOutput.eStatus = "NO_MATCH_FOUND" /\ ~late => \A t \in AllTriplets : Refuted(t))'
    BY <2>1, <2>3 DEF ResultInv
  <2> QED  BY <2>1, <2>4, <2>5 DEF ResultInv
<1>6. CASE FindTriplets \/ Visit \/ EndSearch \/ EndSearches
  BY <1>2, <1>6 DEF FindTriplets, Visit, EndSearch, EndSearches
<1>7. ASSUME NEW n \in Nodes, BeginSearch(n) \/ NextCandidate(n) PROVE ResultInv'
  BY <1>2, <1>7 DEF BeginSearch, NextCandidate
<1>8. CASE SkipTriplet \/ MapTriplet \/ ReturnFalse \/ NextTriplet \/ EndCandidate
  BY <1>2, <1>8 DEF SkipTriplet, MapTriplet, ReturnFalse, NextTriplet, EndCandidate, AtTriplet
<1>9. ASSUME NEW x \in Nodes, Follow(x) \/ Refuse(x) PROVE ResultInv'
  BY <1>2, <1>9 DEF Follow, Refuse, Calling
<1>10. CASE TimeIsUp
  BY <1>2, <1>10 DEF TimeIsUp
<1> QED
  BY <1>3, <1>4, <1>5, <1>6, <1>7, <1>8, <1>9, <1>10 DEF Next, Step

LEMMA MapInit == Init => MapInv
  BY DEF Init, MapInv, CacheInv, CallsInv, RefutedInv, ResultInv, Result

LEMMA ResultIsExact ==
  ASSUME ResultInv
  PROVE  MatchExact
<1> DEFINE matches == {t \in AllTriplets : Followable(t) /\ Mirrored(t)}
<1>1. \A t \in AllTriplets : t \in matches <=> ~Refuted(t)
  BY DEF Refuted
<1>2. ASSUME lpOutput.eStatus = "MATCH_FOUND"
      PROVE  \E t \in matches :
               IsTriplet(t) /\ lpOutput.oBFSPath = t.oPath /\ Mark(t.oNode1) /\ Mark(t.oNode2)
  <2>1. PICK t \in AllTriplets : Reported(t)
    BY <1>2 DEF ResultInv
  <2> QED  BY <1>1, <2>1 DEF Reported
<1>3. ASSUME lpOutput.eStatus = "NO_MATCH_FOUND", ~late PROVE matches = {}
  BY <1>1, <1>3 DEF ResultInv
<1> HIDE DEF matches
<1>4. /\ lpOutput.eStatus = "MATCH_FOUND" =>
           \E t \in matches :
             IsTriplet(t) /\ lpOutput.oBFSPath = t.oPath /\ Mark(t.oNode1) /\ Mark(t.oNode2)
      /\ lpOutput.eStatus = "NO_MATCH_FOUND" /\ ~late => matches = {}
  BY <1>2, <1>3
<1> QED
  BY <1>4 DEF MatchExact, matches

(***************************************************************************)
(* A match that Evaluate reports is one, and without a timeout none is      *)
(* missed: for every graph, every order in which the hashed containers are  *)
(* iterated, and whatever words the sparse matrix oEvalCache has lost.      *)
(***************************************************************************)
THEOREM MatchExactAlways == Spec => []MatchExact
<1> DEFINE I == TypeOK /\ TripletsInv /\ SearchInv
<1>1. Init => MapInv
  BY MapInit
<1>2. I /\ MapInv /\ [Next]_vars => MapInv'
  BY CacheStep, CallsStep, RefutedStep, ResultStep DEF MapInv
<1>3. MapInv => MatchExact
  BY ResultIsExact DEF MapInv
<1>4. Spec => []I
  BY Searches
<1> HIDE DEF I
<1> QED
  BY <1>1, <1>2, <1>3, <1>4, PTL DEF Spec
=============================================================================
