---------------------- MODULE BlockPermutationEvaluator ----------------------
(***************************************************************************)
(* BlockPermutationEvaluatorImpl: the search for a sequential block         *)
(* permutation in the data flow graph of a function.                        *)
(*                                                                          *)
(* Loads from one base at three equidistant offsets are taken for blocks.   *)
(* A breadth-first search finds a path from the first to the second, and    *)
(* the graph matches when the nodes of that path can be followed, node by   *)
(* compatible node, from the third block to the second as well.             *)
(*                                                                          *)
(* A BFSPath is here the sequence of its nodes, from its end to its root,   *)
(* each with the direction it was entered in.  BFSMapPath calls itself: its *)
(* calls under way are the frames here.  The containers that are hashed are *)
(* iterated in any order.  The clock is a flag: time is up, or not.         *)
(***************************************************************************)
EXTENDS Integers, FiniteSets, SequencesExt

CONSTANTS CodeGraphs,   \* the graphs that are evaluated
          Modulus,      \* 2^w, for constants of w bits: 2^32
          MinDistance,  \* the least distance of two blocks: 16
          MinDepth,     \* the least length of a path: 4
          BlockSize     \* nodes in a word of the sparse matrix: 32

ASSUME LimitsAssumption ==
  /\ Modulus \in Nat \ {0} /\ BlockSize \in Nat \ {0}
  /\ MinDistance \in Nat \ {0} /\ MinDepth \in Nat \ {0}

(***************************************************************************)
(* What Evaluate is given: a graph of finitely many numbered nodes.  A node *)
(* is made of nodes that were there before, a load of its address.          *)
(***************************************************************************)
ASSUME CodeGraphsAssumption ==
  \A g \in CodeGraphs :
    /\ DOMAIN g.type \subseteq Nat /\ IsFiniteSet(DOMAIN g.type)
    /\ g.inputs \in [DOMAIN g.type -> Seq(DOMAIN g.type)]
    /\ \A n \in DOMAIN g.type :
         /\ \A k \in DOMAIN g.inputs[n] : g.inputs[n][k] < n
         /\ g.type[n] = "LOAD" => g.inputs[n] # <<>>
         /\ g.type[n] = "CONSTANT" => g.value[n] \in 0..(Modulus - 1)

VARIABLES
  oCodeGraph,
  aCandidates,   \* first block -> its triplets
  left,          \* the candidates that the loop has still to visit
  oNode1,        \* the candidate it visits
  aQueue,        \* of the breadth-first search
  aFlaggedNodes, \* the nodes that were in the queue
  itTrip,        \* the triplet of oNode1 that is looked at
  oEvalCache,    \* pairs of nodes that are known to match, or not to match
  calls,         \* the calls of BFSMapPath
  late,          \* more than dwMaxEvaluationTime has passed
  lpOutput,      \* the result
  pc             \* what is done next

searchVars == <<oNode1, aQueue, aFlaggedNodes>>
mapVars == <<itTrip, oEvalCache, calls>>
vars == <<oCodeGraph, aCandidates, left, searchVars, mapVars, late, lpOutput, pc>>

-----------------------------------------------------------------------------
(* The graph: type, value (of constants and registers) and inputs of nodes *)

Nodes == DOMAIN oCodeGraph.type
TypeOf(n) == oCodeGraph.type[n]
InputsOf(n) == ToSet(oCodeGraph.inputs[n])
OutputsOf(n) == {m \in Nodes : n \in InputsOf(m)}

NoNode == -1

\* node_type_spec_t; Matches is equality
TypeSpec(n) == <<TypeOf(n), oCodeGraph.value[n]>>

-----------------------------------------------------------------------------
(* SpecString: the base and the offset of the address that a load reads *)

Address(load) == Head(oCodeGraph.inputs[load])

Terms(load) ==
  IF TypeOf(Address(load)) = "ADD" THEN oCodeGraph.inputs[Address(load)] ELSE <<Address(load)>>

IsConstant(n) == TypeOf(n) = "CONSTANT"

\* szNodeIds: the bag of what is added, without the constants
Base(load) ==
  LET terms == Terms(load)
  IN [n \in {m \in ToSet(terms) : ~IsConstant(m)} |-> Cardinality({i \in DOMAIN terms : terms[i] = n})]

\* dwConstant, which wraps around
Offset(load) ==
  LET sum[i \in 0..Len(Terms(load))] ==
        IF i = 0 THEN 0
        ELSE IF IsConstant(Terms(load)[i])
        THEN (sum[i - 1] + oCodeGraph.value[Terms(load)[i]]) % Modulus
        ELSE sum[i - 1]
  IN sum[Len(Terms(load))]

-----------------------------------------------------------------------------
(* The triplets *)

Loads == {n \in Nodes : TypeOf(n) = "LOAD"}

\* the entry of a base in aSpecMap, by offset
SpecMap(base) ==
  CHOOSE loads \in SetToSeqs({n \in Loads : Base(n) = base}) :
    \A i, j \in 1..Len(loads) : i < j => Offset(loads[i]) <= Offset(loads[j])

\* dwDiff < 16 for the int dwDiff, which may be negative
TooClose(diff) == diff < MinDistance \/ diff >= Modulus \div 2

\* where the loop for itThree stops, if it stops at the offset it looks for
Third(loads, two, diff) ==
  {k \in (two + 1)..Len(loads) : Offset(loads[k]) = (Offset(loads[two]) + diff) % Modulus}

NoPath == <<>>
Result(eStatus, oBFSPath) == [eStatus |-> eStatus, oBFSPath |-> oBFSPath]
Triplet(one, two, three) == [oNode1 |-> one, oNode2 |-> two, oNode3 |-> three, oPath |-> NoPath]

(***************************************************************************)
(* The loops over itOne and itTwo, with the aDistances found so far.  When  *)
(* there is no third block at a new distance, itOne is given up and with it *)
(* the distances of the loads that follow itTwo.                            *)
(***************************************************************************)
Triplets(loads) ==
  LET L == Len(loads)
      scan[at \in (1..(L + 1)) \X (1..(L + 2)) \X SUBSET (0..(Modulus - 1))] ==
        LET one == at[1]
            two == at[2]
            aDistances == at[3]
            diff == (Offset(loads[two]) - Offset(loads[one])) % Modulus
            three == Third(loads, two, diff)
        IN IF one > L THEN <<>>
           ELSE IF two > L THEN scan[<<one + 1, one + 2, aDistances>>]
           ELSE IF TooClose(diff) \/ diff \in aDistances THEN scan[<<one, two + 1, aDistances>>]
           ELSE IF three = {} THEN scan[<<one + 1, one + 2, aDistances>>]
           ELSE <<Triplet(loads[one], loads[two], loads[CHOOSE k \in three : TRUE])>>
                \o scan[<<one, two + 1, aDistances \cup {diff}>>]
  IN IF L < 3 THEN <<>> ELSE scan[<<1, 2, {}>>]

\* those of the first block n, in the order they were found
TripletsOf(list, n) ==
  LET of[i \in 0..Len(list)] ==
        IF i = 0 THEN <<>>
        ELSE IF list[i].oNode1 = n THEN Append(of[i - 1], list[i]) ELSE of[i - 1]
  IN of[Len(list)]

\* the triplets of every base, by their first block
TripletsFrom ==
  LET found == {Triplets(SpecMap(base)) : base \in {Base(n) : n \in Loads}}
  IN [n \in {t.oNode1 : t \in UNION {ToSet(list) : list \in found}} |->
        TripletsOf(CHOOSE list \in found : \E t \in ToSet(list) : t.oNode1 = n, n)]

Init ==
  /\ oCodeGraph \in CodeGraphs
  /\ aCandidates = <<>>
  /\ left = {} /\ oNode1 = NoNode
  /\ aQueue = <<>> /\ aFlaggedNodes = {}
  /\ itTrip = 1 /\ oEvalCache = [valid |-> {}, invalid |-> {}] /\ calls = <<>>
  /\ late = FALSE /\ lpOutput = Result("NONE", NoPath)
  /\ pc = "triplets"

FindTriplets ==
  /\ pc = "triplets"
  /\ aCandidates' = TripletsFrom
  /\ left' = DOMAIN aCandidates'
  /\ pc' = "search"
  /\ UNCHANGED <<oCodeGraph, searchVars, mapVars, late, lpOutput>>

-----------------------------------------------------------------------------
(* BreadthFirstSearch *)

Entry(n, direction) == [oNode |-> n, eDirection |-> direction]
dwDepth(path) == Len(path) - 1

BeginSearch(n) ==
  /\ pc = "search" /\ oNode1 = NoNode /\ n \in left
  /\ left' = left \ {n}
  /\ oNode1' = n
  /\ aQueue' = <<<<Entry(n, "DOWN")>>>>
  /\ aFlaggedNodes' = {n}
  /\ UNCHANGED <<oCodeGraph, aCandidates, mapVars, late, lpOutput, pc>>

\* aOutputMap: the second blocks of the triplets of a first block
SecondBlocks(one) == {t.oNode2 : t \in ToSet(aCandidates[one])}

\* the search does not go on from n
IsEnd(n, one) ==
  /\ n \notin SecondBlocks(one)
  /\ \/ TypeOf(n) \in {"CONSTANT", "STORE", "REGISTER"}
     \/ n # one /\ TypeOf(n) = "LOAD" /\ Base(n) = Base(one)

Reached(t, path) == IF t.oNode2 = Head(path).oNode THEN [t EXCEPT !.oPath = path] ELSE t

\* the inputs that are not in the queue yet, in their order
NewInputs(n) ==
  LET inputs == IF n = oNode1 THEN <<>> ELSE oCodeGraph.inputs[n]
      new[i \in 0..Len(inputs)] ==
        IF i = 0 THEN <<>>
        ELSE IF inputs[i] \in aFlaggedNodes \cup ToSet(new[i - 1]) THEN new[i - 1]
        ELSE Append(new[i - 1], inputs[i])
  IN new[Len(inputs)]

NewOutputs(n) == OutputsOf(n) \ aFlaggedNodes

Longer(path, nodes, direction) ==
  [i \in 1..Len(nodes) |-> <<Entry(nodes[i], direction)>> \o path]

\* Mutant of Enqueued: a stack
Pushed(queue, paths) == paths \o queue

Enqueued(queue, paths) == queue \o paths

Visit ==
  /\ pc = "search" /\ aQueue # <<>>
  /\ LET oCurrent == Head(aQueue)
         n == Head(oCurrent).oNode
     IN /\ aCandidates' = [aCandidates EXCEPT ![oNode1] =
                             [i \in DOMAIN @ |-> Reached(@[i], oCurrent)]]
        /\ IF IsEnd(n, oNode1)
           THEN aQueue' = Tail(aQueue) /\ UNCHANGED aFlaggedNodes
           ELSE \E outputs \in SetToSeqs(NewOutputs(n)) :
                  /\ aQueue' = Enqueued(Tail(aQueue), Longer(oCurrent, NewInputs(n), "UP")
                                                      \o Longer(oCurrent, outputs, "DOWN"))
                  /\ aFlaggedNodes' = aFlaggedNodes \cup ToSet(NewInputs(n)) \cup NewOutputs(n)
  /\ UNCHANGED <<oCodeGraph, left, oNode1, mapVars, late, lpOutput, pc>>

\* the queue is empty, and there is time for the next candidate
EndSearch ==
  /\ pc = "search" /\ oNode1 # NoNode /\ aQueue = <<>> /\ ~late
  /\ oNode1' = NoNode
  /\ UNCHANGED <<oCodeGraph, aCandidates, left, aQueue, aFlaggedNodes, mapVars, late, lpOutput, pc>>

\* the second loop over the candidates begins
EndSearches ==
  /\ pc = "search" /\ oNode1 = NoNode /\ left = {}
  /\ left' = DOMAIN aCandidates
  /\ pc' = "map"
  /\ UNCHANGED <<oCodeGraph, aCandidates, searchVars, mapVars, late, lpOutput>>

-----------------------------------------------------------------------------
(* The sparse matrix oEvalCache: a word holds what is known of one node of  *)
(* the path and BlockSize others, and is erased when no pair of it matches. *)

InWord(pair) == <<pair[1], pair[2] \div BlockSize>>
Word(cache, pair) == {q \in cache : InWord(q) = InWord(pair)}

AssignValid(cache, pair) ==
  [valid |-> cache.valid \cup {pair}, invalid |-> cache.invalid \ {pair}]

AssignInvalid(cache, pair) ==
  LET valid == cache.valid \ {pair}
  IN [valid |-> valid,
      invalid |-> IF Word(valid, pair) = {} THEN cache.invalid \ Word(cache.invalid, pair)
                  ELSE cache.invalid \cup {pair}]

-----------------------------------------------------------------------------
(* BFSMapPath *)

\* how many of the nodes there are of each type
Specs(nodes) ==
  [spec \in {TypeSpec(n) : n \in nodes} |-> Cardinality({n \in nodes : TypeSpec(n) = spec})]

\* any of these types could indicate an IV
MayBeIV(n) == TypeOf(n) \in {"LOAD", "REGISTER", "CONSTANT"}

(***************************************************************************)
(* A node of the path matches oSource: but for what may be an IV, it has no *)
(* input that oSource has not, and it has all the outputs of oSource.       *)
(***************************************************************************)
Matches(n, oSource) ==
  /\ TypeSpec(n) = TypeSpec(oSource)
  /\ Specs({m \in InputsOf(n) : ~MayBeIV(m)}) \sqsubseteq Specs(InputsOf(oSource))
  /\ Specs(OutputsOf(oSource)) \sqsubseteq Specs(OutputsOf(n))

\* A call: the path that is left to follow, and the nodes to go on from.
Call(oParent, sources) == [oParent |-> oParent, sources |-> sources]

Top == Last(calls)
TripletAt == aCandidates[oNode1][itTrip]

\* the nodes that oSource is entered from, or goes to
From(oSource, direction) ==
  IF direction = "DOWN" THEN InputsOf(oSource) ELSE OutputsOf(oSource)

NextCandidate(n) ==
  /\ pc = "map" /\ oNode1 = NoNode /\ n \in left
  /\ left' = left \ {n}
  /\ oNode1' = n
  /\ itTrip' = 1
  /\ UNCHANGED <<oCodeGraph, aCandidates, aQueue, aFlaggedNodes, oEvalCache, calls, late, lpOutput, pc>>

AtTriplet ==
  /\ pc = "map" /\ oNode1 # NoNode /\ calls = <<>>
  /\ itTrip <= Len(aCandidates[oNode1])

Followable(t) == t.oPath # NoPath /\ dwDepth(t.oPath) >= MinDepth

SkipTriplet ==
  /\ AtTriplet /\ ~Followable(TripletAt)
  /\ itTrip' = itTrip + 1
  /\ UNCHANGED <<oCodeGraph, aCandidates, left, searchVars, oEvalCache, calls, late, lpOutput, pc>>

MapTriplet ==
  /\ AtTriplet /\ Followable(TripletAt)
  /\ calls' = <<Call(TripletAt.oPath, {TripletAt.oNode3})>>
  /\ UNCHANGED <<oCodeGraph, aCandidates, left, searchVars, itTrip, oEvalCache, late, lpOutput, pc>>

\* BFSMapPath is called for one of the nodes to go on from
Calling(oSource) == pc = "map" /\ calls # <<>> /\ oSource \in Top.sources

Tried(sources, oSource) == sources \ {oSource}

CallsAfter(oSource) ==
  [calls EXCEPT ![Len(calls)].sources = Tried(@, oSource)]

AtRoot == Len(Top.oParent) = 1

\* Mutant of Pair: the cache is asked for one of the two nodes
SourceOnly(oSource) == <<NoNode, oSource>>

Pair(oSource) == <<Head(Top.oParent).oNode, oSource>>

\* what the cache says of the pair, if it is asked
IsSame(oSource) == Head(Top.oParent).oNode = oSource
KnownValid(oSource) == IsSame(oSource) \/ Pair(oSource) \in oEvalCache.valid
KnownInvalid(oSource) == ~IsSame(oSource) /\ Pair(oSource) \in oEvalCache.invalid
Unexplored(oSource) == ~KnownValid(oSource) /\ ~KnownInvalid(oSource)
PairMatches(oSource) == Matches(Head(Top.oParent).oNode, oSource)

AtTarget(oSource) == oSource = TripletAt.oNode2

MatchFound(oSource) ==
  /\ Calling(oSource) /\ AtRoot /\ AtTarget(oSource)
  /\ lpOutput' = Result("MATCH_FOUND", TripletAt.oPath)
  /\ calls' = <<>>
  /\ pc' = "done"
  /\ UNCHANGED <<oCodeGraph, aCandidates, left, searchVars, itTrip, oEvalCache, late>>

\* the call goes on: the rest of the path is followed from oSource
Follow(oSource) ==
  /\ Calling(oSource) /\ ~AtRoot
  /\ \/ KnownValid(oSource) /\ UNCHANGED oEvalCache
     \/ /\ Unexplored(oSource) /\ ~late /\ PairMatches(oSource)
        /\ oEvalCache' = AssignValid(oEvalCache, Pair(oSource))
  /\ calls' = Append(CallsAfter(oSource),
                     Call(Tail(Top.oParent), From(oSource, Head(Top.oParent).eDirection)))
  /\ UNCHANGED <<oCodeGraph, aCandidates, left, searchVars, itTrip, late, lpOutput, pc>>

\* the call returns false at once
Refuse(oSource) ==
  /\ Calling(oSource)
  /\ \/ AtRoot /\ ~AtTarget(oSource) /\ UNCHANGED oEvalCache
     \/ ~AtRoot /\ Unexplored(oSource) /\ late /\ UNCHANGED oEvalCache
     \/ /\ ~AtRoot
        /\ KnownInvalid(oSource) \/ (Unexplored(oSource) /\ ~late /\ ~PairMatches(oSource))
        /\ oEvalCache' = AssignInvalid(oEvalCache, Pair(oSource))
  /\ calls' = CallsAfter(oSource)
  /\ UNCHANGED <<oCodeGraph, aCandidates, left, searchVars, itTrip, late, lpOutput, pc>>

\* the loop of a call ends: it returns false
ReturnFalse ==
  /\ pc = "map" /\ Len(calls) > 1 /\ Top.sources = {}
  /\ calls' = Front(calls)
  /\ UNCHANGED <<oCodeGraph, aCandidates, left, searchVars, itTrip, oEvalCache, late, lpOutput, pc>>

\* the first call has returned false, and there is time for the next triplet
NextTriplet ==
  /\ pc = "map" /\ Len(calls) = 1 /\ Top.sources = {} /\ ~late
  /\ calls' = <<>>
  /\ itTrip' = itTrip + 1
  /\ UNCHANGED <<oCodeGraph, aCandidates, left, searchVars, oEvalCache, late, lpOutput, pc>>

EndCandidate ==
  /\ pc = "map" /\ oNode1 # NoNode /\ calls = <<>> /\ ~AtTriplet
  /\ oNode1' = NoNode
  /\ UNCHANGED <<oCodeGraph, aCandidates, left, aQueue, aFlaggedNodes, mapVars, late, lpOutput, pc>>

-----------------------------------------------------------------------------
(* The end *)

\* what Evaluate finds when it looks at the clock, after a search or a mapping
TimeExceeded ==
  /\ late
  /\ \/ pc = "search" /\ oNode1 # NoNode /\ aQueue = <<>>
     \/ pc = "map" /\ Len(calls) = 1 /\ Top.sources = {}

NothingLeft == pc = "map" /\ oNode1 = NoNode /\ left = {}

NoMatchFound ==
  /\ TimeExceeded \/ NothingLeft
  /\ lpOutput' = Result("NO_MATCH_FOUND", NoPath)
  /\ calls' = <<>>
  /\ pc' = "done"
  /\ UNCHANGED <<oCodeGraph, aCandidates, left, searchVars, itTrip, oEvalCache, late>>

\* the display marks the nodes of the path that was found
Mark(oCodeNode) == \E i \in DOMAIN lpOutput.oBFSPath : lpOutput.oBFSPath[i].oNode = oCodeNode

TimeIsUp ==
  /\ pc # "done" /\ ~late
  /\ late' = TRUE
  /\ UNCHANGED <<oCodeGraph, aCandidates, left, searchVars, mapVars, lpOutput, pc>>

Step ==
  \/ FindTriplets
  \/ (\E n \in Nodes : BeginSearch(n)) \/ Visit \/ EndSearch \/ EndSearches
  \/ (\E n \in Nodes : NextCandidate(n)) \/ SkipTriplet \/ MapTriplet
  \/ \E oSource \in Nodes : MatchFound(oSource) \/ Follow(oSource) \/ Refuse(oSource)
  \/ ReturnFalse \/ NextTriplet \/ EndCandidate \/ NoMatchFound

Next == Step \/ TimeIsUp

Spec == Init /\ [][Next]_vars

-----------------------------------------------------------------------------
(* Properties *)

AllTriplets == UNION {ToSet(aCandidates[n]) : n \in DOMAIN aCandidates}

\* Three loads from one base, as far from each other, and far enough.
IsTriplet(t) ==
  /\ {t.oNode1, t.oNode2, t.oNode3} \subseteq Loads
  /\ Base(t.oNode1) = Base(t.oNode2) /\ Base(t.oNode2) = Base(t.oNode3)
  /\ Offset(t.oNode2) - Offset(t.oNode1) = Offset(t.oNode3) - Offset(t.oNode2)
  /\ Offset(t.oNode2) - Offset(t.oNode1) >= MinDistance

\* Where a path from the load one may go from n: not up from its root.
Neighbours(n, one) ==
  IF IsEnd(n, one) THEN {}
  ELSE IF n = one THEN OutputsOf(n)
  ELSE InputsOf(n) \cup OutputsOf(n)

\* The nodes that such a path reaches in at most k steps.
Within(one, k) ==
  LET within[i \in 0..k] ==
        IF i = 0 THEN {one}
        ELSE LET before == within[i - 1]
             IN before \cup UNION {Neighbours(n, one) : n \in before}
  IN within[k]

\* The path of a triplet leads from its first block to its second.
Leads(t) ==
  /\ Head(t.oPath).oNode = t.oNode2
  /\ Last(t.oPath).oNode = t.oNode1
  /\ \A i \in 1..dwDepth(t.oPath) :
       t.oPath[i].oNode \in
         IF t.oPath[i].eDirection = "DOWN" THEN OutputsOf(t.oPath[i + 1].oNode)
         ELSE InputsOf(t.oPath[i + 1].oNode)

(***************************************************************************)
(* When the searches are over, every triplet whose second block can be      *)
(* reached has a path to it, and no shorter one exists: in whatever order   *)
(* inputs and outputs are queued, and although one search serves all the    *)
(* triplets of a block and goes on behind the blocks it looks for.          *)
(***************************************************************************)
ShortestPaths ==
  pc \in {"map", "done"} /\ (pc = "done" => ~late) =>
    \A t \in AllTriplets :
      IF t.oPath = NoPath THEN t.oNode2 \notin Within(t.oNode1, Cardinality(Nodes))
      ELSE Leads(t) /\ t.oNode2 \notin Within(t.oNode1, dwDepth(t.oPath) - 1)

\* The nodes that may stand for n among those of a set.
StandingFor(n, nodes) == {m \in nodes : m = n \/ Matches(n, m)}

\* The path of a triplet can be followed from its third block to its second.
Mirrored(t) ==
  LET follow[i \in 1..Len(t.oPath)] ==
        IF i = 1 THEN {t.oNode3}
        ELSE UNION {From(m, t.oPath[i - 1].eDirection) :
                      m \in StandingFor(t.oPath[i - 1].oNode, follow[i - 1])}
  IN t.oNode2 \in follow[Len(t.oPath)]

(***************************************************************************)
(* A match that is reported is one: its blocks are equidistant, its path, of at  *)
(* least four steps, can be followed from the third block to the second,    *)
(* and its first and second block are marked.  When time was not up, none   *)
(* is missed: the cache, which loses words and is kept from triplet to      *)
(* triplet, never decides otherwise than the comparison it stands for.      *)
(***************************************************************************)
MatchExact ==
  LET matches == {t \in AllTriplets : Followable(t) /\ Mirrored(t)}
  IN /\ lpOutput.eStatus = "MATCH_FOUND" =>
          \E t \in matches :
            IsTriplet(t) /\ lpOutput.oBFSPath = t.oPath /\ Mark(t.oNode1) /\ Mark(t.oNode2)
     /\ lpOutput.eStatus = "NO_MATCH_FOUND" /\ ~late => matches = {}
=============================================================================
