--------------------------- MODULE Builder_proofs ----------------------------
(***************************************************************************)
(* Theorems about two parts of a graph builder: the call stack of its       *)
(* processor, which stays below the limit, and the cleanup of the graph     *)
(* when it is done, for graphs of any size: nothing useful is removed,      *)
(* nothing useless is left, and the arcs match in the end.                  *)
(***************************************************************************)
EXTENDS GraphCleanup, CallStack, FiniteSetTheorems, WellFoundedInduction, TLAPS

-----------------------------------------------------------------------------
(* GraphCleanup *)

(***************************************************************************)
(* A set of natural numbers has a least element.                            *)
(***************************************************************************)
LEMMA LeastNumber ==
  ASSUME NEW T, T \subseteq Nat, T # {}
  PROVE  \E x \in T : \A y \in T : x <= y
<1>1. PICK x \in T : \A y \in T : ~(<<y, x>> \in OpToRel(<, Nat))
  BY NatLessThanWellFounded, WFMin
<1>2. \A y \in T : ~(y < x)
  BY <1>1 DEF OpToRel
<1> QED
  BY <1>2

(***************************************************************************)
(* A set of nodes has a newest one.                                         *)
(***************************************************************************)
LEMMA NewestNode ==
  ASSUME NEW T, T \subseteq Node, T # {}
  PROVE  \E x \in T : \A y \in T : y <= x
<1> DEFINE Ages == {a \in Nat : NumNodes - a \in T}
<1>1. \A x \in T : NumNodes - x \in Ages /\ x \in Int
  BY NumNodesAssumption DEF Node
<1>2. PICK a \in Ages : \A b \in Ages : a <= b
  <2>1. Ages \subseteq Nat /\ Ages # {}
    BY <1>1
  <2> QED
    BY <2>1, LeastNumber
<1>3. \A y \in T : y <= NumNodes - a
  BY <1>1, <1>2, NumNodesAssumption
<1> QED
  BY <1>2, <1>3

(***************************************************************************)
(* The comparison of numbers in Cleanup_Impl is one of sets: n is in use    *)
(* while one of its outputs is not scheduled.                               *)
(***************************************************************************)
LEMMA InUseExactly ==
  ASSUME TypeOK, Untouched, CountsExact, stack # <<>>, NEW n \in Node
  PROVE  InUse(n) <=> ~(UsesOf(n) \subseteq aScheduledForRemoval)
<1>1. /\ aOutputNodes[n] = UsesOf(n)
      /\ aNumChildrenRemoved[n] = UsesOf(n) \cap aScheduledForRemoval
  BY DEF Untouched, CountsExact
<1>2. IsFiniteSet(UsesOf(n))
  <2>1. IsFiniteSet(Node)
    BY FS_Interval, NumNodesAssumption DEF Node
  <2>2. UsesOf(n) \in SUBSET Node
    BY DEF UsesOf
  <2> QED
    BY <2>1, <2>2, FS_Subset
<1>3. Cardinality(UsesOf(n) \cap aScheduledForRemoval) = Cardinality(UsesOf(n))
        => UsesOf(n) \subseteq aScheduledForRemoval
  <2>1. UsesOf(n) \cap aScheduledForRemoval \in SUBSET UsesOf(n)
    OBVIOUS
  <2>2. Cardinality(UsesOf(n)) = Cardinality(UsesOf(n) \cap aScheduledForRemoval)
          => UsesOf(n) = UsesOf(n) \cap aScheduledForRemoval
    BY ONLY <2>1, <1>2, FS_Subset
  <2> QED
    BY <2>2
<1>4. UsesOf(n) \subseteq aScheduledForRemoval
        => UsesOf(n) \cap aScheduledForRemoval = UsesOf(n)
  OBVIOUS
<1> QED
  BY <1>1, <1>3, <1>4 DEF InUse

(***************************************************************************)
(* When a loop visits n, the other nodes that wait still do.                *)
(***************************************************************************)
LEMMA RestFacts ==
  ASSUME stack \in Seq(SUBSET Node), NEW n \in Node, Looping(n)
  PROVE  /\ Rest(n) \in Seq(SUBSET Node) /\ Rest(n) # <<>>
         /\ \A i \in DOMAIN stack : /\ i \in DOMAIN Rest(n)
                                    /\ \A m \in stack[i] : m = n \/ m \in Rest(n)[i]
<1>1. stack # <<>> /\ Head(stack) = stack[1] /\ Head(stack) \in SUBSET Node
  BY DEF Looping
<1>2. Tail(stack) \in Seq(SUBSET Node) /\ Len(Tail(stack)) = Len(stack) - 1
  BY <1>1
<1>3. <<Head(stack) \ {n}>> \in Seq(SUBSET Node)
  BY <1>1
<1>4. /\ Rest(n) \in Seq(SUBSET Node) /\ Len(Rest(n)) = Len(stack)
      /\ Rest(n)[1] = stack[1] \ {n}
  BY <1>1, <1>2, <1>3 DEF Rest
<1>5. \A i \in 2..Len(stack) : Rest(n)[i] = stack[i]
  BY <1>1, <1>2, <1>3 DEF Rest
<1>6. Len(stack) > 0 /\ DOMAIN stack = 1..Len(stack) /\ DOMAIN Rest(n) = 1..Len(stack)
  BY <1>1, <1>4
<1>7. ASSUME NEW i \in DOMAIN stack, NEW m \in stack[i]
      PROVE  i \in DOMAIN Rest(n) /\ (m = n \/ m \in Rest(n)[i])
  <2>1. CASE i = 1
    BY <1>4, <1>6, <2>1
  <2>2. CASE i \in 2..Len(stack)
    BY <1>5, <1>6, <2>2
  <2> QED
    BY <1>6, <2>1, <2>2
<1>8. Rest(n) # <<>>
  BY <1>4, <1>6
<1> QED
  BY <1>4, <1>6, <1>7, <1>8

(***************************************************************************)
(* The nodes that wait below the innermost loop wait as well when a loop is *)
(* begun above them, or when that one is over.                              *)
(***************************************************************************)
LEMMA PushFacts ==
  ASSUME NEW S \in SUBSET Node, NEW s \in Seq(SUBSET Node)
  PROVE  /\ <<S>> \o s \in Seq(SUBSET Node) /\ <<S>> \o s # <<>>
         /\ 1 \in DOMAIN (<<S>> \o s) /\ (<<S>> \o s)[1] = S
         /\ \A i \in DOMAIN s : /\ i + 1 \in DOMAIN (<<S>> \o s)
                                /\ (<<S>> \o s)[i + 1] = s[i]
  OBVIOUS

\* A loop that is over leaves every node that waits where it was, one loop
\* further in.
LEMMA PopFacts ==
  ASSUME stack \in Seq(SUBSET Node), stack # <<>>, Head(stack) = {}
  PROVE  /\ Tail(stack) \in Seq(SUBSET Node)
         /\ \A i \in DOMAIN stack : \A m \in stack[i] :
              i - 1 \in DOMAIN Tail(stack) /\ m \in Tail(stack)[i - 1]
<1>1. /\ Tail(stack) \in Seq(SUBSET Node) /\ Len(Tail(stack)) = Len(stack) - 1
      /\ stack[1] = {}
      /\ \A i \in 1..(Len(stack) - 1) : Tail(stack)[i] = stack[i + 1]
  OBVIOUS
<1>2. ASSUME NEW i \in DOMAIN stack, NEW m \in stack[i]
      PROVE  i - 1 \in DOMAIN Tail(stack) /\ m \in Tail(stack)[i - 1]
  <2>1. i # 1 /\ i \in 1..Len(stack)
    BY <1>1
  <2>2. i - 1 \in 1..(Len(stack) - 1) /\ (i - 1) + 1 = i
    BY <2>1
  <2> QED
    BY <1>1, <2>2
<1> QED
  BY <1>1, <1>2

-----------------------------------------------------------------------------
(* The invariant *)

\* The graph as InsertNode made it meets the invariant.
LEMMA InitIInv == Init => IInv
<1> SUFFICES ASSUME Init PROVE IInv
  OBVIOUS
<1>1. TypeOK
  BY DEF Init, TypeOK, UsesOf
<1>2. InputsAreOlder /\ Untouched /\ CountsExact /\ NothingUsefulRemoved /\ Consistent
  BY DEF Init, InputsAreOlder, Untouched, CountsExact, NothingUsefulRemoved,
         Consistent, UsesOf
<1>3. NoneMissed
  <2>1. 1 \in DOMAIN stack /\ stack[1] = Node
    BY DEF Init
  <2> QED
    BY <2>1 DEF NoneMissed
<1> QED
  BY <1>1, <1>2, <1>3 DEF IInv

(***************************************************************************)
(* A node that Cleanup_Impl returns from at once is not to be scheduled:    *)
(* should it become so later, it is visited again.                          *)
(***************************************************************************)
LEMMA SkipIInv ==
  ASSUME IInv, NEW n \in Node, Skip(n)
  PROVE  IInv'
<1> USE DEF IInv
<1>1. stack \in Seq(SUBSET Node) /\ Looping(n) /\ stack # <<>> /\ stack' = Rest(n)
  BY DEF TypeOK, Skip, Looping
<1>2. /\ UNCHANGED <<aInputNodes, aInputNodesUnique, aOutputNodes, kept, aIdMap>>
      /\ UNCHANGED <<aScheduledForRemoval, aNumChildrenRemoved>>
  BY DEF Skip, arcs
<1>3. \A m : UsesOf(m)' = UsesOf(m)
  BY <1>2 DEF UsesOf
<1>4. TypeOK' /\ InputsAreOlder'
  BY <1>1, <1>2, <1>3, RestFacts DEF TypeOK, InputsAreOlder
<1>5. Untouched' /\ CountsExact' /\ NothingUsefulRemoved' /\ Consistent'
  BY <1>1, <1>2, <1>3 DEF Untouched, CountsExact, NothingUsefulRemoved, Consistent
<1>6. NoneMissed'
  <2> SUFFICES ASSUME NEW m \in Node \ (aScheduledForRemoval \cup kept),
                      UsesOf(m) \subseteq aScheduledForRemoval
               PROVE  \E i \in DOMAIN Rest(n) : m \in Rest(n)[i]
    BY <1>1, <1>2, <1>3 DEF NoneMissed
  <2>1. m # n
    BY <1>1, InUseExactly DEF Skip, ToSchedule
  <2>2. PICK i \in DOMAIN stack : m \in stack[i]
    BY DEF NoneMissed
  <2> QED
    BY <1>1, <2>1, <2>2, RestFacts
<1> QED
  BY <1>4, <1>5, <1>6

(***************************************************************************)
(* A node that is scheduled is not in use and not to be kept; its inputs,   *)
(* which may have lost their last use, are visited next.                    *)
(***************************************************************************)
LEMMA ScheduleIInv ==
  ASSUME IInv, NEW n \in Node, Schedule(n)
  PROVE  IInv'
<1> USE DEF IInv
<1>1. /\ stack \in Seq(SUBSET Node) /\ Looping(n) /\ stack # <<>>
      /\ stack' = <<aInputNodesUnique[n]>> \o Rest(n)
      /\ aScheduledForRemoval' = aScheduledForRemoval \cup {n}
  BY DEF TypeOK, Schedule, Looping
<1>2. UNCHANGED <<aInputNodes, aInputNodesUnique, aOutputNodes, kept, aIdMap>>
  BY DEF Schedule, arcs
<1>3. \A m : UsesOf(m)' = UsesOf(m)
  BY <1>2 DEF UsesOf
<1>4. aInputNodesUnique[n] = aInputNodes[n] /\ aInputNodesUnique[n] \in SUBSET Node
  BY <1>1 DEF Untouched, TypeOK
<1>5. stack' \in Seq(SUBSET Node) /\ stack' # <<>>
  BY <1>1, <1>4, RestFacts, PushFacts
<1>6. CountsExact'
  <2> SUFFICES ASSUME NEW m \in Node
               PROVE  aNumChildrenRemoved'[m] = UsesOf(m) \cap (aScheduledForRemoval \cup {n})
    BY <1>1, <1>3 DEF CountsExact
  <2>1. m \in aInputNodesUnique[n] <=> n \in UsesOf(m)
    BY <1>4 DEF UsesOf
  <2> QED
    BY <2>1 DEF Schedule, WithChildRemoved, CountsExact
<1>7. TypeOK' /\ InputsAreOlder'
  BY <1>1, <1>2, <1>3, <1>5, <1>6 DEF TypeOK, InputsAreOlder, CountsExact
<1>8. Untouched' /\ Consistent'
  BY <1>1, <1>2, <1>3 DEF Untouched, Consistent
<1>9. NothingUsefulRemoved'
  BY <1>1, <1>2, <1>3, InUseExactly DEF NothingUsefulRemoved, Schedule, ToSchedule
<1>10. NoneMissed'
  <2> SUFFICES ASSUME NEW m \in Node \ (aScheduledForRemoval \cup {n} \cup kept),
                      UsesOf(m) \subseteq aScheduledForRemoval \cup {n}
               PROVE  \E i \in DOMAIN stack' : m \in stack'[i]
    BY <1>1, <1>2, <1>3 DEF NoneMissed
  <2>1. CASE n \in UsesOf(m)
    <3>1. m \in aInputNodesUnique[n]
      BY <1>4, <2>1 DEF UsesOf
    <3> QED
      BY <1>1, <1>4, <3>1, RestFacts, PushFacts
  <2>2. CASE n \notin UsesOf(m)
    <3>1. PICK i \in DOMAIN stack : m \in stack[i]
      BY <2>2 DEF NoneMissed
    <3>2. i \in DOMAIN Rest(n) /\ m \in Rest(n)[i]
      BY <1>1, <3>1, RestFacts
    <3>3. Rest(n) \in Seq(SUBSET Node)
      BY <1>1, RestFacts
    <3>4. i + 1 \in DOMAIN stack' /\ stack'[i + 1] = Rest(n)[i]
      BY <1>1, <1>4, <3>2, <3>3, PushFacts
    <3> QED
      BY <3>2, <3>4
  <2> QED
    BY <2>1, <2>2
<1> QED
  BY <1>6, <1>7, <1>8, <1>9, <1>10

\* A loop that is over has no node left to visit.
LEMMA ReturnIInv ==
  ASSUME IInv, Return
  PROVE  IInv'
<1> USE DEF IInv
<1>1. /\ stack \in Seq(SUBSET Node) /\ stack # <<>> /\ Head(stack) = {}
      /\ stack' = Tail(stack)
  BY DEF TypeOK, Return
<1>2. /\ UNCHANGED <<aInputNodes, aInputNodesUnique, aOutputNodes, kept, aIdMap>>
      /\ UNCHANGED <<aScheduledForRemoval, aNumChildrenRemoved>>
  BY DEF Return, arcs
<1>3. \A m : UsesOf(m)' = UsesOf(m)
  BY <1>2 DEF UsesOf
<1>4. TypeOK' /\ InputsAreOlder'
  BY <1>1, <1>2, <1>3, PopFacts DEF TypeOK, InputsAreOlder
<1>5. Untouched' /\ CountsExact' /\ NothingUsefulRemoved' /\ Consistent'
  BY <1>1, <1>2, <1>3 DEF Untouched, CountsExact, NothingUsefulRemoved, Consistent
<1>6. NoneMissed'
  <2> SUFFICES ASSUME NEW m \in Node \ (aScheduledForRemoval \cup kept),
                      UsesOf(m) \subseteq aScheduledForRemoval
               PROVE  \E i \in DOMAIN Tail(stack) : m \in Tail(stack)[i]
    BY <1>1, <1>2, <1>3 DEF NoneMissed
  <2>1. PICK i \in DOMAIN stack : m \in stack[i]
    BY DEF NoneMissed
  <2> QED
    BY <1>1, <2>1, PopFacts
<1> QED
  BY <1>4, <1>5, <1>6

\* RemoveNode unties a node from those of its inputs that are in the graph.
LEMMA RemoveIInv ==
  ASSUME IInv, NEW n \in Node, RemoveNode(n)
  PROVE  IInv'
<1> USE DEF IInv
<1>1. /\ stack = <<>> /\ stack' = <<>>
      /\ n \in aScheduledForRemoval /\ n \in aIdMap /\ aIdMap' = aIdMap \ {n}
  BY DEF RemoveNode
<1>2. UNCHANGED <<aInputNodes, kept, aScheduledForRemoval, aNumChildrenRemoved>>
  BY DEF RemoveNode
<1>3. \A m : UsesOf(m)' = UsesOf(m)
  BY <1>2 DEF UsesOf
<1>4. TypeOK' /\ InputsAreOlder'
  BY <1>1, <1>2, <1>3 DEF TypeOK, InputsAreOlder, RemoveNode, OutputsWithout
<1>5. Untouched' /\ CountsExact' /\ NothingUsefulRemoved'
  BY <1>1, <1>2, <1>3 DEF Untouched, CountsExact, NothingUsefulRemoved
<1>6. NoneMissed'
  BY <1>1, <1>2, <1>3 DEF NoneMissed
<1>7. Consistent'
  <2>1. ASSUME NEW m \in aIdMap, m # n
        PROVE  /\ aOutputNodes'[m] = UsesOf(m) \cap (aIdMap \ {n})
               /\ aInputNodesUnique'[m] = aInputNodes[m]
    <3>1. m \in Node /\ (n \in UsesOf(m) <=> m \in aInputNodesUnique[n])
      BY <1>1 DEF TypeOK, Consistent, UsesOf
    <3> QED
      BY <2>1, <3>1 DEF RemoveNode, OutputsWithout, Consistent, TypeOK
  <2> QED
    BY <1>1, <1>2, <1>3, <2>1 DEF Consistent
<1> QED
  BY <1>4, <1>5, <1>6, <1>7

(***************************************************************************)
(* IInv, which TLC checked as well, is an invariant.                        *)
(***************************************************************************)
THEOREM Invariance == Spec => []IInv
<1>1. Init => IInv
  BY InitIInv
<1>2. IInv /\ [Next]_vars => IInv'
  <2> SUFFICES ASSUME IInv, [Next]_vars PROVE IInv'
    OBVIOUS
  <2>1. CASE \E n \in Node : Skip(n)
    BY <2>1, SkipIInv
  <2>2. CASE \E n \in Node : Schedule(n)
    BY <2>2, ScheduleIInv
  <2>3. CASE \E n \in Node : RemoveNode(n)
    BY <2>3, RemoveIInv
  <2>4. CASE Return
    BY <2>4, ReturnIInv
  <2>5. CASE UNCHANGED vars
    BY <2>5 DEF vars, arcs, IInv, TypeOK, InputsAreOlder, Untouched, CountsExact,
                NothingUsefulRemoved, NoneMissed, Consistent, UsesOf
  <2> QED
    BY <2>1, <2>2, <2>3, <2>4, <2>5 DEF Next
<1> QED
  BY <1>1, <1>2, PTL DEF Spec

-----------------------------------------------------------------------------
(* What follows *)

(***************************************************************************)
(* At the end a node that is not to be kept is an input of one that is left.*)
(***************************************************************************)
LEMMA NothingUselessLeft ==
  ASSUME IInv, Done, NEW n \in aIdMap, n \notin kept
  PROVE  \E m \in UsesOf(n) : m \in aIdMap
<1>1. n \in Node \ (aScheduledForRemoval \cup kept) /\ DOMAIN stack = {}
  BY DEF IInv, TypeOK, Done
<1>2. PICK m \in UsesOf(n) : m \notin aScheduledForRemoval
  BY <1>1 DEF IInv, NoneMissed
<1> QED
  BY <1>2 DEF IInv, Consistent, UsesOf

\* At the end the inputs of a node that is left are left.
LEMMA InputsLeft ==
  ASSUME IInv, Done, NEW n \in aIdMap
  PROVE  aInputNodes[n] \subseteq aIdMap
<1> SUFFICES ASSUME NEW m \in aInputNodes[n] PROVE m \in aIdMap
  OBVIOUS
<1>1. n \in Node /\ n \notin aScheduledForRemoval /\ m \in Node
  BY DEF IInv, TypeOK, Done
<1>2. n \in UsesOf(m)
  BY <1>1 DEF UsesOf
<1>3. m \notin aScheduledForRemoval
  BY <1>1, <1>2 DEF IInv, NothingUsefulRemoved
<1> QED
  BY <1>1, <1>3 DEF IInv, Consistent

(***************************************************************************)
(* Cleanup's variables keep their types.                                    *)
(***************************************************************************)
THEOREM TypeCorrect == Spec => []TypeOK
<1>1. IInv => TypeOK
  BY DEF IInv
<1> QED
  BY <1>1, Invariance, PTL

(***************************************************************************)
(* Cleanup never gives up a node that is to be kept or that a remaining     *)
(* node is computed from.                                                   *)
(***************************************************************************)
THEOREM NothingUsefulLost == Spec => []NothingUsefulRemoved
<1>1. IInv => NothingUsefulRemoved
  BY DEF IInv
<1> QED
  BY <1>1, Invariance, PTL

(***************************************************************************)
(* After Cleanup and its RemoveNodes the arcs match.                        *)
(***************************************************************************)
THEOREM ArcsMatchAtEnd == Spec => []ArcsMatch
<1>1. IInv => ArcsMatch
  BY InputsLeft DEF IInv, Consistent, ArcsMatch
<1> QED
  BY <1>1, Invariance, PTL

(***************************************************************************)
(* Cleanup leaves exactly the nodes that the kept ones are computed from.   *)
(* What is left is closed, so the useful nodes are among it.  Were a closed *)
(* set not to have all that is left, the newest node that it lacks would be *)
(* an input of a newer one, which it does not lack.                         *)
(***************************************************************************)
THEOREM CleanupIsExact == Spec => []CleanupExact
<1>1. ASSUME IInv, Done PROVE aIdMap = Useful
  <2>1. Useful \subseteq aIdMap
    <3>1. aIdMap \in SUBSET Node /\ kept \subseteq Node
      BY <1>1 DEF IInv, TypeOK
    <3>2. kept \subseteq aIdMap
      BY <1>1, <3>1 DEF IInv, NothingUsefulRemoved, Consistent
    <3>3. IsClosed(aIdMap)
      BY <1>1, <3>2, InputsLeft DEF IsClosed
    <3> QED
      BY <3>1, <3>3 DEF Useful
  <2>2. ASSUME NEW S \in SUBSET Node, IsClosed(S) PROVE aIdMap \subseteq S
    <3>1. SUFFICES ASSUME aIdMap \ S # {} PROVE FALSE
      OBVIOUS
    <3>2. aIdMap \ S \subseteq Node
      BY <1>1 DEF IInv, TypeOK
    <3>3. PICK n \in aIdMap \ S : \A m \in aIdMap \ S : m <= n
      BY <3>1, <3>2, NewestNode
    <3>4. n \notin kept /\ n \in Node
      BY <2>2, <3>2 DEF IsClosed
    <3>5. PICK m \in UsesOf(n) : m \in aIdMap
      BY <1>1, <3>4, NothingUselessLeft
    <3>6. m \in Node /\ n \in aInputNodes[m]
      BY <3>5 DEF UsesOf
    <3>7. n < m
      BY <1>1, <3>6, NumNodesAssumption DEF IInv, InputsAreOlder, Node
    <3>8. m \in S
      BY <3>3, <3>4, <3>5, <3>6, <3>7, NumNodesAssumption DEF Node
    <3> QED
      BY <2>2, <3>6, <3>8 DEF IsClosed
  <2>3. aIdMap \subseteq Node
    BY <1>1 DEF IInv, TypeOK
  <2> QED
    BY <2>1, <2>2, <2>3 DEF Useful
<1>2. IInv => CleanupExact
  BY <1>1 DEF CleanupExact
<1> QED
  BY <1>2, Invariance, PTL

-----------------------------------------------------------------------------
(***************************************************************************)
(* CallStack, for every set of addresses and every limit.                   *)
(*                                                                          *)
(* The argument: popping never makes the stack longer, so only a call can;  *)
(* what a call pushes is still on the stack when JumpToNode has popped the  *)
(* entries for the target, or the stack has become shorter than it was      *)
(* before the call; and where the call is not inlined, LR holds the entry   *)
(* just pushed, and going on there pops it.                                 *)
(***************************************************************************)

\* A set of positions has a last one.
LEMMA LastPosition ==
  ASSUME NEW n \in Nat, NEW T, T \subseteq 1..n, T # {}
  PROVE  \E i \in T : \A j \in T : j <= i
<1> DEFINE Behind == {d \in Nat : n - d \in T}
<1>1. \A i \in T : n - i \in Behind
  <2>1. \A i \in T : i \in 1..n /\ n - i \in Nat /\ n - (n - i) = i
    OBVIOUS
  <2> QED
    BY <2>1
<1>2. PICK d \in Behind : \A e \in Behind : ~(<<e, d>> \in OpToRel(<, Nat))
  <2>1. Behind \subseteq Nat /\ Behind # {}
    BY <1>1
  <2> QED
    BY <2>1, NatLessThanWellFounded, WFMin
<1>3. \A e \in Behind : ~(e < d)
  BY <1>2 DEF OpToRel
<1>4. \A j \in T : j <= n - d
  <2> SUFFICES ASSUME NEW j \in T PROVE j <= n - d
    OBVIOUS
  <2>1. n - j \in Nat /\ j \in Int /\ d \in Nat
    OBVIOUS
  <2>2. ~(n - j < d)
    BY <1>1, <1>3
  <2> QED
    BY <2>1, <2>2
<1> QED
  BY <1>2, <1>4

\* Popping leaves a stack of addresses that is not longer.
LEMMA PopShortens ==
  ASSUME NEW s \in Seq(Addresses), NEW a
  PROVE  /\ PopCallStack(s, a) \in Seq(Addresses)
         /\ Len(PopCallStack(s, a)) <= Len(s)
<1> DEFINE found == {i \in 1..Len(s) : s[i] = a}
<1>1. CASE found = {}
  BY <1>1 DEF PopCallStack
<1>2. CASE found # {}
  <2> DEFINE last == CHOOSE i \in found : \A j \in found : j <= i
  <2>1. last \in found
    <3>1. \E i \in found : \A j \in found : j <= i
      <4>1. found \subseteq 1..Len(s) /\ Len(s) \in Nat
        OBVIOUS
      <4> QED
        BY <1>2, <4>1, LastPosition
    <3> QED
      BY <3>1
  <2>2. PopCallStack(s, a) = SubSeq(s, 1, last - 1)
    BY <1>2 DEF PopCallStack
  <2>3. last \in 1..Len(s)
    BY <2>1
  <2> HIDE DEF last
  <2> QED
    BY <2>2, <2>3
<1> QED
  BY <1>1, <1>2

\* Popping an entry that is on the stack makes it shorter.
LEMMA PopRemoves ==
  ASSUME NEW s \in Seq(Addresses), NEW k \in 1..Len(s)
  PROVE  Len(PopCallStack(s, s[k])) < Len(s)
<1> DEFINE found == {i \in 1..Len(s) : s[i] = s[k]}
           last == CHOOSE i \in found : \A j \in found : j <= i
<1>1. k \in found
  OBVIOUS
<1>2. last \in found
  <2>1. \E i \in found : \A j \in found : j <= i
    <3>1. found \subseteq 1..Len(s) /\ Len(s) \in Nat
      OBVIOUS
    <3> QED
      BY <1>1, <3>1, LastPosition
  <2> QED
    BY <2>1
<1>3. PopCallStack(s, s[k]) = SubSeq(s, 1, last - 1)
  BY <1>1 DEF PopCallStack
<1>4. last \in 1..Len(s)
  BY <1>2
<1> HIDE DEF last
<1> QED
  BY <1>3, <1>4

-----------------------------------------------------------------------------

(***************************************************************************)
(* Type correctness of the call stack.                                      *)
(***************************************************************************)
THEOREM StackTypeCorrect == StackSpec => []StackTypeOK
<1>1. StackInit => StackTypeOK
  BY DEF StackInit, StackTypeOK
<1>2. StackTypeOK /\ [StackNext]_stackVars => StackTypeOK'
  <2> SUFFICES ASSUME StackTypeOK, [StackNext]_stackVars
               PROVE  StackTypeOK'
    OBVIOUS
  <2>1. ASSUME NEW s \in Seq(Addresses), NEW target \in Addresses, NEW lr \in Addresses,
               Jump(s, target, lr)
        PROVE  StackTypeOK'
    <3>1. PopCallStack(s, target) \in Seq(Addresses)
      BY PopShortens
    <3>2. PopCallStack(PopCallStack(s, target), lr) \in Seq(Addresses)
      BY <3>1, PopShortens
    <3> QED
      BY <2>1, <3>1, <3>2 DEF Jump, StackTypeOK
  <2>2. CASE Branch
    BY <2>1, <2>2 DEF Branch, StackTypeOK
  <2>3. CASE BranchAndLink
    <3>1. PICK target \in Addresses, lr \in Addresses :
            Jump(PushCallStack(aCallStack, lr), target, lr)
      BY <2>3 DEF BranchAndLink
    <3>2. PushCallStack(aCallStack, lr) \in Seq(Addresses)
      BY DEF PushCallStack, StackTypeOK
    <3> QED
      BY <2>1, <3>1, <3>2
  <2>4. CASE Stop
    <3>1. PICK target \in Addresses, lr \in Addresses :
            aCallStack' \in {aCallStack, PopCallStack(aCallStack, target),
                            PushCallStack(aCallStack, lr),
                            PopCallStack(PushCallStack(aCallStack, lr), target)}
      BY <2>4 DEF Stop
    <3>2. aCallStack \in Seq(Addresses) /\ PushCallStack(aCallStack, lr) \in Seq(Addresses)
      BY DEF PushCallStack, StackTypeOK
    <3>3. PopCallStack(aCallStack, target) \in Seq(Addresses)
      BY <3>2, PopShortens
    <3>4. PopCallStack(PushCallStack(aCallStack, lr), target) \in Seq(Addresses)
      BY <3>2, PopShortens
    <3> QED
      BY <2>4, <3>1, <3>2, <3>3, <3>4 DEF Stop, StackTypeOK
  <2>5. CASE UNCHANGED stackVars
    BY <2>5 DEF stackVars, StackTypeOK
  <2> QED
    BY <2>2, <2>3, <2>4, <2>5 DEF StackNext
<1> QED
  BY <1>1, <1>2, PTL DEF StackSpec

(***************************************************************************)
(* A call that is not inlined leaves the stack no longer than it was.       *)
(***************************************************************************)
LEMMA CallReturns ==
  ASSUME NEW s \in Seq(Addresses), NEW target \in Addresses, NEW lr \in Addresses
  PROVE  Len(PopCallStack(PopCallStack(PushCallStack(s, lr), target), lr)) <= Len(s)
<1> DEFINE pushed == PushCallStack(s, lr)
           popped == PopCallStack(pushed, target)
<1>1. pushed \in Seq(Addresses) /\ Len(pushed) = Len(s) + 1 /\ pushed[Len(s) + 1] = lr
  BY DEF PushCallStack
<1>2. popped \in Seq(Addresses) /\ Len(popped) <= Len(pushed)
  BY <1>1, PopShortens
<1>3. Len(PopCallStack(popped, lr)) <= Len(popped)
  BY <1>2, PopShortens
<1>4. CASE \E k \in 1..Len(pushed) : pushed[k] = target
  <2>1. Len(popped) < Len(pushed)
    BY <1>1, <1>4, PopRemoves
  <2> QED
    BY <1>1, <1>2, <1>3, <2>1
<1>5. CASE ~ \E k \in 1..Len(pushed) : pushed[k] = target
  <2>1. popped = pushed
    BY <1>5 DEF PopCallStack
  <2>2. Len(PopCallStack(pushed, pushed[Len(s) + 1])) < Len(pushed)
    BY <1>1, PopRemoves
  <2>3. PopCallStack(popped, lr) = PopCallStack(pushed, pushed[Len(s) + 1])
    BY <1>1, <2>1
  <2> QED
    BY <1>1, <2>2, <2>3
<1> QED
  BY <1>4, <1>5

(***************************************************************************)
(* The call stack is below the limit between two instructions (MaxCallDepth *)
(* of the path oracle, Arm.cpp's JumpToNode).                               *)
(***************************************************************************)
THEOREM CallDepthIsBounded == StackSpec => []CallDepthBounded
<1>1. StackInit => CallDepthBounded
  BY DepthAssumption DEF StackInit, CallDepthBounded
<1>2. StackTypeOK /\ CallDepthBounded /\ [StackNext]_stackVars => CallDepthBounded'
  <2> SUFFICES ASSUME StackTypeOK, CallDepthBounded, [StackNext]_stackVars
               PROVE  CallDepthBounded'
    OBVIOUS
  <2> USE DepthAssumption
  <2>1. CASE status = "OK" /\ Branch
    <3>1. PICK target \in Addresses, lr \in Addresses : Jump(aCallStack, target, lr)
      BY <2>1 DEF Branch
    <3> DEFINE popped == PopCallStack(aCallStack, target)
    <3>2. popped \in Seq(Addresses) /\ Len(popped) <= Len(aCallStack)
      BY PopShortens DEF StackTypeOK
    <3>3. Len(PopCallStack(popped, lr)) <= Len(popped)
           /\ PopCallStack(popped, lr) \in Seq(Addresses)
      BY <3>2, PopShortens
    <3>4. Len(aCallStack) < dwMaxCallDepth /\ Len(aCallStack) \in Nat
      BY <2>1 DEF CallDepthBounded, StackTypeOK
    <3> QED
      BY <3>1, <3>2, <3>3, <3>4 DEF Jump, Inlined, CallDepthBounded
  <2>2. CASE status = "OK" /\ BranchAndLink
    <3>1. PICK target \in Addresses, lr \in Addresses :
            Jump(PushCallStack(aCallStack, lr), target, lr)
      BY <2>2 DEF BranchAndLink
    <3> DEFINE popped == PopCallStack(PushCallStack(aCallStack, lr), target)
    <3>2. Len(PopCallStack(popped, lr)) <= Len(aCallStack)
      BY CallReturns DEF StackTypeOK
    <3>3. popped \in Seq(Addresses) /\ PopCallStack(popped, lr) \in Seq(Addresses)
      <4>1. PushCallStack(aCallStack, lr) \in Seq(Addresses)
        BY DEF PushCallStack, StackTypeOK
      <4> QED
        BY <4>1, PopShortens
    <3>4. Len(aCallStack) < dwMaxCallDepth /\ Len(aCallStack) \in Nat
      BY <2>2 DEF CallDepthBounded, StackTypeOK
    <3> QED
      BY <3>1, <3>2, <3>3, <3>4 DEF Jump, Inlined, CallDepthBounded
  <2>3. CASE Stop
    BY <2>3 DEF Stop, CallDepthBounded
  <2>4. CASE UNCHANGED stackVars
    BY <2>4 DEF stackVars, CallDepthBounded
  <2> QED
    BY <2>1, <2>2, <2>3, <2>4 DEF StackNext
<1> QED
  BY <1>1, <1>2, StackTypeCorrect, PTL DEF StackSpec
=============================================================================
