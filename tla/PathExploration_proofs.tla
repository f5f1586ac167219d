------------------------ MODULE PathExploration_proofs ------------------------
(***************************************************************************)
(* Theorems about PathExploration, for any functions, any code and any      *)
(* limits of the oracle: the types, the budget of forks, that no path is    *)
(* explored twice, and that loops are left.                                 *)
(***************************************************************************)
EXTENDS PathExploration, FiniteSetTheorems, TLAPS

(***************************************************************************)
(* The inductive invariant.                                                 *)
(***************************************************************************)

\* A builder that is at work is below the limit of conditions.
Good(x) ==
  /\ x \in BuilderRecords
  /\ x.status \in {"queued", "building"} => x.dwNumConditions < MaxConditions

\* the forks that f may still be granted before the next dialog
ForksLeft(f) ==
  IF f \in DOMAIN aNumForksLeft THEN aNumForksLeft[f] ELSE InitialForks + 1

Quota == 1 + (numInitialize + 1) * (InitialForks + 1)

\* The builders of f, and those it may still be granted.
Budget ==
  \A f \in Functions : Cardinality(BuildersOf(f)) + ForksLeft(f) <= Quota

ForksTyped ==
  /\ DOMAIN aNumForksLeft \subseteq Functions
  /\ \A f \in DOMAIN aNumForksLeft : aNumForksLeft[f] \in 0..InitialForks

IInv ==
  /\ builders \in Seq(BuilderRecords)
  /\ \A b \in Builders : Good(builders[b])
  /\ ForksTyped
  /\ numInitialize \in 0..MaxInitialize
  /\ Budget
  /\ DistinctPaths

-----------------------------------------------------------------------------
(* What a builder may become *)

\* y decided as x did wherever x first decided
Grows(x, y) ==
  \A a \in Addresses :
    x.oBacklog[a] # <<>> =>
      y.oBacklog[a] # <<>> /\ Head(y.oBacklog[a]) = Head(x.oBacklog[a])

\* y is x, or a fork of x, some steps later
Continues(x, y) ==
  /\ Good(y)
  /\ y.lpFunctionAddress = x.lpFunctionAddress
  /\ Grows(x, y)

(***************************************************************************)
(* At the head of Build_Impl's loop a builder keeps its backlog, and is     *)
(* below all the limits.                                                    *)
(***************************************************************************)
LEMMA HeadFacts ==
  ASSUME NEW b \in Builders, Good(builders[b]), NEW x, AtCondition(b, x)
  PROVE  /\ x \in BuilderRecords
         /\ x.dwNumConditions < MaxConditions
         /\ x.status = "building"
         /\ x.lpFunctionAddress = builders[b].lpFunctionAddress
         /\ x.oBacklog = builders[b].oBacklog
<1> DEFINE r == builders[b]
           h == LoopHead(r)
<1>1. /\ r \in BuilderRecords /\ r.dwNumConditions < MaxConditions
      /\ r.status = "building" /\ ~OutOfBounds(r)
  BY DEF AtCondition, Good
<1>2. PICK n \in 0..MaxGrowth[h.lpCurrentAddress] : x = [h EXCEPT !.size = @ + n]
  BY DEF AtCondition, Grown
<1>3. Iterations(r) \in 0..(MaxNoops - 1)
  BY <1>1, LimitsAssumption DEF OutOfBounds, Iterations, BuilderRecords
<1>4. /\ h \in BuilderRecords
      /\ h.dwNumConditions = r.dwNumConditions /\ h.status = r.status
      /\ h.lpFunctionAddress = r.lpFunctionAddress /\ h.oBacklog = r.oBacklog
  <2> HIDE DEF r
  <2> QED  BY <1>1, <1>3 DEF LoopHead, InstructionAddress, BuilderRecords
<1> HIDE DEF h
<1>5. x.size \in Nat
  BY <1>2, <1>4, GrowthAssumption DEF BuilderRecords
<1> QED  BY <1>1, <1>2, <1>4, <1>5 DEF BuilderRecords

(***************************************************************************)
(* An entry in the backlog: the first decision at an address stays the      *)
(* first one, and at a condition met for the first time it is the new one.  *)
(***************************************************************************)
LEMMA EntryFacts ==
  ASSUME NEW x \in BuilderRecords, x.status = "building",
         ~TooManyConditions(x.dwNumConditions + 1),
         x.dwNumConditions < MaxConditions, NEW taken \in BOOLEAN
  PROVE  LET y == NewEntry(Counted(x), taken)
         IN /\ Continues(x, y)
            /\ y.status = "building"
            /\ y.lpCurrentAddress = x.lpCurrentAddress
            /\ FirstTime(x) => y.oBacklog[x.lpCurrentAddress] = <<taken>>
<1> DEFINE y == NewEntry(Counted(x), taken)
           c == Counted(x)
           a0 == x.lpCurrentAddress
<1>1. /\ x.oBacklog \in [Addresses -> Seq(BOOLEAN)] /\ a0 \in Addresses
      /\ x.dwNumConditions \in Nat
  BY LimitsAssumption DEF BuilderRecords
<1>2. c \in BuilderRecords /\ c.dwNumConditions < MaxConditions
      /\ c.status = "building" /\ c.lpCurrentAddress = a0
      /\ c.oBacklog = x.oBacklog /\ c.lpFunctionAddress = x.lpFunctionAddress
  <2> DEFINE n == x.dwNumConditions + 1
  <2>1. n \in 0..MaxConditions /\ n < MaxConditions
    BY <1>1, LimitsAssumption DEF TooManyConditions
  <2>2. c = [x EXCEPT !.dwNumConditions = n]
    BY DEF Counted
  <2> HIDE DEF n, c
  <2> QED  BY <2>1, <2>2 DEF BuilderRecords
<1>3. y = [c EXCEPT !.oBacklog = [c.oBacklog EXCEPT ![a0] = Append(@, taken)]]
  BY <1>2 DEF NewEntry
<1> HIDE DEF y, c
<1>5. /\ [x.oBacklog EXCEPT ![a0] = Append(@, taken)] \in [Addresses -> Seq(BOOLEAN)]
      /\ y.oBacklog = [x.oBacklog EXCEPT ![a0] = Append(@, taken)]
  <2>1. [x.oBacklog EXCEPT ![a0] = Append(@, taken)] \in [Addresses -> Seq(BOOLEAN)]
    BY <1>1
  <2>2. y.oBacklog = [x.oBacklog EXCEPT ![a0] = Append(@, taken)]
    BY <1>2, <1>3 DEF BuilderRecords
  <2> QED  BY <2>1, <2>2
<1>4. /\ y \in BuilderRecords /\ y.dwNumConditions < MaxConditions
      /\ y.status = "building" /\ y.lpCurrentAddress = a0
      /\ y.lpFunctionAddress = x.lpFunctionAddress
  BY <1>1, <1>2, <1>3, <1>5 DEF BuilderRecords
<1>6. Grows(x, y)
  <2> SUFFICES ASSUME NEW a \in Addresses, x.oBacklog[a] # <<>>
               PROVE  y.oBacklog[a] # <<>> /\ Head(y.oBacklog[a]) = Head(x.oBacklog[a])
    BY DEF Grows
  <2>1. CASE a # a0
    BY <2>1, <1>1, <1>5
  <2>2. CASE a = a0
    <3> DEFINE log == x.oBacklog[a]
    <3>1. log \in Seq(BOOLEAN) /\ log # <<>> /\ y.oBacklog[a] = Append(log, taken)
      BY <2>2, <1>1, <1>5
    <3> HIDE DEF log
    <3>2. Append(log, taken) # <<>> /\ Head(Append(log, taken)) = Head(log)
      BY <3>1
    <3> QED  BY <3>1, <3>2 DEF log
  <2> QED  BY <2>1, <2>2
<1>7. FirstTime(x) => y.oBacklog[a0] = <<taken>>
  <2> SUFFICES ASSUME x.oBacklog[a0] = <<>>  PROVE  y.oBacklog[a0] = <<taken>>
    BY DEF FirstTime, Exists
  <2>1. y.oBacklog[a0] = Append(<<>>, taken)
    BY <1>1, <1>5
  <2> QED  BY <2>1
<1> QED  BY <1>4, <1>6, <1>7 DEF Continues, Good, y

\* Becoming is transitive.
LEMMA ContinuesTransitive ==
  ASSUME NEW x, NEW y, NEW z, Continues(x, y), Continues(y, z)
  PROVE  Continues(x, z)
BY DEF Continues, Grows

(***************************************************************************)
(* What an instruction does to its builder, processed, skipped or failed,   *)
(* leaves the backlog alone.                                                *)
(***************************************************************************)
LEMMA OutcomeFacts ==
  ASSUME NEW x, Good(x), x.status = "building",
         NEW y \in Processed(x) \cup Skipped(x)
  PROVE  Continues(x, y) /\ y.oBacklog = x.oBacklog
<1> USE DEF BuilderRecords
<1>1. x \in BuilderRecords /\ x.dwNumConditions < MaxConditions
  BY DEF Good
<1>2. CASE y \in Skipped(x)
  BY <1>1, <1>2, CodeAssumption DEF Skipped, Continues, Good, Grows
<1>3. CASE y \in Processed(x)
  <2>1. PICK z \in Grown(x) :
          \/ y = Ended(z)
          \/ \E next \in {Following[x.lpCurrentAddress]} \cup Targets[x.lpCurrentAddress] :
               y = [z EXCEPT !.lpCurrentAddress = next]
    BY <1>3 DEF Processed
  <2>2. /\ z \in BuilderRecords /\ z.dwNumConditions < MaxConditions
        /\ z.oBacklog = x.oBacklog /\ z.lpFunctionAddress = x.lpFunctionAddress
    <3>1. PICK n \in 0..MaxGrowth[x.lpCurrentAddress] : z = [x EXCEPT !.size = @ + n]
      BY DEF Grown
    <3>2. x.size + n \in Nat
      BY <1>1, GrowthAssumption
    <3> QED  BY <1>1, <3>1, <3>2
  <2>3. CASE y = Ended(z)
    BY <2>2, <2>3 DEF Ended, Continues, Good, Grows
  <2>4. CASE \E next \in {Following[x.lpCurrentAddress]} \cup Targets[x.lpCurrentAddress] :
               y = [z EXCEPT !.lpCurrentAddress = next]
    <3>1. PICK next \in Addresses : y = [z EXCEPT !.lpCurrentAddress = next]
      BY <2>4, <1>1, CodeAssumption
    <3> QED  BY <2>2, <3>1 DEF Continues, Good, Grows
  <2> QED  BY <2>1, <2>3, <2>4
<1> QED  BY <1>2, <1>3

-----------------------------------------------------------------------------
(* The steps of the builders: one goes on, and it may leave a fork *)

\* Ways that differ stay different.
LEMMA DivergeKept ==
  ASSUME NEW x, NEW y, NEW x2, NEW y2, NEW a \in Addresses,
         Diverge(x, y, a), Grows(x, x2), Grows(y, y2)
  PROVE  Diverge(x2, y2, a)
BY DEF Diverge, Grows

\* A builder goes on and no other one changes.
LEMMA AloneStep ==
  ASSUME IInv, NEW b \in Builders, NEW y, Continues(builders[b], y),
         builders' = [builders EXCEPT ![b] = y]
  PROVE  /\ builders' \in Seq(BuilderRecords)
         /\ (\A c \in Builders : Good(builders[c]))'
         /\ \A f : BuildersOf(f)' = BuildersOf(f)
         /\ DistinctPaths'
<1>1. /\ builders \in Seq(BuilderRecords) /\ DistinctPaths
      /\ \A c \in Builders : Good(builders[c])
  BY DEF IInv
<1>2. /\ builders' \in Seq(BuilderRecords) /\ Builders' = Builders
      /\ \A c \in Builders : builders'[c] = IF c = b THEN y ELSE builders[c]
  BY <1>1 DEF Builders, Continues, Good
<1>3. \A c \in Builders : Continues(builders[c], builders'[c])
  BY <1>1, <1>2 DEF Continues, Grows
<1>4. \A f : BuildersOf(f)' = BuildersOf(f)
  BY <1>2, <1>3 DEF BuildersOf, Continues
<1>5. (\A c \in Builders : Good(builders[c]))'
  BY <1>2, <1>3 DEF Continues, Good
<1>6. DistinctPaths'
  <2> SUFFICES ASSUME NEW c \in Builders, NEW d \in Builders, c # d,
                      builders'[c].lpFunctionAddress = builders'[d].lpFunctionAddress
               PROVE  \E a \in Addresses : Diverge(builders'[c], builders'[d], a)
    BY <1>2 DEF DistinctPaths, Diverge
  <2>1. PICK a \in Addresses : Diverge(builders[c], builders[d], a)
    BY <1>1, <1>3 DEF DistinctPaths, Continues
  <2> QED  BY <2>1, <1>3, DivergeKept DEF Continues
<1> QED  BY <1>2, <1>4, <1>5, <1>6

\* A builder goes on and leaves a fork, which went the other way at a.
LEMMA ForkStep ==
  ASSUME IInv, NEW b \in Builders, NEW y, Continues(builders[b], y),
         NEW z, Continues(builders[b], z),
         NEW a0 \in Addresses, Diverge(y, z, a0),
         builders' = Append([builders EXCEPT ![b] = y], z)
  PROVE  /\ builders' \in Seq(BuilderRecords)
         /\ (\A c \in Builders : Good(builders[c]))'
         /\ \A f : BuildersOf(f)' \subseteq
                    IF f = z.lpFunctionAddress THEN BuildersOf(f) \cup {Len(builders) + 1}
                                               ELSE BuildersOf(f)
         /\ DistinctPaths'
<1> DEFINE n == Len(builders) + 1
           parent(c) == IF c = n THEN b ELSE c
<1>1. /\ builders \in Seq(BuilderRecords) /\ DistinctPaths
      /\ \A c \in Builders : Good(builders[c])
  BY DEF IInv
<1>2. y \in BuilderRecords /\ z \in BuilderRecords
  BY DEF Continues, Good
<1>3. /\ builders' \in Seq(BuilderRecords) /\ Builders' = Builders \cup {n}
      /\ n \notin Builders /\ b # n /\ builders'[n] = z /\ builders'[b] = y
      /\ \A c \in Builders : c # b => builders'[c] = builders[c]
  <2> DEFINE s == [builders EXCEPT ![b] = y]
  <2>1. /\ s \in Seq(BuilderRecords) /\ Len(s) = Len(builders)
        /\ s[b] = y
        /\ \A c \in Builders : c # b => s[c] = builders[c]
    BY <1>1, <1>2 DEF Builders
  <2> HIDE DEF s
  <2>2. builders' = Append(s, z)
    BY DEF s
  <2> QED  BY <1>1, <1>2, <2>1, <2>2 DEF Builders
<1>4. \A c \in Builders' : /\ parent(c) \in Builders
                           /\ Continues(builders[parent(c)], builders'[c])
  <2> SUFFICES ASSUME NEW c \in Builders'
               PROVE  /\ parent(c) \in Builders
                      /\ Continues(builders[parent(c)], builders'[c])
    OBVIOUS
  <2>1. CASE c = n
    BY <1>3, <2>1
  <2>2. CASE c = b
    BY <1>3, <2>2
  <2>3. CASE c # n /\ c # b
    <3>1. parent(c) = c /\ c \in Builders /\ builders'[c] = builders[c]
      BY <1>3, <2>3
    <3>2. Continues(builders[c], builders[c])
      BY <1>1, <3>1 DEF Continues, Grows
    <3> QED  BY <3>1, <3>2
  <2> QED  BY <2>1, <2>2, <2>3
<1>5. (\A c \in Builders : Good(builders[c]))'
  BY <1>4 DEF Continues, Good
<1>6. \A f : BuildersOf(f)' \subseteq
             IF f = z.lpFunctionAddress THEN BuildersOf(f) \cup {n} ELSE BuildersOf(f)
  BY <1>3, <1>4 DEF BuildersOf, Continues
<1>7. DistinctPaths'
  <2> SUFFICES ASSUME NEW c \in Builders', NEW d \in Builders', c # d,
                      builders'[c].lpFunctionAddress = builders'[d].lpFunctionAddress
               PROVE  \E a \in Addresses : Diverge(builders'[c], builders'[d], a)
    BY DEF DistinctPaths, Diverge
  <2>1. CASE parent(c) # parent(d)
    <3>1. PICK a \in Addresses : Diverge(builders[parent(c)], builders[parent(d)], a)
      BY <1>1, <1>4, <2>1 DEF DistinctPaths, Continues
    <3> QED  BY <3>1, <1>4, DivergeKept DEF Continues
  <2>2. CASE parent(c) = parent(d)
    BY <1>3, <2>2 DEF Diverge
  <2> QED  BY <2>1, <2>2
<1> QED  BY <1>3, <1>5, <1>6, <1>7

-----------------------------------------------------------------------------
(* The budget *)

(***************************************************************************)
(* What ShouldFork takes from the forks that are left: one for a fork, and  *)
(* nothing of the other functions.                                          *)
(***************************************************************************)
LEMMA PolicyFacts ==
  ASSUME ForksTyped, NEW x \in BuilderRecords, NEW policy, ShouldFork(x, policy)
  PROVE  /\ ForksTyped'
         /\ \A f \in Functions : ForksLeft(f)' =
               IF policy = "TAKE_BOTH" /\ f = x.lpFunctionAddress
               THEN ForksLeft(f) - 1 ELSE ForksLeft(f)
         /\ policy = "TAKE_BOTH" => FirstTime(x)
<1> DEFINE f0 == x.lpFunctionAddress
<1>1. f0 \in Functions
  BY DEF BuilderRecords
<1>2. CASE /\ FirstTime(x) /\ MayFork(f0) /\ TakeFork(f0) /\ policy = "TAKE_BOTH"
  <2>1. DOMAIN aNumForksLeft' = DOMAIN aNumForksLeft \cup {f0}
    BY <1>2 DEF TakeFork
  <2>2. \A f \in DOMAIN aNumForksLeft \cup {f0} :
          aNumForksLeft'[f] = IF f # f0 THEN aNumForksLeft[f]
                              ELSE IF f0 \in DOMAIN aNumForksLeft
                                   THEN aNumForksLeft[f0] - 1 ELSE InitialForks
    BY <1>2 DEF TakeFork
  <2>3. ForksTyped'
    BY <1>1, <1>2, <2>1, <2>2, LimitsAssumption DEF ForksTyped, MayFork
  <2>4. \A f \in Functions :
          ForksLeft(f)' = IF f = f0 THEN ForksLeft(f) - 1 ELSE ForksLeft(f)
    BY <1>1, <1>2, <2>1, <2>2, LimitsAssumption DEF ForksTyped, ForksLeft
  <2> QED  BY <1>2, <2>3, <2>4
<1>3. CASE policy # "TAKE_BOTH" /\ UNCHANGED aNumForksLeft
  BY <1>3 DEF ForksTyped, ForksLeft
<1> QED  BY <1>2, <1>3 DEF ShouldFork

\* The builders of a function are finitely many.
LEMMA BuildersFinite ==
  ASSUME builders \in Seq(BuilderRecords), NEW f
  PROVE  /\ IsFiniteSet(BuildersOf(f))
         /\ Cardinality(BuildersOf(f)) \in Nat
         /\ Len(builders) + 1 \notin BuildersOf(f)
<1>1. BuildersOf(f) \subseteq 1..Len(builders) /\ Len(builders) \in Nat
  BY DEF BuildersOf, Builders
<1>2. IsFiniteSet(1..Len(builders))
  BY <1>1, FS_Interval
<1> QED  BY <1>1, <1>2, FS_Subset, FS_CardinalityType

-----------------------------------------------------------------------------
(* The invariant *)

\* The initial states: a builder per selected function, and all its forks.
LEMMA InitIInv == Init => IInv
<1> SUFFICES ASSUME Init  PROVE  IInv
  OBVIOUS
<1> USE DEF Init
<1>1. /\ Len(Selection) \in Nat /\ Builders = 1..Len(Selection)
      /\ \A i \in Builders : /\ Selection[i] \in Functions
                            /\ builders[i] = ScheduleBuild(Selection[i])
      /\ \A i, j \in Builders : Selection[i] = Selection[j] => i = j
  BY SelectionAssumption DEF Builders, IsInjective
<1>2. \A i \in Builders : /\ Good(builders[i])
                         /\ builders[i].lpFunctionAddress = Selection[i]
  BY <1>1, CodeAssumption, LimitsAssumption
  DEF ScheduleBuild, Good, BuilderRecords, NoBacklog
<1>3. builders \in Seq(BuilderRecords)
  BY <1>1, <1>2 DEF Good
<1>4. DistinctPaths
  BY <1>1, <1>2 DEF DistinctPaths
<1>5. DOMAIN aNumForksLeft = {}
  OBVIOUS
<1>6. Budget
  <2> SUFFICES ASSUME NEW f \in Functions
               PROVE  Cardinality(BuildersOf(f)) + ForksLeft(f) <= Quota
    BY DEF Budget
  <2>1. ForksLeft(f) = InitialForks + 1 /\ Quota = 1 + (InitialForks + 1)
    BY <1>5, LimitsAssumption DEF ForksLeft, Quota
  <2>2. Cardinality(BuildersOf(f)) <= 1
    <3>1. CASE BuildersOf(f) = {}
      BY <3>1, FS_EmptySet
    <3>2. CASE BuildersOf(f) # {}
      <4>1. PICK i \in Builders : i \in BuildersOf(f)
        BY <3>2 DEF BuildersOf
      <4>2. BuildersOf(f) = {i}
        BY <4>1, <1>1, <1>2 DEF BuildersOf
      <4>3. Cardinality({i}) = 1
        BY FS_Singleton
      <4> QED  BY <4>2, <4>3
    <3> QED  BY <3>1, <3>2
  <2>3. Cardinality(BuildersOf(f)) \in Nat
    BY <1>3, BuildersFinite
  <2> QED  BY <2>1, <2>2, <2>3, LimitsAssumption
<1> QED  BY <1>2, <1>3, <1>4, <1>5, <1>6, LimitsAssumption DEF IInv, ForksTyped

\* A step that changes one builder, and takes no more forks than it may.
LEMMA AloneIInv ==
  ASSUME IInv, NEW b \in Builders, NEW y, Continues(builders[b], y),
         builders' = [builders EXCEPT ![b] = y], UNCHANGED numInitialize,
         ForksTyped', \A f \in Functions : ForksLeft(f)' <= ForksLeft(f)
  PROVE  IInv'
<1>1. /\ builders' \in Seq(BuilderRecords)
      /\ (\A c \in Builders : Good(builders[c]))'
      /\ \A f : BuildersOf(f)' = BuildersOf(f)
      /\ DistinctPaths'
  BY AloneStep
<1>2. Budget'
  <2> SUFFICES ASSUME NEW f \in Functions
               PROVE  Cardinality(BuildersOf(f)') + ForksLeft(f)' <= Quota'
    BY DEF Budget
  <2>1. Cardinality(BuildersOf(f)) + ForksLeft(f) <= Quota
    BY DEF IInv, Budget
  <2>2. Cardinality(BuildersOf(f)) \in Nat
    BY BuildersFinite DEF IInv
  <2>3. ForksLeft(f) \in Nat /\ ForksLeft(f)' \in Nat
    BY LimitsAssumption DEF IInv, ForksTyped, ForksLeft
  <2>4. Quota' = Quota /\ Quota \in Int
    BY LimitsAssumption DEF Quota, IInv
  <2> QED  BY <1>1, <2>1, <2>2, <2>3, <2>4
<1> QED  BY <1>1, <1>2 DEF IInv

\* A step that leaves a fork takes one of the forks of its function.
LEMMA ForkIInv ==
  ASSUME IInv, NEW b \in Builders, NEW y, Continues(builders[b], y),
         NEW z, Continues(builders[b], z),
         NEW a \in Addresses, Diverge(y, z, a),
         builders' = Append([builders EXCEPT ![b] = y], z),
         UNCHANGED numInitialize, ForksTyped',
         \A f \in Functions : ForksLeft(f)' =
           IF f = z.lpFunctionAddress THEN ForksLeft(f) - 1 ELSE ForksLeft(f)
  PROVE  IInv'
<1>1. /\ builders' \in Seq(BuilderRecords)
      /\ (\A c \in Builders : Good(builders[c]))'
      /\ \A f : BuildersOf(f)' \subseteq
                 IF f = z.lpFunctionAddress THEN BuildersOf(f) \cup {Len(builders) + 1}
                                            ELSE BuildersOf(f)
      /\ DistinctPaths'
  BY ForkStep
<1>2. Budget'
  <2> SUFFICES ASSUME NEW f \in Functions
               PROVE  Cardinality(BuildersOf(f)') + ForksLeft(f)' <= Quota'
    BY DEF Budget
  <2> DEFINE S == BuildersOf(f)
             n == Len(builders) + 1
  <2>1. Cardinality(S) + ForksLeft(f) <= Quota
    BY DEF IInv, Budget
  <2>2. IsFiniteSet(S) /\ Cardinality(S) \in Nat /\ n \notin S
    BY BuildersFinite DEF IInv
  <2>3. ForksLeft(f) \in Nat
    BY LimitsAssumption DEF IInv, ForksTyped, ForksLeft
  <2>4. Quota' = Quota /\ Quota \in Int
    BY LimitsAssumption DEF Quota, IInv
  <2>5. IsFiniteSet(S \cup {n}) /\ Cardinality(S \cup {n}) = Cardinality(S) + 1
    BY <2>2, FS_AddElement
  <2>6. CASE f = z.lpFunctionAddress
    <3>1. BuildersOf(f)' \subseteq S \cup {n}
      BY <1>1, <2>6
    <3>2. /\ Cardinality(BuildersOf(f)') <= Cardinality(S) + 1
          /\ Cardinality(BuildersOf(f)') \in Nat
      BY <3>1, <2>5, FS_Subset, FS_CardinalityType
    <3>3. ForksLeft(f)' = ForksLeft(f) - 1
      BY <2>6
    <3> QED  BY <3>2, <3>3, <2>1, <2>2, <2>3, <2>4
  <2>7. CASE f # z.lpFunctionAddress
    <3>1. BuildersOf(f)' \subseteq S
      BY <1>1, <2>7
    <3>2. /\ Cardinality(BuildersOf(f)') <= Cardinality(S)
          /\ Cardinality(BuildersOf(f)') \in Nat
      BY <3>1, <2>2, FS_Subset, FS_CardinalityType
    <3>3. ForksLeft(f)' = ForksLeft(f)
      BY <2>7
    <3> QED  BY <3>2, <3>3, <2>1, <2>2, <2>3, <2>4
  <2> QED  BY <2>6, <2>7
<1> QED  BY <1>1, <1>2 DEF IInv

\* A dialog that is opened gives every function its forks again.
LEMMA InitializeIInv == IInv /\ Initialize => IInv'
<1> SUFFICES ASSUME IInv, Initialize  PROVE  IInv'
  OBVIOUS
<1>1. /\ builders' = builders /\ numInitialize' = numInitialize + 1
      /\ DOMAIN aNumForksLeft' = {} /\ numInitialize' \in 0..MaxInitialize
  BY LimitsAssumption DEF Initialize, IInv
<1>2. Budget'
  <2> SUFFICES ASSUME NEW f \in Functions
               PROVE  Cardinality(BuildersOf(f)') + ForksLeft(f)' <= Quota'
    BY DEF Budget
  <2>1. BuildersOf(f)' = BuildersOf(f) /\ ForksLeft(f)' = InitialForks + 1
    BY <1>1 DEF BuildersOf, Builders, ForksLeft
  <2>2. Quota' = Quota + (InitialForks + 1) /\ Quota \in Int
    BY <1>1, LimitsAssumption DEF Quota, IInv
  <2>3. Cardinality(BuildersOf(f)) + ForksLeft(f) <= Quota
    BY DEF IInv, Budget
  <2>4. ForksLeft(f) \in Nat
    BY LimitsAssumption DEF IInv, ForksTyped, ForksLeft
  <2>5. Cardinality(BuildersOf(f)) \in Nat
    BY BuildersFinite DEF IInv
  <2> QED  BY <2>1, <2>2, <2>3, <2>4, <2>5, LimitsAssumption
<1> QED  BY <1>1, <1>2 DEF IInv, ForksTyped, Builders, DistinctPaths

(***************************************************************************)
(* A builder that decides a condition: it counts it, enters the decision,   *)
(* and goes on; the forks that are left are those the oracle left.          *)
(***************************************************************************)
LEMMA DecisionFacts ==
  ASSUME IInv, NEW b \in Builders, NEW x, AtCondition(b, x),
         ~TooManyConditions(x.dwNumConditions + 1),
         NEW policy, ShouldFork(x, policy), NEW taken \in BOOLEAN
  PROVE  LET y == NewEntry(Counted(x), taken)
         IN /\ x \in BuilderRecords
            /\ Continues(builders[b], y) /\ y.status = "building"
            /\ y.lpFunctionAddress = x.lpFunctionAddress
            /\ policy = "TAKE_BOTH" => y.oBacklog[x.lpCurrentAddress] = <<taken>>
            /\ ForksTyped'
            /\ \A f \in Functions : ForksLeft(f)' =
                  IF policy = "TAKE_BOTH" /\ f = x.lpFunctionAddress
                  THEN ForksLeft(f) - 1 ELSE ForksLeft(f)
<1> DEFINE y == NewEntry(Counted(x), taken)
<1>1. Good(builders[b]) /\ ForksTyped
  BY DEF IInv
<1>2. /\ x \in BuilderRecords /\ x.dwNumConditions < MaxConditions
      /\ x.status = "building"
      /\ Continues(builders[b], x)
  BY <1>1, HeadFacts DEF Continues, Good, Grows
<1>3. /\ Continues(x, y) /\ y.status = "building"
      /\ FirstTime(x) => y.oBacklog[x.lpCurrentAddress] = <<taken>>
  BY <1>2, EntryFacts
<1>4. Continues(builders[b], y)
  BY <1>2, <1>3, ContinuesTransitive
<1>5. /\ policy = "TAKE_BOTH" => FirstTime(x)
      /\ ForksTyped'
      /\ \A f \in Functions : ForksLeft(f)' =
            IF policy = "TAKE_BOTH" /\ f = x.lpFunctionAddress
            THEN ForksLeft(f) - 1 ELSE ForksLeft(f)
  BY <1>1, <1>2, PolicyFacts
<1>6. y.lpFunctionAddress = x.lpFunctionAddress
  BY <1>3 DEF Continues
<1> QED  BY <1>2, <1>3, <1>4, <1>5, <1>6

\* Every step of a builder keeps the invariant.
LEMMA BuilderIInv ==
  ASSUME IInv, NEW b \in Builders, BuilderStep(b)
  PROVE  IInv'
<1> DEFINE r == builders[b]
<1>1. Good(r) /\ ForksTyped
  BY DEF IInv
<1>2. ASSUME UNCHANGED aNumForksLeft
      PROVE  ForksTyped' /\ \A f \in Functions : ForksLeft(f)' <= ForksLeft(f)
  BY <1>1, <1>2, LimitsAssumption DEF ForksTyped, ForksLeft
<1>3. ASSUME NEW x \in BuilderRecords, ForksTyped,
             NEW policy, \A f \in Functions : ForksLeft(f)' =
                  IF policy = "TAKE_BOTH" /\ f = x.lpFunctionAddress
                  THEN ForksLeft(f) - 1 ELSE ForksLeft(f)
      PROVE  \A f \in Functions : ForksLeft(f)' <= ForksLeft(f)
  BY <1>3, LimitsAssumption DEF ForksTyped, ForksLeft
<1>4. CASE Execute(b)
  <2> DEFINE y == [r EXCEPT !.status = "building", !.dwLastNumNodes = 0,
                            !.dwNumIterationsWithoutProgress = 0]
  <2>1. /\ r.status = "queued" /\ UNCHANGED <<aNumForksLeft, numInitialize>>
        /\ builders' = [builders EXCEPT ![b] = y]
    BY <1>4 DEF Execute
  <2>2. Continues(r, y)
    <3>1. 0 \in 0..(MaxNoops - 1) /\ 0 \in Nat
      BY LimitsAssumption
    <3>2. /\ r \in BuilderRecords /\ r.dwNumConditions < MaxConditions
      BY <1>1, <2>1 DEF Good
    <3> HIDE DEF r
    <3>3. /\ y \in BuilderRecords /\ y.dwNumConditions < MaxConditions
          /\ y.lpFunctionAddress = r.lpFunctionAddress /\ y.oBacklog = r.oBacklog
      BY <3>1, <3>2 DEF BuilderRecords
    <3> QED  BY <3>2, <3>3 DEF Continues, Good, Grows
  <2> HIDE DEF y
  <2> QED  BY <1>2, <2>1, <2>2, AloneIInv
<1>5. CASE GiveUp(b)
  <2> DEFINE y == [r EXCEPT !.status = "error"]
  <2>1. /\ UNCHANGED <<aNumForksLeft, numInitialize>>
        /\ builders' = [builders EXCEPT ![b] = y]
    BY <1>5 DEF GiveUp
  <2>2. Continues(r, y)
    BY <1>1 DEF Continues, Good, Grows, BuilderRecords
  <2> HIDE DEF y
  <2> QED  BY <1>2, <2>1, <2>2, AloneIInv
<1>6. CASE Instruction(b)
  <2>1. PICK x : /\ AtCondition(b, x)
                 /\ \E y \in Processed(x) \cup Skipped(x) :
                      builders' = [builders EXCEPT ![b] = y]
    BY <1>6 DEF Instruction
  <2>2. PICK y \in Processed(x) \cup Skipped(x) : builders' = [builders EXCEPT ![b] = y]
    BY <2>1
  <2>3. Good(x) /\ x.status = "building" /\ Continues(r, x)
    BY <1>1, <2>1, HeadFacts DEF Continues, Good, Grows
  <2>4. Continues(r, y)
    BY <2>3, OutcomeFacts, ContinuesTransitive
  <2>5. UNCHANGED <<aNumForksLeft, numInitialize>>
    BY <1>6 DEF Instruction
  <2> QED  BY <1>2, <2>2, <2>4, <2>5, AloneIInv
<1>7. CASE TooManyConditionsAt(b)
  <2>1. PICK x : /\ AtCondition(b, x)
                 /\ builders' = [builders EXCEPT ![b] = Ended(Counted(x))]
    BY <1>7 DEF TooManyConditionsAt
  <2>2. x \in BuilderRecords /\ x.dwNumConditions < MaxConditions /\ Continues(r, x)
    BY <1>1, <2>1, HeadFacts DEF Continues, Good, Grows
  <2>3. x.dwNumConditions + 1 \in 0..MaxConditions
    BY <2>2, LimitsAssumption DEF BuilderRecords
  <2>4. Continues(x, Ended(Counted(x)))
    BY <2>2, <2>3 DEF Ended, Counted, Continues, Good, Grows, BuilderRecords
  <2>5. UNCHANGED <<aNumForksLeft, numInitialize>>
    BY <1>7 DEF TooManyConditionsAt
  <2> QED  BY <1>2, <2>1, <2>2, <2>4, <2>5, ContinuesTransitive, AloneIInv
<1>8. CASE TakeTrue(b)
  <2>1. PICK x : /\ AtCondition(b, x) /\ ~TooManyConditions(x.dwNumConditions + 1)
                 /\ \E policy \in {"TAKE_TRUE", "TAKE_BOTH"} : ShouldFork(x, policy)
                 /\ \E y \in Processed(NewEntry(Counted(x), TRUE)) :
                      builders' = [builders EXCEPT ![b] = y]
    BY <1>8 DEF TakeTrue
  <2>2. PICK policy : ShouldFork(x, policy)
    BY <2>1
  <2> DEFINE e == NewEntry(Counted(x), TRUE)
  <2>3. PICK y \in Processed(e) : builders' = [builders EXCEPT ![b] = y]
    BY <2>1
  <2>4. /\ Continues(r, e) /\ e.status = "building" /\ ForksTyped'
        /\ \A f \in Functions : ForksLeft(f)' <= ForksLeft(f)
    BY <2>1, <2>2, <1>1, <1>3, DecisionFacts
  <2> HIDE DEF e
  <2>5. Continues(r, y)
    BY <2>3, <2>4, OutcomeFacts, ContinuesTransitive DEF Continues
  <2>6. UNCHANGED numInitialize
    BY <1>8 DEF TakeTrue
  <2> QED  BY <2>3, <2>4, <2>5, <2>6, AloneIInv
<1>9. CASE TakeFalse(b)
  <2>1. PICK x : /\ AtCondition(b, x) /\ ~TooManyConditions(x.dwNumConditions + 1)
                 /\ ShouldFork(x, "TAKE_FALSE")
                 /\ \E y \in Skipped(NewEntry(Counted(x), FALSE)) :
                      builders' = [builders EXCEPT ![b] = y]
    BY <1>9 DEF TakeFalse
  <2> DEFINE e == NewEntry(Counted(x), FALSE)
  <2>3. PICK y \in Skipped(e) : builders' = [builders EXCEPT ![b] = y]
    BY <2>1
  <2>4. /\ Continues(r, e) /\ e.status = "building" /\ ForksTyped'
        /\ \A f \in Functions : ForksLeft(f)' <= ForksLeft(f)
    BY <2>1, <1>1, <1>3, DecisionFacts
  <2> HIDE DEF e
  <2>5. Continues(r, y)
    BY <2>3, <2>4, OutcomeFacts, ContinuesTransitive DEF Continues
  <2>6. UNCHANGED numInitialize
    BY <1>9 DEF TakeFalse
  <2> QED  BY <2>3, <2>4, <2>5, <2>6, AloneIInv
<1>10. CASE TakeBoth(b)
  <2>1. PICK x : /\ AtCondition(b, x) /\ ~TooManyConditions(x.dwNumConditions + 1)
                 /\ ShouldFork(x, "TAKE_BOTH")
                 /\ \E y \in Processed(NewEntry(Counted(x), TRUE)) :
                      builders' = Append([builders EXCEPT ![b] = y],
                                         Forked(NewEntry(Counted(x), FALSE)))
    BY <1>10 DEF TakeBoth
  <2> DEFINE e == NewEntry(Counted(x), TRUE)
             g == NewEntry(Counted(x), FALSE)
             z == Forked(g)
             a == x.lpCurrentAddress
  <2>2. PICK y \in Processed(e) : builders' = Append([builders EXCEPT ![b] = y], z)
    BY <2>1
  <2>3. /\ Continues(r, e) /\ e.status = "building"
        /\ x \in BuilderRecords /\ e.oBacklog[a] = <<TRUE>>
    BY <2>1, DecisionFacts
  <2>4. /\ Continues(r, g) /\ g.status = "building"
        /\ g.lpFunctionAddress = x.lpFunctionAddress
        /\ g.oBacklog[a] = <<FALSE>> /\ ForksTyped'
        /\ \A f \in Functions : ForksLeft(f)' =
              IF f = x.lpFunctionAddress THEN ForksLeft(f) - 1 ELSE ForksLeft(f)
    BY <2>1, DecisionFacts
  <2> HIDE DEF e, g
  <2>5. Continues(r, y) /\ y.oBacklog = e.oBacklog
    BY <2>2, <2>3, OutcomeFacts, ContinuesTransitive DEF Continues
  <2>6. Continues(g, z) /\ z.oBacklog = g.oBacklog
    BY <2>4, CodeAssumption DEF Forked, Continues, Good, Grows, BuilderRecords
  <2> HIDE DEF z
  <2>7. Continues(r, z) /\ z.lpFunctionAddress = x.lpFunctionAddress
    BY <2>4, <2>6, ContinuesTransitive DEF Continues
  <2>8. Diverge(y, z, a) /\ a \in Addresses
    <3>1. \A t : <<t>> # <<>> /\ Head(<<t>>) = t
      OBVIOUS
    <3>2. y.oBacklog[a] = <<TRUE>> /\ z.oBacklog[a] = <<FALSE>>
      BY <2>3, <2>4, <2>5, <2>6
    <3>3. a \in Addresses
      BY <2>3 DEF BuilderRecords
    <3> QED  BY <3>1, <3>2, <3>3 DEF Diverge
  <2>9. UNCHANGED numInitialize
    BY <1>10 DEF TakeBoth
  <2> QED  BY <2>2, <2>4, <2>5, <2>7, <2>8, <2>9, ForkIInv
<1> QED  BY <1>4, <1>5, <1>6, <1>7, <1>8, <1>9, <1>10 DEF BuilderStep

(***************************************************************************)
(* The invariant holds in every reachable state.                            *)
(***************************************************************************)
THEOREM Invariance == SafeSpec => []IInv
<1>1. Init => IInv
  BY InitIInv
<1>2. IInv /\ [Next]_vars => IInv'
  <2> SUFFICES ASSUME IInv, [Next]_vars  PROVE  IInv'
    OBVIOUS
  <2>1. CASE \E b \in Builders : BuilderStep(b)
    BY <2>1, BuilderIInv
  <2>2. CASE Initialize
    BY <2>2, InitializeIInv
  <2>3. CASE UNCHANGED vars
    BY <2>3 DEF vars, IInv, Builders, ForksTyped, Budget, BuildersOf, ForksLeft,
                Quota, DistinctPaths
  <2> QED  BY <2>1, <2>2, <2>3 DEF Next
<1> QED  BY <1>1, <1>2, PTL DEF SafeSpec

(***************************************************************************)
(* The types: in particular a builder that is at work never goes beyond the *)
(* limits of conditions and of iterations without progress.                 *)
(***************************************************************************)
THEOREM TypeCorrect == SafeSpec => []TypeOK
<1>1. IInv => TypeOK
  BY DEF IInv, TypeOK, ForksTyped
<1> QED  BY <1>1, Invariance, PTL

(***************************************************************************)
(* A function is explored on at most one path more than the forks that the  *)
(* dialogs opened so far allow, however its builders interleave.            *)
(***************************************************************************)
THEOREM BudgetKept == SafeSpec => []ForkBudget
<1>1. IInv => ForkBudget
  <2> SUFFICES ASSUME IInv, NEW f \in Functions
               PROVE  Cardinality(BuildersOf(f)) <= Quota
    BY DEF ForkBudget, Quota
  <2>1. Cardinality(BuildersOf(f)) + ForksLeft(f) <= Quota
    BY DEF IInv, Budget
  <2>2. ForksLeft(f) \in Nat /\ Quota \in Int
    BY LimitsAssumption DEF IInv, ForksTyped, ForksLeft, Quota
  <2>3. Cardinality(BuildersOf(f)) \in Nat
    BY BuildersFinite DEF IInv
  <2> QED  BY <2>1, <2>2, <2>3
<1> QED  BY <1>1, Invariance, PTL

(***************************************************************************)
(* No two builders of a function explore the same path.                     *)
(***************************************************************************)
THEOREM NoPathTwice == SafeSpec => []DistinctPaths
<1>1. IInv => DistinctPaths
  BY DEF IInv
<1> QED  BY <1>1, Invariance, PTL
-----------------------------------------------------------------------------
(* Loops are left *)

\* The decisions at one address: four alike, and the opposite from then on.
TurnedAfterFour(log) == \A i \in 1..Len(log) : (log[i] = Head(log)) <=> (i <= 4)

LoopsLeftBy(x) == \A a \in Addresses : TurnedAfterFour(x.oBacklog[a])

\* The oracle's answer to a condition it knows carries the pattern on.
LEMMA EntryTurns ==
  ASSUME NEW log \in Seq(BOOLEAN), TurnedAfterFour(log), NEW taken \in BOOLEAN,
         log = <<>> \/ (taken = Head(log) <=> ~(Len(log) >= 4))
  PROVE  TurnedAfterFour(Append(log, taken))
<1> DEFINE longer == Append(log, taken)
<1>1. /\ longer \in Seq(BOOLEAN) /\ Len(longer) = Len(log) + 1 /\ Len(log) \in Nat
      /\ longer[Len(log) + 1] = taken
      /\ \A i \in 1..Len(log) : longer[i] = log[i]
      /\ Head(longer) = longer[1]
  OBVIOUS
<1> HIDE DEF longer
<1>2. CASE log = <<>>
  <2>1. Len(log) = 0
    BY <1>2
  <2> QED  BY <1>1, <2>1 DEF TurnedAfterFour
<1>3. CASE log # <<>>
  <2>1. Len(log) >= 1 /\ Head(log) = log[1] /\ Head(longer) = Head(log)
    BY <1>1, <1>3
  <2> SUFFICES ASSUME NEW i \in 1..(Len(log) + 1)
               PROVE  (longer[i] = Head(log)) <=> (i <= 4)
    BY <1>1, <2>1 DEF TurnedAfterFour
  <2>2. CASE i \in 1..Len(log)
    BY <1>1, <2>2 DEF TurnedAfterFour
  <2>3. CASE i = Len(log) + 1
    <3>1. (longer[i] = Head(log)) <=> ~(Len(log) >= 4)
      BY <1>1, <1>3, <2>3
    <3> QED  BY <1>1, <2>3, <3>1
  <2> QED  BY <1>1, <2>2, <2>3
<1> QED  BY <1>2, <1>3

(***************************************************************************)
(* A decision: at a condition met for the first time it is either way; at   *)
(* one that is known it is the way the oracle says.                         *)
(***************************************************************************)
LEMMA DecisionTurns ==
  ASSUME IInv, LoopsAreLeft, NEW b \in Builders, NEW x, AtCondition(b, x),
         NEW policy, ShouldFork(x, policy), NEW taken \in BOOLEAN,
         ~FirstTime(x) => (taken <=> policy = "TAKE_TRUE")
  PROVE  LoopsLeftBy(NewEntry(Counted(x), taken))
<1> DEFINE y == NewEntry(Counted(x), taken)
           a0 == x.lpCurrentAddress
           log == x.oBacklog[a0]
<1>1. /\ x \in BuilderRecords /\ x.oBacklog = builders[b].oBacklog
      /\ a0 \in Addresses /\ log \in Seq(BOOLEAN)
      /\ x.oBacklog \in [Addresses -> Seq(BOOLEAN)]
  <2>1. Good(builders[b])
    BY DEF IInv
  <2>2. x \in BuilderRecords /\ x.oBacklog = builders[b].oBacklog
    BY <2>1, HeadFacts
  <2> QED  BY <2>2 DEF BuilderRecords
<1>2. \A a \in Addresses : TurnedAfterFour(x.oBacklog[a])
  BY <1>1 DEF LoopsAreLeft, TurnedAfterFour
<1>3. y.oBacklog = [x.oBacklog EXCEPT ![a0] = Append(@, taken)]
  <2>1. /\ Counted(x).oBacklog = x.oBacklog /\ Counted(x).lpCurrentAddress = a0
        /\ "oBacklog" \in DOMAIN Counted(x)
    BY <1>1 DEF Counted, BuilderRecords
  <2> QED  BY <2>1 DEF NewEntry
<1>4. log = <<>> \/ (taken = Head(log) <=> ~(Len(log) >= 4))
  <2> SUFFICES ASSUME log # <<>>  PROVE  taken = Head(log) <=> ~(Len(log) >= 4)
    OBVIOUS
  <2>1. ~FirstTime(x) /\ Head(log) \in BOOLEAN
    BY <1>1 DEF FirstTime, Exists
  <2>2. policy = IF Head(log) # (Len(log) >= 4) THEN "TAKE_TRUE" ELSE "TAKE_FALSE"
    BY <2>1 DEF ShouldFork, GetFirst, TurnsAround
  <2>3. CASE Len(log) >= 4
    BY <2>1, <2>2, <2>3
  <2>4. CASE ~(Len(log) >= 4)
    BY <2>1, <2>2, <2>4
  <2> QED  BY <2>3, <2>4
<1>5. TurnedAfterFour(Append(log, taken))
  <2>1. TurnedAfterFour(log)
    BY <1>1, <1>2
  <2> HIDE DEF log
  <2> QED  BY <1>1, <1>4, <2>1, EntryTurns
<1> SUFFICES ASSUME NEW a \in Addresses  PROVE  TurnedAfterFour(y.oBacklog[a])
  BY DEF LoopsLeftBy
<1>6. y.oBacklog[a] = IF a = a0 THEN Append(log, taken) ELSE x.oBacklog[a]
  BY <1>1, <1>3
<1> QED  BY <1>2, <1>5, <1>6

\* A builder goes on, and none is forked.
LEMMA AloneTurns ==
  ASSUME IInv, LoopsAreLeft, NEW b \in Builders, NEW y, LoopsLeftBy(y),
         builders' = [builders EXCEPT ![b] = y]
  PROVE  LoopsAreLeft'
<1>1. Builders' = Builders /\ \A c \in Builders : builders'[c] = IF c = b THEN y ELSE builders[c]
  BY DEF Builders, IInv
<1> QED  BY <1>1 DEF LoopsAreLeft, LoopsLeftBy, TurnedAfterFour

\* Every step of a builder carries the pattern on, in its fork too.
LEMMA BuilderTurns ==
  ASSUME IInv, LoopsAreLeft, NEW b \in Builders, BuilderStep(b)
  PROVE  LoopsAreLeft'
<1> DEFINE r == builders[b]
<1>1. Good(r) /\ r \in BuilderRecords /\ LoopsLeftBy(r)
  BY DEF IInv, Good, LoopsAreLeft, LoopsLeftBy, TurnedAfterFour
<1>2. ASSUME NEW x, AtCondition(b, x)
      PROVE  /\ Good(x) /\ x \in BuilderRecords /\ x.status = "building"
             /\ x.oBacklog = r.oBacklog
  BY <1>1, <1>2, HeadFacts DEF Good
<1>3. ASSUME NEW x, AtCondition(b, x), ~TooManyConditions(x.dwNumConditions + 1),
             NEW policy, ShouldFork(x, policy), NEW taken \in BOOLEAN
      PROVE  LET e == NewEntry(Counted(x), taken)
             IN Good(e) /\ e.status = "building"
  BY <1>3, DecisionFacts DEF Continues
<1>4. CASE Execute(b)
  <2> DEFINE y == [r EXCEPT !.status = "building", !.dwLastNumNodes = 0,
                            !.dwNumIterationsWithoutProgress = 0]
  <2>1. builders' = [builders EXCEPT ![b] = y] /\ y.oBacklog = r.oBacklog
    BY <1>1, <1>4 DEF Execute, BuilderRecords
  <2> QED  BY <1>1, <2>1, AloneTurns DEF LoopsLeftBy
<1>5. CASE GiveUp(b)
  <2> DEFINE y == [r EXCEPT !.status = "error"]
  <2>1. builders' = [builders EXCEPT ![b] = y] /\ y.oBacklog = r.oBacklog
    BY <1>1, <1>5 DEF GiveUp, BuilderRecords
  <2> QED  BY <1>1, <2>1, AloneTurns DEF LoopsLeftBy
<1>6. CASE Instruction(b)
  <2>1. PICK x : /\ AtCondition(b, x)
                 /\ \E y \in Processed(x) \cup Skipped(x) :
                      builders' = [builders EXCEPT ![b] = y]
    BY <1>6 DEF Instruction
  <2>2. PICK y \in Processed(x) \cup Skipped(x) : builders' = [builders EXCEPT ![b] = y]
    BY <2>1
  <2>3. y.oBacklog = r.oBacklog
    BY <1>2, <2>1, <2>2, OutcomeFacts
  <2> QED  BY <1>1, <2>2, <2>3, AloneTurns DEF LoopsLeftBy
<1>7. CASE TooManyConditionsAt(b)
  <2>1. PICK x : /\ AtCondition(b, x)
                 /\ builders' = [builders EXCEPT ![b] = Ended(Counted(x))]
    BY <1>7 DEF TooManyConditionsAt
  <2>2. Ended(Counted(x)).oBacklog = r.oBacklog
    BY <1>2, <2>1 DEF Ended, Counted, BuilderRecords
  <2> QED  BY <1>1, <2>1, <2>2, AloneTurns DEF LoopsLeftBy
<1>8. CASE TakeTrue(b)
  <2>1. PICK x : /\ AtCondition(b, x) /\ ~TooManyConditions(x.dwNumConditions + 1)
                 /\ \E policy \in {"TAKE_TRUE", "TAKE_BOTH"} : ShouldFork(x, policy)
                 /\ \E y \in Processed(NewEntry(Counted(x), TRUE)) :
                      builders' = [builders EXCEPT ![b] = y]
    BY <1>8 DEF TakeTrue
  <2> DEFINE e == NewEntry(Counted(x), TRUE)
  <2>2. PICK y \in Processed(e) : builders' = [builders EXCEPT ![b] = y]
    BY <2>1
  <2>3. PICK policy \in {"TAKE_TRUE", "TAKE_BOTH"} : ShouldFork(x, policy)
    BY <2>1
  <2>4. ~FirstTime(x) => (TRUE <=> policy = "TAKE_TRUE")
    BY <2>3 DEF ShouldFork
  <2>5. LoopsLeftBy(e)
    BY <2>1, <2>3, <2>4, DecisionTurns
  <2>6. Good(e) /\ e.status = "building"
    BY <1>3, <2>1, <2>3
  <2> HIDE DEF e
  <2>7. y.oBacklog = e.oBacklog
    BY <2>2, <2>6, OutcomeFacts
  <2> QED  BY <2>2, <2>5, <2>7, AloneTurns DEF LoopsLeftBy
<1>9. CASE TakeFalse(b)
  <2>1. PICK x : /\ AtCondition(b, x) /\ ~TooManyConditions(x.dwNumConditions + 1)
                 /\ ShouldFork(x, "TAKE_FALSE")
                 /\ \E y \in Skipped(NewEntry(Counted(x), FALSE)) :
                      builders' = [builders EXCEPT ![b] = y]
    BY <1>9 DEF TakeFalse
  <2> DEFINE e == NewEntry(Counted(x), FALSE)
  <2>2. PICK y \in Skipped(e) : builders' = [builders EXCEPT ![b] = y]
    BY <2>1
  <2>3. ~FirstTime(x) => (FALSE <=> "TAKE_FALSE" = "TAKE_TRUE")
    OBVIOUS
  <2>4. LoopsLeftBy(e)
    BY <2>1, <2>3, DecisionTurns
  <2>5. Good(e) /\ e.status = "building"
    BY <1>3, <2>1
  <2> HIDE DEF e
  <2>6. y.oBacklog = e.oBacklog
    BY <2>2, <2>5, OutcomeFacts
  <2> QED  BY <2>2, <2>4, <2>6, AloneTurns DEF LoopsLeftBy
<1>10. CASE TakeBoth(b)
  <2>1. PICK x : /\ AtCondition(b, x) /\ ~TooManyConditions(x.dwNumConditions + 1)
                 /\ ShouldFork(x, "TAKE_BOTH")
                 /\ \E y \in Processed(NewEntry(Counted(x), TRUE)) :
                      builders' = Append([builders EXCEPT ![b] = y],
                                         Forked(NewEntry(Counted(x), FALSE)))
    BY <1>10 DEF TakeBoth
  <2> DEFINE e == NewEntry(Counted(x), TRUE)
             g == NewEntry(Counted(x), FALSE)
             z == Forked(g)
  <2>2. PICK y \in Processed(e) : builders' = Append([builders EXCEPT ![b] = y], z)
    BY <2>1
  <2>3. FirstTime(x)
    BY <2>1 DEF ShouldFork
  <2>4. LoopsLeftBy(e) /\ LoopsLeftBy(g)
    BY <2>1, <2>3, DecisionTurns
  <2>5. Good(e) /\ e.status = "building" /\ Good(g)
    BY <1>3, <2>1
  <2> HIDE DEF e, g
  <2>6. y.oBacklog = e.oBacklog
    BY <2>2, <2>5, OutcomeFacts
  <2>7. z.oBacklog = g.oBacklog
    BY <2>5 DEF Forked, Good, BuilderRecords
  <2> HIDE DEF z
  <2>8. LoopsLeftBy(y) /\ LoopsLeftBy(z)
    BY <2>4, <2>6, <2>7 DEF LoopsLeftBy
  <2>9. \A c \in Builders' : LoopsLeftBy(builders'[c])
    <3> DEFINE s == [builders EXCEPT ![b] = y]
    <3>1. \A c \in Builders : LoopsLeftBy(builders[c])
      BY DEF LoopsAreLeft, LoopsLeftBy, TurnedAfterFour
    <3>2. builders \in Seq(BuilderRecords) /\ DOMAIN s = Builders /\ Len(s) = Len(builders)
          /\ \A c \in Builders : s[c] = IF c = b THEN y ELSE builders[c]
      BY DEF IInv, Builders
    <3>3. s \in Seq({builders[c] : c \in Builders} \cup {y})
      BY <3>2 DEF Builders
    <3> HIDE DEF s
    <3>4. /\ builders' = Append(s, z) /\ Len(builders') = Len(s) + 1
          /\ builders'[Len(s) + 1] = z
          /\ \A c \in 1..Len(s) : builders'[c] = s[c]
      BY <2>2, <3>3 DEF s
    <3> QED  BY <2>8, <3>1, <3>2, <3>4 DEF Builders
  <2> QED  BY <2>9 DEF LoopsAreLeft, LoopsLeftBy, TurnedAfterFour
<1> QED  BY <1>4, <1>5, <1>6, <1>7, <1>8, <1>9, <1>10 DEF BuilderStep

(***************************************************************************)
(* The oracle gets every builder out of every loop over a condition: four   *)
(* rounds the way it went first, then the other way, for any code.          *)
(***************************************************************************)
THEOREM EveryLoopIsLeft == SafeSpec => []LoopsAreLeft
<1>1. Init => LoopsAreLeft
  <2> SUFFICES ASSUME Init, NEW b \in Builders, NEW a \in Addresses
               PROVE  Len(builders[b].oBacklog[a]) = 0
    BY DEF LoopsAreLeft
  <2>1. builders[b] = ScheduleBuild(Selection[b])
    BY SelectionAssumption DEF Init, Builders
  <2> QED  BY <2>1 DEF ScheduleBuild, NoBacklog
<1>2. IInv /\ LoopsAreLeft /\ [Next]_vars => LoopsAreLeft'
  <2> SUFFICES ASSUME IInv, LoopsAreLeft, [Next]_vars  PROVE  LoopsAreLeft'
    OBVIOUS
  <2>1. CASE \E b \in Builders : BuilderStep(b)
    BY <2>1, BuilderTurns
  <2>2. CASE UNCHANGED builders
    BY <2>2 DEF LoopsAreLeft, Builders
  <2> QED  BY <2>1, <2>2 DEF Next, Initialize, vars
<1> QED  BY <1>1, <1>2, Invariance, PTL DEF SafeSpec
===============================================================================
