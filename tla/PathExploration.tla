--------------------------- MODULE PathExploration ---------------------------
(***************************************************************************)
(* The builders of code graphs (CodeBrokerImpl in Broker.cpp), the oracle   *)
(* that tells them which way to go at a condition (PathOracle.cpp) and the  *)
(* backlog of the ways a builder has gone (Backlog.cpp).                    *)
(*                                                                          *)
(* A builder is a task of the thread pool: from "queued" it runs at some    *)
(* moment (TaskService), concurrently with others.  Builders share only     *)
(* g_aNumForksLeft, under its mutex, and the queue of the pool, so that an  *)
(* iteration of Build_Impl is one action: it looks at the first once, and   *)
(* appends to the second at the end.                                        *)
(*                                                                          *)
(* Instructions are abstract: one may carry a condition, which the state    *)
(* predicate decides or does not (Predicate.tla has the predicate), it adds *)
(* some nodes to the graph, and it goes on to a successor, ends the         *)
(* function or fails.                                                       *)
(***************************************************************************)
EXTENDS Integers, FiniteSets, SequencesExt

CONSTANTS Functions,     \* the addresses of functions
          Selection,     \* the selected functions, in order
          Addresses,     \* the addresses of instructions
          EntryPoint,    \* function -> its first instruction
          Following,     \* lpAddress + dwInstructionSize
          Targets,       \* address -> the addresses its instruction may jump to
          InitialForks,  \* forks left to a function after its first one: 99
          MaxGraphSize,  \* of the path oracle: 200000 nodes
          MaxNoops,      \* MaxConsecutiveNoopInstructions: 1000
          MaxConditions, \* of the path oracle: 1000000000
          MaxGrowth,     \* bound on the nodes that a step of the instruction there adds
          MaxInitialize  \* bound on the dialogs opened while builders are alive

ASSUME SelectionAssumption ==
  /\ Selection \in Seq(Functions)
  /\ IsInjective(Selection)
ASSUME CodeAssumption ==
  /\ EntryPoint \in [Functions -> Addresses]
  /\ Following \in [Addresses -> Addresses]
  /\ Targets \in [Addresses -> SUBSET Addresses]
ASSUME LimitsAssumption ==
  /\ InitialForks \in Nat /\ MaxInitialize \in Nat
  /\ MaxGraphSize \in Nat /\ MaxNoops \in Nat \ {0} /\ MaxConditions \in Nat \ {0}
ASSUME GrowthAssumption == MaxGrowth \in [Addresses -> Nat]

VARIABLES
  builders,       \* the builders, in the order of their creation
  aNumForksLeft,  \* g_aNumForksLeft: function -> forks, for those that forked
  numInitialize   \* the calls of PathOracleImpl::Initialize so far

vars == <<builders, aNumForksLeft, numInitialize>>

-----------------------------------------------------------------------------
(* BacklogDb *)

NoBacklog == [a \in Addresses |-> <<>>]

Exists(x) == x.oBacklog[x.lpCurrentAddress] # <<>>
GetFirst(x) == Head(x.oBacklog[x.lpCurrentAddress])

NewEntry(x, taken) ==
  [x EXCEPT !.oBacklog[x.lpCurrentAddress] = Append(@, taken)]

-----------------------------------------------------------------------------
(* PathOracle *)

\* Mutant of FirstTime: one entry is not enough to know a condition
FirstOrSecondTime(x) == Len(x.oBacklog[x.lpCurrentAddress]) <= 1

\* no decision was made at this address before
FirstTime(x) == ~Exists(x)

\* Mutant of MayFork: off by one
MayForkAtZero(f) == f \in DOMAIN aNumForksLeft => aNumForksLeft[f] >= 0

\* a function that is not in the map has not forked yet
MayFork(f) == f \in DOMAIN aNumForksLeft => aNumForksLeft[f] > 0

\* insert the function, or decrement
TakeFork(f) ==
  aNumForksLeft' = [g \in DOMAIN aNumForksLeft \cup {f} |->
                      IF g # f THEN aNumForksLeft[g]
                      ELSE IF f \in DOMAIN aNumForksLeft THEN aNumForksLeft[f] - 1
                      ELSE InitialForks]

\* Mutant of TurnsAround: one time more
TurnsAroundLate(x) == Len(x.oBacklog[x.lpCurrentAddress]) > 4

\* the condition was met so often that the other way is taken from now on
TurnsAround(x) == Len(x.oBacklog[x.lpCurrentAddress]) >= 4

(***************************************************************************)
(* ShouldFork: the policy for the condition at lpCurrentAddress.            *)
(***************************************************************************)
ShouldFork(x, policy) ==
  \/ /\ FirstTime(x)
     /\ MayFork(x.lpFunctionAddress)
     /\ TakeFork(x.lpFunctionAddress)
     /\ policy = "TAKE_BOTH"
  \/ /\ FirstTime(x)
     /\ ~MayFork(x.lpFunctionAddress)
     /\ policy = "TAKE_FALSE"
     /\ UNCHANGED aNumForksLeft
  \/ /\ ~FirstTime(x)
     /\ policy = IF GetFirst(x) # TurnsAround(x) THEN "TAKE_TRUE" ELSE "TAKE_FALSE"
     /\ UNCHANGED aNumForksLeft

-----------------------------------------------------------------------------
(* CodeBroker *)

\* ScheduleBuild: a builder with an oracle of its own, queued
ScheduleBuild(f) ==
  [lpFunctionAddress |-> f, lpAddress |-> EntryPoint[f],
   lpCurrentAddress |-> EntryPoint[f], oBacklog |-> NoBacklog,
   dwNumConditions |-> 0, size |-> 1, dwLastNumNodes |-> 0,
   dwNumIterationsWithoutProgress |-> 0, status |-> "queued"]

Init ==
  /\ builders = [i \in 1..Len(Selection) |-> ScheduleBuild(Selection[i])]
  /\ aNumForksLeft = <<>>
  /\ numInitialize = 0

\* Execute: Build_Impl begins, with its local variables
Execute(b) ==
  /\ builders[b].status = "queued"
  /\ builders' = [builders EXCEPT ![b].status = "building",
                                  ![b].dwLastNumNodes = 0,
                                  ![b].dwNumIterationsWithoutProgress = 0]
  /\ UNCHANGED <<aNumForksLeft, numInitialize>>

NoProgress(x) == x.size = x.dwLastNumNodes

\* Mutant of Iterations: the counter starts again when it reaches the limit
IterationsRestarted(x) ==
  IF NoProgress(x) THEN (x.dwNumIterationsWithoutProgress + 1) % MaxNoops ELSE 0

\* dwNumIterationsWithoutProgress at the head of the loop
Iterations(x) ==
  IF NoProgress(x) THEN x.dwNumIterationsWithoutProgress + 1 ELSE 0

\* the builder goes beyond a limit and yields an empty result
OutOfBounds(x) ==
  x.size > MaxGraphSize \/ (NoProgress(x) /\ Iterations(x) = MaxNoops)

\* The address whose instruction an iteration executes: the argument of
\* Build_Impl, which nothing in the loop changes.
InstructionAddress(x) == x.lpAddress

LoopHead(x) ==
  [x EXCEPT !.dwNumIterationsWithoutProgress = Iterations(x),
            !.dwLastNumNodes = x.size,
            !.lpCurrentAddress = InstructionAddress(x)]

\* nodes are added to the graph
Grown(x) == {[x EXCEPT !.size = @ + n] : n \in 0..MaxGrowth[x.lpCurrentAddress]}

\* the loop ends and the graph is yielded, after PROCESSOR_STATUS_DONE or
\* PROCESSOR_STATUS_INTERNAL_ERROR
Ended(x) == [x EXCEPT !.status = "graph"]

\* the instruction is skipped: lpNextAddress is the one that follows
Skipped(x) == {[x EXCEPT !.lpCurrentAddress = Following[x.lpCurrentAddress]]}

\* the instruction is processed: it may jump, end the function, or fail
Processed(x) ==
  UNION {{[y EXCEPT !.lpCurrentAddress = next] :
            next \in {Following[x.lpCurrentAddress]} \cup Targets[x.lpCurrentAddress]}
         \cup {Ended(y)} : y \in Grown(x)}

\* b is in the loop and within its limits; x is what it is at the condition
\* of its instruction
AtCondition(b, x) ==
  /\ builders[b].status = "building"
  /\ ~OutOfBounds(builders[b])
  /\ x \in Grown(LoopHead(builders[b]))

GiveUp(b) ==
  /\ builders[b].status = "building"
  /\ OutOfBounds(builders[b])
  /\ builders' = [builders EXCEPT ![b].status = "error"]
  /\ UNCHANGED <<aNumForksLeft, numInitialize>>

(***************************************************************************)
(* An instruction without a condition the builder must decide: it always    *)
(* executes, or never does (cNV, or the predicate or the processor decides  *)
(* the condition); or it fails to decode or its flags are not set.          *)
(***************************************************************************)
Instruction(b) ==
  /\ \E x \in Grown(LoopHead(builders[b])) :
       /\ AtCondition(b, x)
       /\ \E y \in Processed(x) \cup Skipped(x) : builders' = [builders EXCEPT ![b] = y]
  /\ UNCHANGED <<aNumForksLeft, numInitialize>>

TooManyConditions(n) == n >= MaxConditions

\* one undecided condition more on this path
Counted(x) == [x EXCEPT !.dwNumConditions = @ + 1]

\* the copy of the builder, scheduled at lpNextAddress
Forked(x) ==
  [x EXCEPT !.lpAddress = Following[x.lpCurrentAddress], !.status = "queued"]

(***************************************************************************)
(* IntroduceCondition for a condition that the predicate leaves open.  If   *)
(* the graph is too deep to be copied, fork() fails: the builder takes the  *)
(* true side alone.                                                         *)
(***************************************************************************)
TooManyConditionsAt(b) ==
  /\ \E x \in Grown(LoopHead(builders[b])) :
       /\ AtCondition(b, x)
       /\ TooManyConditions(x.dwNumConditions + 1)
       /\ builders' = [builders EXCEPT ![b] = Ended(Counted(x))]
  /\ UNCHANGED <<aNumForksLeft, numInitialize>>

TakeTrue(b) ==
  /\ \E x \in Grown(LoopHead(builders[b])) :
       /\ AtCondition(b, x)
       /\ ~TooManyConditions(x.dwNumConditions + 1)
       /\ ShouldFork(x, "TAKE_TRUE") \/ ShouldFork(x, "TAKE_BOTH")
       /\ \E y \in Processed(NewEntry(Counted(x), TRUE)) :
            builders' = [builders EXCEPT ![b] = y]
  /\ UNCHANGED numInitialize

TakeFalse(b) ==
  /\ \E x \in Grown(LoopHead(builders[b])) :
       /\ AtCondition(b, x)
       /\ ~TooManyConditions(x.dwNumConditions + 1)
       /\ ShouldFork(x, "TAKE_FALSE")
       /\ \E y \in Skipped(NewEntry(Counted(x), FALSE)) :
            builders' = [builders EXCEPT ![b] = y]
  /\ UNCHANGED numInitialize

TakeBoth(b) ==
  /\ \E x \in Grown(LoopHead(builders[b])) :
       /\ AtCondition(b, x)
       /\ ~TooManyConditions(x.dwNumConditions + 1)
       /\ ShouldFork(x, "TAKE_BOTH")
       /\ \E y \in Processed(NewEntry(Counted(x), TRUE)) :
            builders' = Append([builders EXCEPT ![b] = y],
                               Forked(NewEntry(Counted(x), FALSE)))
  /\ UNCHANGED numInitialize

BuilderStep(b) ==
  \/ Execute(b) \/ GiveUp(b) \/ Instruction(b) \/ TooManyConditionsAt(b)
  \/ TakeTrue(b) \/ TakeFalse(b) \/ TakeBoth(b)

(***************************************************************************)
(* Initialize, called when a dialog is constructed.  Closing a dialog does  *)
(* not stop the analysis that it started.  (The call does not take the      *)
(* mutex: that it may meet ShouldFork in the map is not modelled.)          *)
(***************************************************************************)
Initialize ==
  /\ numInitialize < MaxInitialize
  /\ numInitialize' = numInitialize + 1
  /\ aNumForksLeft' = <<>>
  /\ UNCHANGED builders

Builders == 1..Len(builders)

Next == (\E b \in Builders : BuilderStep(b)) \/ Initialize

SafeSpec == Init /\ [][Next]_vars

\* Fairness: as long as there is work for the pool, one of its threads runs.
Spec == SafeSpec /\ WF_vars(\E b \in Builders : BuilderStep(b))

-----------------------------------------------------------------------------
(* Properties *)

BuilderRecords ==
  [lpFunctionAddress : Functions, lpAddress : Addresses,
   lpCurrentAddress : Addresses, oBacklog : [Addresses -> Seq(BOOLEAN)],
   dwNumConditions : 0..MaxConditions, size : Nat, dwLastNumNodes : Nat,
   dwNumIterationsWithoutProgress : 0..(MaxNoops - 1),
   status : {"queued", "building", "graph", "error"}]

\* The type of every variable.
TypeOK ==
  /\ builders \in Seq(BuilderRecords)
  /\ DOMAIN aNumForksLeft \subseteq Functions
  /\ \A f \in DOMAIN aNumForksLeft : aNumForksLeft[f] \in 0..InitialForks
  /\ numInitialize \in 0..MaxInitialize

BuildersOf(f) == {b \in Builders : builders[b].lpFunctionAddress = f}

(***************************************************************************)
(* A function is never explored on more paths than its forks allow, however *)
(* many of its builders reach a condition at once: the limit (100 forks)    *)
(* starts anew with each dialog that is opened.                             *)
(***************************************************************************)
ForkBudget ==
  \A f \in Functions :
    Cardinality(BuildersOf(f)) <= 1 + (numInitialize + 1) * (InitialForks + 1)

\* Two builders have gone different ways at their first condition at a.
Diverge(x, y, a) ==
  /\ x.oBacklog[a] # <<>>
  /\ y.oBacklog[a] # <<>>
  /\ Head(x.oBacklog[a]) # Head(y.oBacklog[a])

(***************************************************************************)
(* No path is explored twice: any two builders of a function decided one    *)
(* and the same condition differently, so that their predicates contradict  *)
(* each other.                                                              *)
(***************************************************************************)
DistinctPaths ==
  \A b, c \in Builders :
    b # c /\ builders[b].lpFunctionAddress = builders[c].lpFunctionAddress
      => \E a \in Addresses : Diverge(builders[b], builders[c], a)

(***************************************************************************)
(* A builder's loop over a condition ends: it goes the same way at most     *)
(* four times and then the opposite one for good (PathOracle.cpp:31-41).    *)
(* That it does so 10 times, as the comment at line 38 says, is not what    *)
(* the limit of line 31 makes of it.                                        *)
(***************************************************************************)
LoopsAreLeft ==
  \A b \in Builders, a \in Addresses :
    LET log == builders[b].oBacklog[a]
    IN \A i \in 1..Len(log) : (log[i] = Head(log)) <=> (i <= 4)

(***************************************************************************)
(* Every builder yields a result, whatever the code it explores does: so    *)
(* the analysis of a function ends.                                         *)
(***************************************************************************)
EveryBuilderYields ==
  []<>(\A b \in Builders : builders[b].status \in {"graph", "error"})

(***************************************************************************)
(* "default lpNextAddress to next instruction, may be overwritten further   *)
(* down" (Arm.cpp:317): an iteration continues where the last one led.      *)
(***************************************************************************)
FollowsNextAddress ==
  \A b \in Builders :
    builders[b].status = "building" /\ builders[b].dwLastNumNodes > 0
      => InstructionAddress(builders[b]) = builders[b].lpCurrentAddress
=============================================================================
