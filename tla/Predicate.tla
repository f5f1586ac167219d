------------------------------ MODULE Predicate ------------------------------
(***************************************************************************)
(* The state predicate of a CodeBroker (Predicate.cpp): the conditions that *)
(* hold on the path it explores.  IntroduceCondition (Broker.cpp) asks the  *)
(* predicate whether a condition of the program is decided; if it is not,   *)
(* the builder takes one of the two ways and the condition, or its          *)
(* negation, is merged into the list.                                       *)
(*                                                                          *)
(* A fork works on its own copy of the list (Migrate), so that the two      *)
(* sides of a fork are two behaviours of this module.  Which way is taken   *)
(* is left open here.  MergeCondition is a loop over a list it changes: it  *)
(* is modelled one iteration at a time, and nothing else happens meanwhile. *)
(***************************************************************************)
EXTENDS Condition, SequencesExt

CONSTANTS MaxConditions   \* dwMaxConditions

ASSUME MaxConditionsAssumption == MaxConditions \in Nat

VARIABLES
  aConditions,     \* the list of the predicate
  oCondition,      \* the condition that is being merged, or Nothing
  it,              \* the iterator of MergeCondition
  dwNumConditions, \* the number of conditions introduced on this path
  introduced       \* history: those conditions, as they were decided

vars == <<aConditions, oCondition, it, dwNumConditions, introduced>>

Nothing == [eSpecial |-> "NONE"]
Entries == NormalConditions \cup {FalseCondition}

-----------------------------------------------------------------------------
(* CompareNormalized: what the new condition c1 means under the entry c2 *)

Answer(eResult) == [eResult |-> eResult, oMerged |-> Nothing]
Never == Answer("NEVER_SATISFIED")
Always == Answer("ALWAYS_SATISFIED")
NotMergable == Answer("NOT_MERGABLE")
Mergable(c) == [eResult |-> "MERGABLE", oMerged |-> c]

\* The word w satisfies the condition c of its expression.
Satisfies(w, c) == Compare(w, c.eOperator, c.dwValue)

\* Mutant of Tighten: the bound moves the wrong way
Loosen(c) ==
  [c EXCEPT !.dwValue = IF c.eOperator \in LowerBounds THEN Dec(@) ELSE Inc(@)]

\* A bound that excludes its own value: N >= x becomes N >= x+1.
Tighten(c) ==
  [c EXCEPT !.dwValue = IF c.eOperator \in LowerBounds THEN Inc(@) ELSE Dec(@)]

\* c1 is an equality
CompareEqual(c1, c2) ==
  IF ~Satisfies(c1.dwValue, c2) THEN Never
  ELSE IF c2.eOperator = "EQ" THEN Always ELSE Mergable(c1)

\* c1 excludes one value
CompareNotEqual(c1, c2) ==
  IF ~Satisfies(c1.dwValue, c2) THEN Always
  ELSE IF c1.dwValue # c2.dwValue THEN NotMergable
  ELSE IF c2.eOperator = "EQ" THEN Never ELSE Mergable(Tighten(c2))

\* Mutant of CompareSameSide: every equal bound counts as mergable
CompareSameSideOrEqual(c1, c2) ==
  IF ~Satisfies(c2.dwValue, c1) \/ c1.dwValue = c2.dwValue
  THEN Mergable(c1) ELSE Always

\* Two bounds on the same side, in the same signedness.  For <= an entry with
\* the same value counts as mergable too.
CompareSameSide(c1, c2) ==
  IF \/ ~Satisfies(c2.dwValue, c1)
     \/ c1.eOperator = "LE" /\ c1.dwValue = c2.dwValue
  THEN Mergable(c1) ELSE Always

\* a lower and an upper bound in the same signedness
CompareOppositeSide(c1, c2) ==
  IF ~Satisfies(c2.dwValue, c1) THEN Never
  ELSE IF c1.dwValue # c2.dwValue THEN NotMergable
  ELSE Mergable([c1 EXCEPT !.eOperator = "EQ"])

\* c1 is a bound
CompareBound(c1, c2) ==
  CASE c2.eOperator = "EQ" ->
         IF Satisfies(c2.dwValue, c1) THEN Always ELSE Never
    [] c2.eOperator = "NEQ" ->
         IF c1.dwValue = c2.dwValue THEN Mergable(Tighten(c1))
         ELSE IF Satisfies(c2.dwValue, c1) THEN NotMergable ELSE Mergable(c1)
    [] c2.eOperator = c1.eOperator -> CompareSameSide(c1, c2)
    [] c2.eOperator = FlipOperator(c1.eOperator) -> CompareOppositeSide(c1, c2)
    [] OTHER -> NotMergable

CompareNormalized(c1, c2) ==
  CASE c1.eOperator = "EQ" -> CompareEqual(c1, c2)
    [] c1.eOperator = "NEQ" -> CompareNotEqual(c1, c2)
    [] OTHER -> CompareBound(c1, c2)

-----------------------------------------------------------------------------

\* the entry is about the expression of c; a false entry is about none
SameExpression(entry, c) ==
  entry.eSpecial = "NORMAL" /\ entry.oExpression1 = c.oExpression1

\* The entries that decide the normal condition c.
DecidedBy(c) ==
  {i \in 1..Len(aConditions) :
     /\ SameExpression(aConditions[i], c)
     /\ CompareNormalized(c, aConditions[i]) \in {Always, Never}}

\* The first entry that decides c does so with this answer.
FirstAnswer(c, answer) ==
  \E i \in DecidedBy(c) : /\ CompareNormalized(c, aConditions[i]) = answer
                          /\ \A j \in DecidedBy(c) : i <= j

\* Mutant of IsSatisfied: a mergable condition counts as satisfied
IsSatisfiedOrMergable(c) ==
  IF \/ c.eSpecial = "TRUE"
     \/ /\ c.eSpecial = "NORMAL"
        /\ \E i \in 1..Len(aConditions) :
             /\ SameExpression(aConditions[i], c)
             /\ CompareNormalized(c, aConditions[i]).eResult \in
                  {"ALWAYS_SATISFIED", "MERGABLE"}
  THEN "ALWAYS"
  ELSE IF c.eSpecial = "FALSE" \/ FirstAnswer(c, Never) THEN "NEVER"
  ELSE "SOMETIMES"

\* IsSatisfied, for a condition that Normalize has treated.
IsSatisfied(c) ==
  IF c.eSpecial = "TRUE" THEN "ALWAYS"
  ELSE IF c.eSpecial = "FALSE" THEN "NEVER"
  ELSE IF FirstAnswer(c, Always) THEN "ALWAYS"
  ELSE IF FirstAnswer(c, Never) THEN "NEVER"
  ELSE "SOMETIMES"

\* the condition that is merged on the side where c holds, or does not
Decision(c, taken) == IF taken THEN c ELSE NormalizeOperator(Negate(c))

Merging == oCondition # Nothing

Init ==
  /\ aConditions = <<>>
  /\ oCondition = Nothing
  /\ it = 1
  /\ dwNumConditions = 0
  /\ introduced = {}

(***************************************************************************)
(* IntroduceCondition for a condition that is not decided, on the side      *)
(* where it is taken or is not, up to the loop of MergeCondition.  (A       *)
(* decided condition changes nothing; one too many ends the builder.)       *)
(***************************************************************************)
IntroduceCondition(condition, taken) ==
  /\ ~Merging
  /\ IsSatisfied(NormalizeOperator(condition)) = "SOMETIMES"
  /\ dwNumConditions + 1 < MaxConditions
  /\ dwNumConditions' = dwNumConditions + 1
  /\ oCondition' = Decision(NormalizeOperator(condition), taken)
  /\ introduced' = introduced \cup {oCondition'}
  /\ it' = 1
  /\ UNCHANGED aConditions

\* the loop of MergeCondition is at an entry
AtEntry == Merging /\ it <= Len(aConditions)

\* ... which is about the expression of the condition and gives this answer
Compared(eResult) ==
  /\ AtEntry
  /\ SameExpression(aConditions[it], oCondition)
  /\ CompareNormalized(oCondition, aConditions[it]).eResult = eResult

\* MergeCondition returns
Merged == oCondition' = Nothing /\ it' = 1

\* the predicate is false already, or implies the condition
NothingToMerge ==
  /\ \/ AtEntry /\ aConditions[it].eSpecial = "FALSE"
     \/ Compared("ALWAYS_SATISFIED")
  /\ Merged
  /\ UNCHANGED aConditions

Contradict ==
  /\ Compared("NEVER_SATISFIED")
  /\ aConditions' = <<FalseCondition>>
  /\ Merged

\* Mutant of StartOver: the loop goes on behind the erased entry
GoOn == it' = it

\* a merged condition may merge with an earlier entry
StartOver == it' = 1

\* Mutant of EraseEntry: the entry stays
KeepEntry == UNCHANGED aConditions

EraseEntry == aConditions' = RemoveAt(aConditions, it)

\* the condition and the entry become one condition
Narrow ==
  /\ Compared("MERGABLE")
  /\ oCondition' = CompareNormalized(oCondition, aConditions[it]).oMerged
  /\ EraseEntry
  /\ StartOver

NextEntry ==
  /\ AtEntry
  /\ aConditions[it].eSpecial = "NORMAL"
  /\ \/ ~SameExpression(aConditions[it], oCondition)
     \/ Compared("NOT_MERGABLE")
  /\ it' = it + 1
  /\ UNCHANGED <<aConditions, oCondition>>

AppendCondition ==
  /\ Merging
  /\ it > Len(aConditions)
  /\ aConditions' = Append(aConditions, oCondition)
  /\ Merged

MergeStep ==
  /\ NothingToMerge \/ Contradict \/ Narrow \/ NextEntry \/ AppendCondition
  /\ UNCHANGED <<dwNumConditions, introduced>>

Next ==
  \/ \E c \in ConditionsWith(Operators), taken \in BOOLEAN :
       IntroduceCondition(c, taken)
  \/ MergeStep

SafeSpec == Init /\ [][Next]_vars

\* Fairness: MergeCondition is a call, and the thread that is in it runs.
Spec == SafeSpec /\ WF_vars(MergeStep)

-----------------------------------------------------------------------------
(* Properties *)

Valuations == [Exprs -> Word]

\* The path is feasible: some values satisfy all that was decided on it.
Feasible == {val \in Valuations : \A c \in introduced : Holds(c, val)}

\* The values that the predicate admits.
Admitted ==
  {val \in Valuations : \A i \in 1..Len(aConditions) : Holds(aConditions[i], val)}

\* The type of every variable; the iterator is in the list or at its end.
TypeOK ==
  /\ aConditions \in Seq(Entries)
  /\ oCondition \in NormalConditions \cup {Nothing}
  /\ it \in 1..(Len(aConditions) + 1)
  /\ dwNumConditions \in 0..MaxConditions
  /\ introduced \subseteq NormalConditions

(***************************************************************************)
(* On a feasible path the list, however the conditions were merged, admits  *)
(* exactly the values that satisfy every decision made.                     *)
(***************************************************************************)
ExactWhenFeasible == ~Merging /\ Feasible # {} => Admitted = Feasible

(***************************************************************************)
(* A condition that is reported as decided is decided: the builder skips a  *)
(* side of a branch only when no values lead there.                         *)
(***************************************************************************)
AnswersSound ==
  ~Merging =>
    \A c \in ConditionsWith(Operators) :
      LET answer == IsSatisfied(NormalizeOperator(c))
      IN /\ answer = "ALWAYS" => \A val \in Feasible : Holds(c, val)
         /\ answer = "NEVER" => \A val \in Feasible : ~Holds(c, val)

(***************************************************************************)
(* No two entries about an expression are left that could be merged, or     *)
(* that decide one another: starting over after a merge finds them all.     *)
(***************************************************************************)
Canonical ==
  ~Merging =>
    \A i, j \in 1..Len(aConditions) :
      i < j /\ aConditions[i].eSpecial = "NORMAL"
            /\ SameExpression(aConditions[j], aConditions[i])
        => CompareNormalized(aConditions[j], aConditions[i]) = NotMergable

(***************************************************************************)
(* Once decided, a condition stays decided: the same test met again on a    *)
(* feasible path does not fork it a second time (Predicate.hpp:18).  Signed *)
(* <= is excepted: for two equal ones line 301 of Predicate.cpp compares    *)
(* with <= where the other bounds have a strict comparison, and the answer  *)
(* is MERGABLE.                                                             *)
(***************************************************************************)
DecidedOnce ==
  ~Merging /\ Feasible # {} =>
    \A c \in introduced :
      c.eOperator # "LE" => IsSatisfied(c) = "ALWAYS"

\* MergeCondition returns, although a merge sends it back to the first entry.
MergeTerminates == Merging ~> ~Merging
=============================================================================
