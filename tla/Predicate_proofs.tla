-------------------------- MODULE Predicate_proofs --------------------------
(***************************************************************************)
(* What the runs of Predicate check for a few words and expressions, proved *)
(* for every width of the words and every set of expressions: the predicate *)
(* admits exactly the values that the decisions on its path allow, and what *)
(* it reports as decided is decided.                                        *)
(***************************************************************************)
EXTENDS Predicate, SequenceTheorems, WellFoundedInduction, TLAPS

(***************************************************************************)
(* Every comparison of words is one of six normal ones.                     *)
(***************************************************************************)
LEMMA SatisfiesNormal ==
  ASSUME NEW c \in NormalConditions, NEW w \in Word
  PROVE  /\ c.eOperator = "EQ" => (Satisfies(w, c) <=> w = c.dwValue)
         /\ c.eOperator = "NEQ" => (Satisfies(w, c) <=> w # c.dwValue)
         /\ c.eOperator = "UGE" => (Satisfies(w, c) <=> w >= c.dwValue)
         /\ c.eOperator = "ULE" => (Satisfies(w, c) <=> w <= c.dwValue)
         /\ c.eOperator = "GE" => (Satisfies(w, c) <=> Signed(w) >= Signed(c.dwValue))
         /\ c.eOperator = "LE" => (Satisfies(w, c) <=> Signed(w) <= Signed(c.dwValue))
BY DEF Satisfies, Compare

(***************************************************************************)
(* m is as strong as c and d together, unless no word satisfies both.       *)
(***************************************************************************)
Meets(m, c, d) ==
  /\ m \in NormalConditions
  /\ m.oExpression1 = c.oExpression1
  /\ \/ \A w \in Word : Satisfies(w, m) <=> Satisfies(w, c) /\ Satisfies(w, d)
     \/ \A w \in Word : ~(Satisfies(w, c) /\ Satisfies(w, d))

\* What an answer r of CompareNormalized(c, d) says is so.
SoundAnswer(r, c, d) ==
  \/ /\ r = Never
     /\ \A w \in Word : ~(Satisfies(w, c) /\ Satisfies(w, d))
  \/ /\ r = Always
     /\ \A w \in Word : Satisfies(w, d) => Satisfies(w, c)
  \/ r = NotMergable
  \/ r.eResult = "MERGABLE" /\ Meets(r.oMerged, c, d)

(***************************************************************************)
(* A bound and the exclusion of its own value: where the bound wraps        *)
(* around, no word satisfies both.                                          *)
(***************************************************************************)
LEMMA Tightened ==
  ASSUME NEW c \in NormalConditions, c.eOperator \in LowerBounds \cup UpperBounds,
         NEW d \in NormalConditions, d.eOperator = "NEQ",
         d.dwValue = c.dwValue, d.oExpression1 = c.oExpression1
  PROVE  Meets(Tighten(c), c, d)
  <1>1. /\ Tighten(c) \in NormalConditions
        /\ Tighten(c).oExpression1 = c.oExpression1
        /\ Tighten(c).eOperator = c.eOperator
        /\ Tighten(c).dwValue = IF c.eOperator \in LowerBounds
                                THEN Inc(c.dwValue) ELSE Dec(c.dwValue)
    BY HalfAssumption DEF NormalConditions, ConditionsWith, Tighten, Inc, Dec,
       Word, MaxWord, NormalOperators, LowerBounds, UpperBounds, Equalities
  <1> HIDE DEF Tighten
  <1>2. CASE c.eOperator = "UGE"
    BY <1>1, <1>2, SatisfiesNormal, HalfAssumption
    DEF LowerBounds, UpperBounds, Inc, Word, MaxWord, NormalConditions, ConditionsWith,
        Meets
  <1>3. CASE c.eOperator = "GE"
    BY <1>1, <1>3, SatisfiesNormal, HalfAssumption
    DEF LowerBounds, UpperBounds, Inc, Word, MaxWord, Signed, NormalConditions, ConditionsWith,
        Meets
  <1>4. CASE c.eOperator = "ULE"
    BY <1>1, <1>4, SatisfiesNormal, HalfAssumption
    DEF LowerBounds, UpperBounds, Dec, Word, MaxWord, NormalConditions, ConditionsWith,
        Meets
  <1>5. CASE c.eOperator = "LE"
    BY <1>1, <1>5, SatisfiesNormal, HalfAssumption
    DEF LowerBounds, UpperBounds, Dec, Word, MaxWord, Signed, NormalConditions, ConditionsWith,
        Meets
  <1> QED BY <1>2, <1>3, <1>4, <1>5 DEF LowerBounds, UpperBounds, Meets

(***************************************************************************)
(* The answers for an equality, an exclusion and a bound are sound.         *)
(***************************************************************************)
LEMMA SoundEqual ==
  ASSUME NEW c \in NormalConditions, NEW d \in NormalConditions,
         c.eOperator = "EQ"
  PROVE  SoundAnswer(CompareEqual(c, d), c, d)
  <1>1. c.dwValue \in Word /\ d.dwValue \in Word
    BY DEF NormalConditions, ConditionsWith
  <1>2. \A w \in Word : Satisfies(w, c) <=> w = c.dwValue
    BY SatisfiesNormal
  <1>3. CASE ~Satisfies(c.dwValue, d)
    BY <1>1, <1>2, <1>3 DEF CompareEqual, SoundAnswer
  <1>4. CASE Satisfies(c.dwValue, d) /\ d.eOperator = "EQ"
    <2>1. \A w \in Word : Satisfies(w, d) <=> w = d.dwValue
      BY <1>4, SatisfiesNormal
    <2> QED BY <1>1, <1>2, <1>4, <2>1 DEF CompareEqual, SoundAnswer
  <1>5. CASE Satisfies(c.dwValue, d) /\ d.eOperator # "EQ"
    BY <1>1, <1>2, <1>5 DEF CompareEqual, SoundAnswer, Mergable, Meets
  <1> QED BY <1>3, <1>4, <1>5

\* What CompareNormalized answers for a condition != is right.
LEMMA SoundNotEqual ==
  ASSUME NEW c \in NormalConditions, NEW d \in NormalConditions,
         c.oExpression1 = d.oExpression1, c.eOperator = "NEQ"
  PROVE  SoundAnswer(CompareNotEqual(c, d), c, d)
  <1>1. /\ c.dwValue \in Word /\ d.dwValue \in Word
        /\ d.eOperator \in NormalOperators
    BY DEF NormalConditions, ConditionsWith
  <1>2. \A w \in Word : Satisfies(w, c) <=> w # c.dwValue
    BY SatisfiesNormal
  <1>3. CASE ~Satisfies(c.dwValue, d)
    BY <1>1, <1>2, <1>3 DEF CompareNotEqual, SoundAnswer
  <1>4. CASE Satisfies(c.dwValue, d) /\ c.dwValue = d.dwValue /\ d.eOperator = "EQ"
    <2>1. \A w \in Word : Satisfies(w, d) <=> w = d.dwValue
      BY <1>4, SatisfiesNormal
    <2> QED BY <1>1, <1>2, <1>4, <2>1 DEF CompareNotEqual, SoundAnswer
  <1>5. CASE Satisfies(c.dwValue, d) /\ c.dwValue = d.dwValue /\ d.eOperator # "EQ"
    <2>1. d.eOperator # "NEQ"
      BY <1>1, <1>5, SatisfiesNormal
    <2>2. d.eOperator \in LowerBounds \cup UpperBounds
      BY <1>1, <1>5, <2>1 DEF NormalOperators, Equalities
    <2>3. Meets(Tighten(d), d, c)
      BY <1>5, <2>2, Tightened
    <2>4. Meets(Tighten(d), c, d)
      BY <2>3 DEF Meets
    <2> QED BY <1>5, <2>4 DEF CompareNotEqual, SoundAnswer, Mergable
  <1>6. CASE Satisfies(c.dwValue, d) /\ c.dwValue # d.dwValue
    BY <1>6 DEF CompareNotEqual, SoundAnswer
  <1> QED BY <1>3, <1>4, <1>5, <1>6

\* What CompareNormalized answers for a bound, <= or >=, is right.
LEMMA SoundBound ==
  ASSUME NEW c \in NormalConditions, NEW d \in NormalConditions,
         c.oExpression1 = d.oExpression1,
         c.eOperator \in LowerBounds \cup UpperBounds
  PROVE  SoundAnswer(CompareBound(c, d), c, d)
  <1>1. /\ c.dwValue \in Word /\ d.dwValue \in Word
        /\ c.eOperator \in {"UGE", "GE", "ULE", "LE"}
        /\ d.eOperator \in {"EQ", "NEQ", "UGE", "GE", "ULE", "LE"}
    BY DEF NormalConditions, ConditionsWith, NormalOperators, Equalities,
       LowerBounds, UpperBounds
  <1>2. CASE d.eOperator = "EQ"
    <2>1. \A w \in Word : Satisfies(w, d) <=> w = d.dwValue
      BY <1>2, SatisfiesNormal
    <2> QED BY <1>1, <1>2, <2>1 DEF CompareBound, FlipOperator, SoundAnswer
  <1>3. CASE d.eOperator = "NEQ"
    <2>1. \A w \in Word : Satisfies(w, d) <=> w # d.dwValue
      BY <1>3, SatisfiesNormal
    <2>2. CASE c.dwValue = d.dwValue
      <3>1. Meets(Tighten(c), c, d)
        BY <1>3, <2>2, Tightened
      <3> QED BY <1>1, <1>3, <2>2, <3>1 DEF CompareBound, FlipOperator, SoundAnswer, Mergable
    <2>3. CASE c.dwValue # d.dwValue /\ Satisfies(d.dwValue, c)
      BY <1>1, <1>3, <2>3 DEF CompareBound, FlipOperator, SoundAnswer
    <2>4. CASE c.dwValue # d.dwValue /\ ~Satisfies(d.dwValue, c)
      BY <1>1, <1>3, <2>1, <2>4 DEF CompareBound, FlipOperator, SoundAnswer, Mergable, Meets
    <2> QED BY <2>2, <2>3, <2>4
  <1>4. CASE d.eOperator = c.eOperator
    <2>1. CompareBound(c, d) = CompareSameSide(c, d)
      BY <1>1, <1>4 DEF CompareBound, FlipOperator
    <2>2. CASE Satisfies(d.dwValue, c) /\ ~(c.eOperator = "LE" /\ c.dwValue = d.dwValue)
      <3>1. \A w \in Word : Satisfies(w, d) => Satisfies(w, c)
        BY <1>1, <1>4, <2>2, SatisfiesNormal, HalfAssumption
        DEF Word, MaxWord, Signed
      <3> QED BY <2>1, <2>2, <3>1 DEF CompareSameSide, SoundAnswer
    <2>3. CASE ~Satisfies(d.dwValue, c) \/ (c.eOperator = "LE" /\ c.dwValue = d.dwValue)
      <3>1. \A w \in Word : Satisfies(w, c) => Satisfies(w, d)
        BY <1>1, <1>4, <2>3, SatisfiesNormal, HalfAssumption
        DEF Word, MaxWord, Signed
      <3> QED BY <2>1, <2>3, <3>1 DEF CompareSameSide, SoundAnswer, Mergable, Meets
    <2> QED BY <2>2, <2>3
  <1>5. CASE d.eOperator = FlipOperator(c.eOperator)
    <2>1. CompareBound(c, d) = CompareOppositeSide(c, d)
      BY <1>1, <1>5 DEF CompareBound, FlipOperator
    <2>2. CASE ~Satisfies(d.dwValue, c)
      <3>1. \A w \in Word : ~(Satisfies(w, c) /\ Satisfies(w, d))
        BY <1>1, <1>5, <2>2, SatisfiesNormal, HalfAssumption
        DEF FlipOperator, Word, MaxWord, Signed
      <3> QED BY <2>1, <2>2, <3>1 DEF CompareOppositeSide, SoundAnswer
    <2>3. CASE Satisfies(d.dwValue, c) /\ c.dwValue = d.dwValue
      <3> DEFINE m == [c EXCEPT !.eOperator = "EQ"]
      <3>1. /\ m \in NormalConditions
            /\ m.oExpression1 = c.oExpression1
            /\ m.eOperator = "EQ" /\ m.dwValue = c.dwValue
        BY DEF NormalConditions, ConditionsWith, NormalOperators, Equalities
      <3> HIDE DEF m
      <3>2. \A w \in Word : Satisfies(w, m) <=> w = c.dwValue
        BY <3>1, SatisfiesNormal
      <3>3. \A w \in Word : w = c.dwValue <=> Satisfies(w, c) /\ Satisfies(w, d)
        BY <1>1, <1>5, <2>3, SatisfiesNormal, HalfAssumption
        DEF FlipOperator, Word, MaxWord, Signed
      <3>4. Meets(m, c, d)
        BY <3>1, <3>2, <3>3 DEF Meets
      <3> QED BY <2>1, <2>3, <3>4 DEF CompareOppositeSide, SoundAnswer, Mergable, m
    <2>4. CASE Satisfies(d.dwValue, c) /\ c.dwValue # d.dwValue
      BY <2>1, <2>4 DEF CompareOppositeSide, SoundAnswer
    <2> QED BY <2>2, <2>3, <2>4
  <1>6. CASE /\ d.eOperator \notin {"EQ", "NEQ", c.eOperator}
             /\ d.eOperator # FlipOperator(c.eOperator)
    BY <1>6 DEF CompareBound, FlipOperator, SoundAnswer
  <1> QED BY <1>2, <1>3, <1>4, <1>5, <1>6

(***************************************************************************)
(* Whatever CompareNormalized answers about two conditions is so.           *)
(***************************************************************************)
THEOREM CompareNormalizedSound ==
  ASSUME NEW c \in NormalConditions, NEW d \in NormalConditions,
         c.oExpression1 = d.oExpression1
  PROVE  SoundAnswer(CompareNormalized(c, d), c, d)
  <1>1. c.eOperator \in NormalOperators
    BY DEF NormalConditions, ConditionsWith
  <1> QED BY <1>1, SoundEqual, SoundNotEqual, SoundBound
          DEF CompareNormalized, NormalOperators, Equalities

(***************************************************************************)
(* What Normalize does to the operator of a condition keeps its meaning.    *)
(***************************************************************************)
LEMMA NormalizeSound ==
  ASSUME NEW c \in ConditionsWith(Operators), NEW val \in Valuations
  PROVE  Holds(NormalizeOperator(c), val) <=> Holds(c, val)
  <1> DEFINE w == val[c.oExpression1]
             v == c.dwValue
  <1>1. /\ c.eSpecial = "NORMAL" /\ c.oExpression1 \in Exprs
        /\ c.eOperator \in Operators /\ v \in Word /\ w \in Word
        /\ c = Normal(c.oExpression1, c.eOperator, v)
    BY DEF ConditionsWith, Valuations, Normal
  <1>2. Holds(c, val) <=> Compare(w, c.eOperator, v)
    BY <1>1 DEF Holds
  <1>3. \A op, u : Holds(WithBound(c, op, u), val) <=> Compare(w, op, u)
    BY <1>1 DEF Holds, ConditionsWith, WithBound
  <1>4. Holds(TrueCondition, val) /\ ~Holds(FalseCondition, val)
    BY DEF Holds, TrueCondition, FalseCondition
  <1> HIDE DEF w, v
  <1>5. CASE c.eOperator \in Equalities
    BY <1>5 DEF NormalizeOperator, Equalities
  <1>6. CASE c.eOperator = "UGT"
    <2>1. NormalizeOperator(c) = IF v = MaxWord THEN FalseCondition
                                 ELSE WithBound(c, "UGE", Inc(v))
      BY <1>6 DEF NormalizeOperator, Equalities, v
    <2>2. Compare(w, "UGT", v) <=> v # MaxWord /\ Compare(w, "UGE", Inc(v))
      BY <1>1, HalfAssumption DEF Compare, Word, MaxWord, Inc
    <2> QED BY <1>2, <1>3, <1>4, <1>6, <2>1, <2>2
  <1>7. CASE c.eOperator = "ULT"
    <2>1. NormalizeOperator(c) = IF v = 0 THEN FalseCondition
                                 ELSE WithBound(c, "ULE", Dec(v))
      BY <1>7 DEF NormalizeOperator, Equalities, v
    <2>2. Compare(w, "ULT", v) <=> v # 0 /\ Compare(w, "ULE", Dec(v))
      BY <1>1, HalfAssumption DEF Compare, Word, MaxWord, Dec
    <2> QED BY <1>2, <1>3, <1>4, <1>7, <2>1, <2>2
  <1>8. CASE c.eOperator = "GT"
    <2>1. NormalizeOperator(c) = IF v = Half - 1 THEN FalseCondition
                                 ELSE WithBound(c, "GE", Inc(v))
      BY <1>8 DEF NormalizeOperator, Equalities, v
    <2>2. Compare(w, "GT", v) <=> v # Half - 1 /\ Compare(w, "GE", Inc(v))
      BY <1>1, HalfAssumption DEF Compare, Word, MaxWord, Inc, Signed
    <2> QED BY <1>2, <1>3, <1>4, <1>8, <2>1, <2>2
  <1>9. CASE c.eOperator = "LT"
    <2>1. NormalizeOperator(c) = IF v = Half THEN FalseCondition
                                 ELSE WithBound(c, "LE", Dec(v))
      BY <1>9 DEF NormalizeOperator, Equalities, v
    <2>2. Compare(w, "LT", v) <=> v # Half /\ Compare(w, "LE", Dec(v))
      BY <1>1, HalfAssumption DEF Compare, Word, MaxWord, Dec, Signed
    <2> QED BY <1>2, <1>3, <1>4, <1>9, <2>1, <2>2
  <1>10. CASE c.eOperator = "UGE"
    BY <1>1, <1>2, <1>4, <1>10, HalfAssumption
    DEF NormalizeOperator, Equalities, Compare, Word, MaxWord, v
  <1>11. CASE c.eOperator = "ULE"
    BY <1>1, <1>2, <1>4, <1>11, HalfAssumption
    DEF NormalizeOperator, Equalities, Compare, Word, MaxWord, v
  <1>12. CASE c.eOperator = "GE"
    BY <1>1, <1>2, <1>4, <1>12, HalfAssumption
    DEF NormalizeOperator, Equalities, Compare, Word, MaxWord, Signed, v
  <1>13. CASE c.eOperator = "LE"
    BY <1>1, <1>2, <1>4, <1>13, HalfAssumption
    DEF NormalizeOperator, Equalities, Compare, Word, MaxWord, Signed, v
  <1> QED BY <1>1, <1>5, <1>6, <1>7, <1>8, <1>9, <1>10, <1>11, <1>12, <1>13
          DEF Operators, NormalOperators, Equalities, LowerBounds, UpperBounds,
              StrictBounds

(***************************************************************************)
(* Normalize leaves a normal condition of the same expression, true or      *)
(* false; where no bound is at the end of its range, it is normal.          *)
(***************************************************************************)
LEMMA NormalizeType ==
  ASSUME NEW c \in ConditionsWith(Operators)
  PROVE  \/ NormalizeOperator(c) \in {TrueCondition, FalseCondition}
         \/ NormalizeOperator(c) \in NormalConditions
  <1> DEFINE v == c.dwValue
  <1>1. /\ c.eSpecial = "NORMAL" /\ c.oExpression1 \in Exprs /\ v \in Word
        /\ c.eOperator \in Operators
    BY DEF ConditionsWith
  <1>2. \A op \in NormalOperators, u \in Word :
          WithBound(c, op, u) \in NormalConditions
    BY DEF WithBound, NormalConditions, ConditionsWith
  <1>3. c.eOperator \in NormalOperators => c \in NormalConditions
    BY DEF NormalConditions, ConditionsWith
  <1>4. Inc(v) \in Word /\ Dec(v) \in Word
    BY <1>1, HalfAssumption DEF Inc, Dec, Word, MaxWord
  <1>5. CASE c.eOperator \in NormalOperators
    BY <1>3, <1>5 DEF NormalizeOperator, NormalOperators, Equalities,
       LowerBounds, UpperBounds
  <1>6. CASE c.eOperator \in StrictBounds
    BY <1>2, <1>4, <1>6 DEF NormalizeOperator, NormalOperators, Equalities,
       LowerBounds, UpperBounds, StrictBounds
  <1> QED BY <1>1, <1>5, <1>6 DEF Operators

\* A normal condition for which Normalize has nothing left to do.
NotTrivial(d) ==
  /\ d.eOperator = "UGE" => d.dwValue # 0
  /\ d.eOperator = "ULE" => d.dwValue # MaxWord
  /\ d.eOperator = "GE" => d.dwValue # Half
  /\ d.eOperator = "LE" => d.dwValue # Half - 1

\* Normalize leaves no trivial condition.
LEMMA NormalizeNotTrivial ==
  ASSUME NEW c \in ConditionsWith(Operators),
         NormalizeOperator(c) \in NormalConditions
  PROVE  NotTrivial(NormalizeOperator(c))
  <1> DEFINE d == NormalizeOperator(c)
             v == c.dwValue
  <1>1. /\ c.eSpecial = "NORMAL" /\ v \in Word /\ c.eOperator \in Operators
        /\ d \notin {TrueCondition, FalseCondition}
    BY DEF ConditionsWith, NormalConditions, TrueCondition, FalseCondition
  <1>2. \A op, u : WithBound(c, op, u).eOperator = op /\ WithBound(c, op, u).dwValue = u
    BY DEF WithBound, ConditionsWith
  <1>3. /\ v # MaxWord => Inc(v) # 0
        /\ v # 0 => Dec(v) # MaxWord
        /\ v # Half - 1 => Inc(v) # Half
        /\ v # Half => Dec(v) # Half - 1
    BY <1>1, HalfAssumption DEF Inc, Dec, Word, MaxWord
  <1> HIDE DEF v
  <1>4. CASE c.eOperator \in NormalOperators
    BY <1>1, <1>4 DEF NormalizeOperator, NormalOperators, Equalities,
       LowerBounds, UpperBounds, NotTrivial, v
  <1>5. CASE c.eOperator \in StrictBounds
    <2>1. CASE c.eOperator = "UGT"
      BY <1>1, <1>2, <1>3, <2>1 DEF NormalizeOperator, Equalities, NotTrivial, v
    <2>2. CASE c.eOperator = "ULT"
      BY <1>1, <1>2, <1>3, <2>2 DEF NormalizeOperator, Equalities, NotTrivial, v
    <2>3. CASE c.eOperator = "GT"
      BY <1>1, <1>2, <1>3, <2>3 DEF NormalizeOperator, Equalities, NotTrivial, v
    <2>4. CASE c.eOperator = "LT"
      BY <1>1, <1>2, <1>3, <2>4 DEF NormalizeOperator, Equalities, NotTrivial, v
    <2> QED BY <1>5, <2>1, <2>2, <2>3, <2>4 DEF StrictBounds
  <1> QED BY <1>1, <1>4, <1>5 DEF Operators

(***************************************************************************)
(* Neither the negation of such a condition: MergeCondition, called from    *)
(* IntroduceCondition, is never given a true or false condition.            *)
(***************************************************************************)
LEMMA NegateType ==
  ASSUME NEW d \in NormalConditions, NotTrivial(d)
  PROVE  /\ Negate(d) \in ConditionsWith(Operators)
         /\ NormalizeOperator(Negate(d)) \in NormalConditions
  <1>1. /\ d.eSpecial = "NORMAL" /\ d.oExpression1 \in Exprs /\ d.dwValue \in Word
        /\ d.eOperator \in {"EQ", "NEQ", "UGE", "ULE", "GE", "LE"}
    BY DEF NormalConditions, ConditionsWith, NormalOperators, Equalities,
       LowerBounds, UpperBounds
  <1>2. NegateOperator(d.eOperator) =
          CASE d.eOperator = "EQ" -> "NEQ"
            [] d.eOperator = "NEQ" -> "EQ"
            [] d.eOperator = "UGE" -> "ULT"
            [] d.eOperator = "ULE" -> "UGT"
            [] d.eOperator = "GE" -> "LT"
            [] d.eOperator = "LE" -> "GT"
    BY <1>1 DEF NegateOperator
  <1>3. /\ Negate(d) \in ConditionsWith(Operators)
        /\ Negate(d).eOperator = NegateOperator(d.eOperator)
        /\ Negate(d).dwValue = d.dwValue
    BY <1>1, <1>2 DEF Negate, NormalConditions, ConditionsWith, Operators,
       NormalOperators, Equalities, LowerBounds, UpperBounds, StrictBounds
  <1>4. NormalizeOperator(Negate(d)) \notin {TrueCondition, FalseCondition}
    <2> DEFINE c == Negate(d)
    <2>1. c \notin {TrueCondition, FalseCondition}
      BY <1>3 DEF ConditionsWith, TrueCondition, FalseCondition
    <2>2. \A op, u : WithBound(c, op, u) \notin {TrueCondition, FalseCondition}
      BY <1>3 DEF WithBound, ConditionsWith, TrueCondition, FalseCondition
    <2> HIDE DEF c
    <2> QED BY <1>1, <1>2, <1>3, <2>1, <2>2
            DEF NormalizeOperator, NotTrivial, Equalities, c
  <1> QED BY <1>3, <1>4, NormalizeType

\* The negation of a condition means the opposite.
LEMMA NegateSound ==
  ASSUME NEW c \in ConditionsWith(Operators), NEW val \in Valuations
  PROVE  Holds(Negate(c), val) <=> ~Holds(c, val)
  <1> DEFINE w == val[c.oExpression1]
             v == c.dwValue
  <1>1. /\ c.eSpecial = "NORMAL" /\ c.oExpression1 \in Exprs
        /\ c.eOperator \in Operators /\ v \in Word /\ w \in Word
    BY DEF ConditionsWith, Valuations
  <1>2. Holds(c, val) <=> Compare(w, c.eOperator, v)
    BY <1>1 DEF Holds
  <1>3. Holds(Negate(c), val) <=> Compare(w, NegateOperator(c.eOperator), v)
    BY <1>1 DEF Holds, Negate, ConditionsWith
  <1>4. Signed(w) \in Int /\ Signed(v) \in Int /\ w \in Int /\ v \in Int
    BY <1>1, HalfAssumption DEF Signed, Word, MaxWord
  <1> HIDE DEF w, v
  <1>5. c.eOperator \in {"EQ", "NEQ", "UGE", "ULT", "UGT", "ULE", "GE", "LT",
                        "GT", "LE"}
    BY <1>1 DEF Operators, NormalOperators, Equalities, LowerBounds,
       UpperBounds, StrictBounds
  <1>6. Compare(w, NegateOperator(c.eOperator), v) <=> ~Compare(w, c.eOperator, v)
    <2>1. /\ Compare(w, "EQ", v) <=> ~Compare(w, "NEQ", v)
          /\ Compare(w, "UGE", v) <=> ~Compare(w, "ULT", v)
          /\ Compare(w, "UGT", v) <=> ~Compare(w, "ULE", v)
          /\ Compare(w, "GE", v) <=> ~Compare(w, "LT", v)
          /\ Compare(w, "GT", v) <=> ~Compare(w, "LE", v)
      BY <1>4 DEF Compare
    <2>2. /\ NegateOperator("EQ") = "NEQ" /\ NegateOperator("NEQ") = "EQ"
          /\ NegateOperator("UGE") = "ULT" /\ NegateOperator("ULT") = "UGE"
          /\ NegateOperator("UGT") = "ULE" /\ NegateOperator("ULE") = "UGT"
          /\ NegateOperator("GE") = "LT" /\ NegateOperator("LT") = "GE"
          /\ NegateOperator("GT") = "LE" /\ NegateOperator("LE") = "GT"
      BY DEF NegateOperator
    <2> QED BY <1>5, <2>1, <2>2
  <1> QED BY <1>2, <1>3, <1>6

-----------------------------------------------------------------------------
(* The inductive invariant *)

\* The values that the list and the condition being merged admit together.
AdmittedByAll(val) ==
  /\ \A i \in 1..Len(aConditions) : Holds(aConditions[i], val)
  /\ Merging => Holds(oCondition, val)

(***************************************************************************)
(* On a feasible path nothing is lost or added while a condition is merged. *)
(* (On an infeasible one a bound may have wrapped around.)                  *)
(***************************************************************************)
ExactWhileMerging ==
  Feasible # {} =>
    \A val \in Valuations : val \in Feasible <=> AdmittedByAll(val)

IInv == TypeOK /\ ExactWhileMerging

\* Two conditions of one expression hold together as their comparisons do.
LEMMA HoldsNormal ==
  ASSUME NEW c \in NormalConditions, NEW val \in Valuations
  PROVE  /\ val[c.oExpression1] \in Word
         /\ Holds(c, val) <=> Satisfies(val[c.oExpression1], c)
BY DEF Holds, Satisfies, NormalConditions, ConditionsWith, Valuations

\* Which elements are left when an entry is erased.
LEMMA Erased ==
  ASSUME NEW S, NEW s \in Seq(S), NEW i \in 1..Len(s)
  PROVE  /\ RemoveAt(s, i) \in Seq(S)
         /\ Len(RemoveAt(s, i)) = Len(s) - 1
         /\ \A j \in 1..Len(RemoveAt(s, i)) :
              RemoveAt(s, i)[j] = IF j < i THEN s[j] ELSE s[j + 1]
  <1> DEFINE u == SubSeq(s, 1, i - 1)
             v == SubSeq(s, i + 1, Len(s))
             t == RemoveAt(s, i)
  <1>1. u \in Seq(S) /\ Len(u) = i - 1 /\ \A j \in 1..(i - 1) : u[j] = s[j]
    OBVIOUS
  <1>2. /\ v \in Seq(S) /\ Len(v) = Len(s) - i
        /\ \A j \in 1..(Len(s) - i) : v[j] = s[i + j]
    OBVIOUS
  <1>3. t = u \o v
    BY DEF RemoveAt
  <1> HIDE DEF u, v, t
  <1>n. Len(s) \in Nat /\ i \in Int /\ 1 <= i /\ i <= Len(s)
    OBVIOUS
  <1>c. /\ t \in Seq(S)
        /\ Len(t) = Len(u) + Len(v)
        /\ \A j \in 1..(Len(u) + Len(v)) :
             t[j] = IF j <= Len(u) THEN u[j] ELSE v[j - Len(u)]
    BY <1>1, <1>2, <1>3, ConcatProperties
  <1>4. /\ t \in Seq(S)
        /\ Len(t) = Len(s) - 1
        /\ \A j \in 1..(Len(s) - 1) :
             t[j] = IF j <= i - 1 THEN u[j] ELSE v[j - (i - 1)]
    <2>1. Len(u) + Len(v) = Len(s) - 1
      BY <1>1, <1>2, <1>n
    <2> QED BY <1>1, <1>c, <2>1
  <1>5. ASSUME NEW j \in 1..(Len(s) - 1)
        PROVE  t[j] = IF j < i THEN s[j] ELSE s[j + 1]
    <2>1. CASE j < i
      BY <1>1, <1>4, <1>n, <2>1
    <2>2. CASE j >= i
      <3>1. t[j] = v[j - (i - 1)] /\ j - (i - 1) \in 1..(Len(s) - i)
        BY <1>4, <1>n, <2>2
      <3>2. i + (j - (i - 1)) = j + 1
        BY <1>n
      <3> QED BY <1>2, <1>n, <2>2, <3>1, <3>2
    <2> QED BY <1>n, <2>1, <2>2
  <1> QED BY <1>4, <1>5 DEF t

\* What an undecided condition adds to the introduced ones.
LEMMA IntroducedFacts ==
  ASSUME NEW c \in ConditionsWith(Operators), NEW taken \in BOOLEAN,
         IntroduceCondition(c, taken), TypeOK
  PROVE  /\ oCondition' \in NormalConditions
         /\ \A val \in Valuations :
              Holds(oCondition', val) <=> (Holds(c, val) <=> taken)
  <1> DEFINE n == NormalizeOperator(c)
  <1>1. n \in NormalConditions
    BY NormalizeType DEF IntroduceCondition, IsSatisfied, TrueCondition,
       FalseCondition
  <1>2. NotTrivial(n)
    BY <1>1, NormalizeNotTrivial
  <1>3. n \in ConditionsWith(Operators)
    BY <1>1 DEF NormalConditions, ConditionsWith, Operators
  <1>4. oCondition' = IF taken THEN n ELSE NormalizeOperator(Negate(n))
    BY DEF IntroduceCondition, Decision
  <1> HIDE DEF n
  <1>5. Negate(n) \in ConditionsWith(Operators) /\ NormalizeOperator(Negate(n)) \in NormalConditions
    BY <1>1, <1>2, NegateType
  <1>6. ASSUME NEW val \in Valuations
        PROVE  /\ Holds(n, val) <=> Holds(c, val)
               /\ Holds(NormalizeOperator(Negate(n)), val) <=> ~Holds(n, val)
    <2>1. Holds(n, val) <=> Holds(c, val)
      BY NormalizeSound DEF n
    <2>2. Holds(NormalizeOperator(Negate(n)), val) <=> Holds(Negate(n), val)
      BY <1>5, NormalizeSound
    <2>3. Holds(Negate(n), val) <=> ~Holds(n, val)
      BY <1>3, NegateSound
    <2> QED BY <2>1, <2>2, <2>3
  <1> QED BY <1>1, <1>4, <1>5, <1>6

\* What is known of the entry that a condition is compared with.
LEMMA ComparedFacts ==
  ASSUME TypeOK, AtEntry, SameExpression(aConditions[it], oCondition)
  PROVE  /\ it \in 1..Len(aConditions)
         /\ oCondition \in NormalConditions
         /\ aConditions[it] \in NormalConditions
         /\ aConditions[it].oExpression1 = oCondition.oExpression1
         /\ SoundAnswer(CompareNormalized(oCondition, aConditions[it]),
                        oCondition, aConditions[it])
  <1>1. it \in 1..Len(aConditions)
    BY DEF TypeOK, AtEntry
  <1>2. oCondition \in NormalConditions
    BY DEF TypeOK, AtEntry, Merging
  <1>3. aConditions[it] \in Entries
    BY <1>1 DEF TypeOK
  <1>4. /\ aConditions[it] \in NormalConditions
        /\ aConditions[it].oExpression1 = oCondition.oExpression1
    BY <1>3 DEF SameExpression, Entries, FalseCondition
  <1> QED BY <1>1, <1>2, <1>4, CompareNormalizedSound

\* The merged condition that Narrow takes over.
LEMMA NarrowFacts ==
  ASSUME TypeOK, Narrow
  PROVE  /\ AtEntry
         /\ SameExpression(aConditions[it], oCondition)
         /\ Meets(oCondition', oCondition, aConditions[it])
  <1>1. AtEntry /\ SameExpression(aConditions[it], oCondition)
    BY DEF Narrow, Compared
  <1> DEFINE r == CompareNormalized(oCondition, aConditions[it])
  <1>2. SoundAnswer(r, oCondition, aConditions[it])
    BY <1>1, ComparedFacts
  <1>3. r.eResult = "MERGABLE" /\ oCondition' = r.oMerged
    BY DEF Narrow, Compared
  <1> HIDE DEF r
  <1> QED BY <1>1, <1>2, <1>3 DEF SoundAnswer, Never, Always, NotMergable, Answer

\* The type invariant is inductive.
LEMMA TypeStep == TypeOK /\ [Next]_vars => TypeOK'
  <1> SUFFICES ASSUME TypeOK, [Next]_vars PROVE TypeOK'
    OBVIOUS
  <1> USE DEF TypeOK
  <1>1. ASSUME NEW c \in ConditionsWith(Operators), NEW taken \in BOOLEAN,
               IntroduceCondition(c, taken)
        PROVE  TypeOK'
    BY <1>1, IntroducedFacts, MaxConditionsAssumption DEF IntroduceCondition
  <1>2. ASSUME MergeStep PROVE TypeOK'
    <2>1. CASE NothingToMerge
      BY <1>2, <2>1 DEF MergeStep, NothingToMerge, Merged
    <2>2. CASE Contradict
      BY <1>2, <2>2 DEF MergeStep, Contradict, Merged, Entries
    <2>3. CASE Narrow
      <3>1. it \in 1..Len(aConditions) /\ oCondition' \in NormalConditions
        BY <2>3, NarrowFacts, ComparedFacts DEF Meets
      <3>2. aConditions' \in Seq(Entries)
        BY <2>3, <3>1, Erased DEF Narrow, EraseEntry
      <3> QED BY <1>2, <2>3, <3>1, <3>2 DEF MergeStep, Narrow, StartOver
    <2>4. CASE NextEntry
      BY <1>2, <2>4 DEF MergeStep, NextEntry, AtEntry
    <2>5. CASE AppendCondition
      BY <1>2, <2>5 DEF MergeStep, AppendCondition, Merged, Merging, Entries
    <2> QED BY <1>2, <2>1, <2>2, <2>3, <2>4, <2>5 DEF MergeStep
  <1>3. CASE UNCHANGED vars
    BY <1>3 DEF vars
  <1> QED BY <1>1, <1>2, <1>3 DEF Next

(***************************************************************************)
(* Every step keeps the list exact.                                         *)
(***************************************************************************)
LEMMA ExactStep == IInv /\ [Next]_vars => ExactWhileMerging'
  <1> SUFFICES ASSUME IInv, [Next]_vars, Feasible' # {},
                      NEW val \in Valuations
               PROVE  val \in Feasible' <=> AdmittedByAll(val)'
    BY DEF ExactWhileMerging, Valuations
  <1>1. ASSUME NEW c \in ConditionsWith(Operators), NEW taken \in BOOLEAN,
               IntroduceCondition(c, taken)
        PROVE  val \in Feasible' <=> AdmittedByAll(val)'
    <2>1. /\ oCondition' \in NormalConditions /\ ~Merging
          /\ introduced' = introduced \cup {oCondition'}
          /\ aConditions' = aConditions
      BY <1>1, IntroducedFacts DEF IntroduceCondition, IInv
    <2>2. Merging'
      BY <2>1 DEF Merging, Nothing, NormalConditions, ConditionsWith
    <2>3. \A v \in Valuations :
            v \in Feasible' <=> v \in Feasible /\ Holds(oCondition', v)
      BY <2>1 DEF Feasible
    <2>4. Feasible # {}
      BY <2>3 DEF Feasible
    <2> QED BY <2>1, <2>2, <2>3, <2>4 DEF IInv, ExactWhileMerging, AdmittedByAll
  <1>2. ASSUME MergeStep PROVE val \in Feasible' <=> AdmittedByAll(val)'
    <2>1. Feasible' = Feasible /\ introduced' = introduced
      BY <1>2 DEF MergeStep, Feasible
    <2>2. val \in Feasible <=> AdmittedByAll(val)
      BY <2>1 DEF IInv, ExactWhileMerging
    <2>3. PICK some \in Valuations : AdmittedByAll(some)
      BY <2>1 DEF IInv, ExactWhileMerging, Feasible
    <2>4. AdmittedByAll(val) <=> AdmittedByAll(val)'
      <3> USE DEF IInv
      <3>1. CASE NothingToMerge
        <4>1. ~(AtEntry /\ aConditions[it].eSpecial = "FALSE")
          BY <2>3 DEF TypeOK, AtEntry, AdmittedByAll, Holds
        <4>2. Compared("ALWAYS_SATISFIED")
          BY <3>1, <4>1 DEF NothingToMerge
        <4>3. Holds(aConditions[it], val) => Holds(oCondition, val)
          BY <4>2, ComparedFacts, HoldsNormal
          DEF Compared, SoundAnswer, Never, Always, NotMergable, Answer, Meets
        <4>4. Merging /\ ~Merging' /\ aConditions' = aConditions
          BY <3>1 DEF NothingToMerge, Compared, AtEntry, Merged, Merging
        <4>5. it \in 1..Len(aConditions)
          BY <4>2, ComparedFacts DEF Compared
        <4> QED BY <4>3, <4>4, <4>5 DEF AdmittedByAll
      <3>2. CASE Contradict
        <4>1. Compared("NEVER_SATISFIED") /\ Merging
          BY <3>2 DEF Contradict, Compared, AtEntry
        <4>2. ~(Holds(aConditions[it], some) /\ Holds(oCondition, some))
          BY <4>1, ComparedFacts, HoldsNormal
          DEF Compared, SoundAnswer, Never, Always, NotMergable, Answer, Meets
        <4>3. it \in 1..Len(aConditions)
          BY <4>1, ComparedFacts DEF Compared
        <4> QED BY <2>3, <4>1, <4>2, <4>3 DEF AdmittedByAll
      <3>3. CASE Narrow
        <4>1. Merging /\ it \in 1..Len(aConditions)
          BY <3>3, NarrowFacts, ComparedFacts DEF AtEntry
        <4>2. Merging'
          BY <3>3, NarrowFacts
          DEF Meets, Merging, Nothing, NormalConditions, ConditionsWith
        <4>3. \A v \in Valuations :
                /\ val[oCondition.oExpression1] \in Word
                /\ Holds(oCondition, v) <=> Satisfies(v[oCondition.oExpression1], oCondition)
                /\ Holds(aConditions[it], v) <=> Satisfies(v[oCondition.oExpression1], aConditions[it])
                /\ Holds(oCondition', v) <=> Satisfies(v[oCondition.oExpression1], oCondition')
          BY <3>3, NarrowFacts, ComparedFacts, HoldsNormal DEF Meets
        <4>4. Holds(oCondition, some) /\ Holds(aConditions[it], some)
          BY <2>3, <4>1 DEF AdmittedByAll
        <4>5. some[oCondition.oExpression1] \in Word
          BY <3>3, NarrowFacts, ComparedFacts, HoldsNormal
        <4>6. Holds(oCondition', val) <=>
                Holds(oCondition, val) /\ Holds(aConditions[it], val)
          BY <3>3, NarrowFacts, <4>3, <4>4, <4>5 DEF Meets
        <4>7. /\ Len(aConditions') = Len(aConditions) - 1
              /\ Len(aConditions) \in Nat
              /\ \A j \in 1..Len(aConditions') :
                   aConditions'[j] = IF j < it THEN aConditions[j]
                                     ELSE aConditions[j + 1]
          BY <3>3, <4>1, Erased DEF Narrow, EraseEntry, TypeOK
        <4>8. (\A j \in 1..Len(aConditions) : Holds(aConditions[j], val)) <=>
              /\ Holds(aConditions[it], val)
              /\ \A j \in 1..Len(aConditions') : Holds(aConditions'[j], val)
          <5>1. ASSUME NEW j \in 1..Len(aConditions), j # it,
                       \A k \in 1..Len(aConditions') : Holds(aConditions'[k], val)
                PROVE  Holds(aConditions[j], val)
            <6>1. CASE j < it
              BY <4>1, <4>7, <5>1, <6>1
            <6>2. CASE j > it
              <7>1. j - 1 \in 1..Len(aConditions') /\ ~(j - 1 < it) /\ (j - 1) + 1 = j
                BY <4>1, <4>7, <6>2
              <7> QED BY <4>7, <5>1, <7>1
            <6> QED BY <4>1, <5>1, <6>1, <6>2
          <5>2. ASSUME NEW j \in 1..Len(aConditions'),
                       \A k \in 1..Len(aConditions) : Holds(aConditions[k], val)
                PROVE  Holds(aConditions'[j], val)
            BY <4>1, <4>7, <5>2
          <5> QED BY <4>1, <5>1, <5>2
        <4> QED BY <4>1, <4>2, <4>6, <4>8 DEF AdmittedByAll
      <3>4. CASE NextEntry
        BY <1>2, <3>4 DEF NextEntry, AdmittedByAll, Merging
      <3>5. CASE AppendCondition
        <4>1. /\ aConditions' = Append(aConditions, oCondition)
              /\ Merging /\ ~Merging'
              /\ aConditions \in Seq(Entries) /\ oCondition \in Entries
          BY <3>5 DEF AppendCondition, Merged, Merging, TypeOK, Entries
        <4>2. /\ Len(aConditions') = Len(aConditions) + 1
              /\ \A i \in 1..Len(aConditions) : aConditions'[i] = aConditions[i]
              /\ aConditions'[Len(aConditions) + 1] = oCondition
              /\ Len(aConditions) \in Nat
          BY <4>1
        <4> QED BY <4>1, <4>2 DEF AdmittedByAll
      <3> QED BY <1>2, <3>1, <3>2, <3>3, <3>4, <3>5 DEF MergeStep
    <2> QED BY <2>1, <2>2, <2>4
  <1>3. CASE UNCHANGED vars
    BY <1>3 DEF vars, Feasible, AdmittedByAll, Merging, IInv, ExactWhileMerging
  <1> QED BY <1>1, <1>2, <1>3 DEF Next

\* The invariant holds initially: nothing is decided, everything is admitted.
LEMMA InitIInv == Init => IInv
  <1> SUFFICES ASSUME Init PROVE IInv
    OBVIOUS
  <1>1. TypeOK
    BY MaxConditionsAssumption DEF Init, TypeOK
  <1>2. ExactWhileMerging
    BY DEF Init, ExactWhileMerging, Feasible, AdmittedByAll, Merging
  <1> QED BY <1>1, <1>2 DEF IInv

\* The invariant holds in every reachable state.
THEOREM Invariance == SafeSpec => []IInv
  <1>1. IInv /\ [Next]_vars => IInv'
    BY TypeStep, ExactStep DEF IInv
  <1> QED BY InitIInv, <1>1, PTL DEF SafeSpec

\* The type invariant, for every width of the words.
THEOREM TypeCorrect == SafeSpec => []TypeOK
  <1>1. IInv => TypeOK
    BY DEF IInv
  <1> QED BY Invariance, <1>1, PTL

(***************************************************************************)
(* On a feasible path the predicate admits exactly the values that satisfy  *)
(* every decision, for every width of the words and set of expressions.     *)
(***************************************************************************)
THEOREM PredicateExact == SafeSpec => []ExactWhenFeasible
  <1>1. IInv => ExactWhenFeasible
    BY DEF IInv, ExactWhileMerging, ExactWhenFeasible, AdmittedByAll, Admitted,
       Feasible
  <1> QED BY Invariance, <1>1, PTL

\* An answer of IsSatisfied for a normal condition comes from an entry.
LEMMA SomeEntryDecides ==
  ASSUME TypeOK, NEW c \in NormalConditions,
         IsSatisfied(c) # "SOMETIMES"
  PROVE  \E i \in 1..Len(aConditions) :
           /\ aConditions[i] \in NormalConditions
           /\ aConditions[i].oExpression1 = c.oExpression1
           /\ IsSatisfied(c) = "ALWAYS" =>
                CompareNormalized(c, aConditions[i]) = Always
           /\ IsSatisfied(c) = "NEVER" =>
                CompareNormalized(c, aConditions[i]) = Never
  <1>1. PICK i \in DecidedBy(c) :
          /\ IsSatisfied(c) = "ALWAYS" => CompareNormalized(c, aConditions[i]) = Always
          /\ IsSatisfied(c) = "NEVER" => CompareNormalized(c, aConditions[i]) = Never
    BY DEF IsSatisfied, FirstAnswer, NormalConditions, ConditionsWith
  <1>2. i \in 1..Len(aConditions) /\ SameExpression(aConditions[i], c)
    BY DEF DecidedBy
  <1>3. /\ aConditions[i] \in NormalConditions
        /\ aConditions[i].oExpression1 = c.oExpression1
    BY <1>2 DEF SameExpression, TypeOK, Entries, FalseCondition
  <1> QED BY <1>1, <1>2, <1>3

(***************************************************************************)
(* What IsSatisfied reports as decided is decided.                          *)
(***************************************************************************)
THEOREM PredicateAnswersSound == SafeSpec => []AnswersSound
  <1>1. ASSUME IInv, ~Merging, NEW c \in ConditionsWith(Operators),
               NEW val \in Feasible
        PROVE  /\ IsSatisfied(NormalizeOperator(c)) = "ALWAYS" => Holds(c, val)
               /\ IsSatisfied(NormalizeOperator(c)) = "NEVER" => ~Holds(c, val)
    <2> DEFINE n == NormalizeOperator(c)
    <2>1. val \in Valuations /\ AdmittedByAll(val)
      BY <1>1 DEF IInv, ExactWhileMerging, Feasible
    <2>2. Holds(n, val) <=> Holds(c, val)
      BY <2>1, NormalizeSound
    <2>3. n \in {TrueCondition, FalseCondition} \/ n \in NormalConditions
      BY NormalizeType
    <2> HIDE DEF n
    <2>4. CASE n \in {TrueCondition, FalseCondition}
      BY <2>2, <2>4 DEF IsSatisfied, TrueCondition, FalseCondition, Holds, n
    <2>5. CASE n \in NormalConditions /\ IsSatisfied(n) # "SOMETIMES"
      <3>1. PICK i \in 1..Len(aConditions) :
              /\ aConditions[i] \in NormalConditions
              /\ aConditions[i].oExpression1 = n.oExpression1
              /\ IsSatisfied(n) = "ALWAYS" =>
                   CompareNormalized(n, aConditions[i]) = Always
              /\ IsSatisfied(n) = "NEVER" =>
                   CompareNormalized(n, aConditions[i]) = Never
        BY <1>1, <2>5, SomeEntryDecides DEF IInv
      <3>2. SoundAnswer(CompareNormalized(n, aConditions[i]), n, aConditions[i])
        BY <2>5, <3>1, CompareNormalizedSound
      <3>3. Holds(aConditions[i], val)
        BY <2>1 DEF AdmittedByAll
      <3>4. /\ IsSatisfied(n) = "ALWAYS" => Holds(n, val)
            /\ IsSatisfied(n) = "NEVER" => ~Holds(n, val)
        BY <2>1, <2>5, <3>1, <3>2, <3>3, HoldsNormal
        DEF SoundAnswer, Never, Always, NotMergable, Answer
      <3> QED BY <2>2, <3>4 DEF n
    <2> QED BY <2>3, <2>4, <2>5 DEF n
  <1>2. IInv => AnswersSound
    BY <1>1 DEF AnswersSound
  <1> QED BY Invariance, <1>2, PTL

-----------------------------------------------------------------------------
(* The list is canonical *)

\* Nothing is left to do for the condition d and the entry c.
Separate(d, c) ==
  c.eSpecial = "NORMAL" /\ SameExpression(d, c) =>
    CompareNormalized(d, c) = NotMergable

(***************************************************************************)
(* The entries are separate at any time, also between two iterations of     *)
(* MergeCondition; the condition being merged is separate from the entries  *)
(* that the iterator has passed, so that it may be appended at the end.     *)
(***************************************************************************)
CanonicalWhileMerging ==
  /\ \A i, j \in 1..Len(aConditions) :
       i < j => Separate(aConditions[j], aConditions[i])
  /\ Merging =>
       \A i \in 1..Len(aConditions) : i < it => Separate(oCondition, aConditions[i])

\* An entry that is passed because nothing can be merged is separate.
LEMMA PassedSeparate ==
  ASSUME TypeOK, NextEntry
  PROVE  Separate(oCondition, aConditions[it])
  <1>1. CASE Compared("NOT_MERGABLE")
    <2>1. SoundAnswer(CompareNormalized(oCondition, aConditions[it]),
                      oCondition, aConditions[it])
      BY <1>1, ComparedFacts DEF Compared
    <2>2. CompareNormalized(oCondition, aConditions[it]) = NotMergable
      BY <1>1, <2>1 DEF Compared, SoundAnswer, Never, Always, NotMergable, Answer
    <2> QED BY <2>2 DEF Separate
  <1>2. CASE ~SameExpression(aConditions[it], oCondition)
    BY <1>2 DEF NextEntry, SameExpression, Separate
  <1> QED BY <1>1, <1>2 DEF NextEntry

\* Every step keeps the list canonical.
LEMMA CanonicalStep ==
  TypeOK /\ CanonicalWhileMerging /\ [Next]_vars => CanonicalWhileMerging'
  <1> SUFFICES ASSUME TypeOK, CanonicalWhileMerging, [Next]_vars
               PROVE  CanonicalWhileMerging'
    OBVIOUS
  <1>1. ASSUME NEW c \in ConditionsWith(Operators), NEW taken \in BOOLEAN,
               IntroduceCondition(c, taken)
        PROVE  CanonicalWhileMerging'
    BY <1>1 DEF IntroduceCondition, CanonicalWhileMerging, Separate, SameExpression
  <1>2. ASSUME MergeStep PROVE CanonicalWhileMerging'
    <2>1. CASE NothingToMerge
      BY <2>1 DEF NothingToMerge, Merged, Merging, CanonicalWhileMerging, Separate,
         SameExpression
    <2>2. CASE Contradict
      <3>1. Len(aConditions') = 1 /\ ~Merging'
        BY <2>2 DEF Contradict, Merged, Merging
      <3> QED BY <3>1 DEF CanonicalWhileMerging
    <2>3. CASE Narrow
      <3>1. it \in 1..Len(aConditions) /\ it' = 1
        BY <2>3, NarrowFacts, ComparedFacts DEF Narrow, StartOver
      <3>2. /\ Len(aConditions') = Len(aConditions) - 1
            /\ Len(aConditions) \in Nat
            /\ \A j \in 1..Len(aConditions') :
                 aConditions'[j] = IF j < it THEN aConditions[j]
                                   ELSE aConditions[j + 1]
        <4>1. aConditions \in Seq(Entries) /\ Len(aConditions) \in Nat
          BY DEF TypeOK
        <4>2. aConditions' = RemoveAt(aConditions, it)
          BY <2>3 DEF Narrow, EraseEntry
        <4>3. /\ Len(RemoveAt(aConditions, it)) = Len(aConditions) - 1
              /\ \A j \in 1..Len(RemoveAt(aConditions, it)) :
                   RemoveAt(aConditions, it)[j] = IF j < it THEN aConditions[j] ELSE aConditions[j + 1]
          BY <3>1, <4>1, Erased
        <4> QED BY <4>1, <4>2, <4>3
      <3>3. ASSUME NEW i \in 1..Len(aConditions'), NEW j \in 1..Len(aConditions'),
                   i < j
            PROVE  Separate(aConditions'[j], aConditions'[i])
        <4>1. PICK k \in 1..Len(aConditions), l \in 1..Len(aConditions) :
                k < l /\ aConditions'[i] = aConditions[k] /\ aConditions'[j] = aConditions[l]
          <5>1. CASE j < it
            <6>1. i \in 1..Len(aConditions) /\ j \in 1..Len(aConditions) /\ i < it
              BY <3>1, <3>2, <3>3, <5>1
            <6> QED BY <3>2, <3>3, <5>1, <6>1
          <5>2. CASE ~(j < it) /\ i < it
            <6>1. i \in 1..Len(aConditions) /\ j + 1 \in 1..Len(aConditions) /\ i < j + 1
              BY <3>1, <3>2, <3>3, <5>2
            <6> QED BY <3>2, <3>3, <5>2, <6>1
          <5>3. CASE ~(j < it) /\ ~(i < it)
            <6>1. /\ i + 1 \in 1..Len(aConditions) /\ j + 1 \in 1..Len(aConditions)
                  /\ i + 1 < j + 1
              BY <3>1, <3>2, <3>3, <5>3
            <6> QED BY <3>2, <3>3, <5>3, <6>1
          <5> QED BY <5>1, <5>2, <5>3, <3>1, <3>2, <3>3
        <4> QED BY <4>1 DEF CanonicalWhileMerging
      <3>4. \A i \in 1..Len(aConditions') : ~(i < it')
        BY <3>1, <3>2
      <3> QED BY <3>3, <3>4 DEF CanonicalWhileMerging, Separate, SameExpression
    <2>4. CASE NextEntry
      <3>1. it' = it + 1 /\ aConditions' = aConditions /\ oCondition' = oCondition
        BY <2>4 DEF NextEntry
      <3>2. it \in Int /\ Merging
        BY <2>4 DEF TypeOK, NextEntry, AtEntry
      <3>3. ASSUME NEW i \in 1..Len(aConditions), i < it'
            PROVE  Separate(oCondition, aConditions[i])
        <4>1. i < it \/ i = it
          BY <3>1, <3>2, <3>3
        <4> QED BY <2>4, <3>2, <4>1, PassedSeparate DEF CanonicalWhileMerging
      <3> QED BY <3>1, <3>3 DEF CanonicalWhileMerging, Separate, SameExpression
    <2>5. CASE AppendCondition
      <3>1. /\ aConditions' = Append(aConditions, oCondition)
            /\ Merging /\ ~Merging' /\ it > Len(aConditions)
            /\ aConditions \in Seq(Entries) /\ oCondition \in Entries
            /\ it \in Int /\ Len(aConditions) \in Nat
        BY <2>5 DEF AppendCondition, Merged, Merging, TypeOK, Entries
      <3>2. /\ Len(aConditions') = Len(aConditions) + 1
            /\ \A i \in 1..Len(aConditions) : aConditions'[i] = aConditions[i]
            /\ aConditions'[Len(aConditions) + 1] = oCondition
        BY <3>1
      <3>3. ASSUME NEW i \in 1..Len(aConditions'), NEW j \in 1..Len(aConditions'),
                   i < j
            PROVE  Separate(aConditions'[j], aConditions'[i])
        <4>1. i \in 1..Len(aConditions) /\ i < it
          BY <3>1, <3>2, <3>3
        <4>2. CASE j \in 1..Len(aConditions)
          BY <3>2, <3>3, <4>1, <4>2 DEF CanonicalWhileMerging
        <4>3. CASE j = Len(aConditions) + 1
          BY <3>1, <3>2, <4>1, <4>3 DEF CanonicalWhileMerging
        <4> QED BY <3>1, <3>2, <4>2, <4>3
      <3> QED BY <3>1, <3>3 DEF CanonicalWhileMerging, Separate, SameExpression
    <2> QED BY <1>2, <2>1, <2>2, <2>3, <2>4, <2>5 DEF MergeStep
  <1>3. CASE UNCHANGED vars
    BY <1>3 DEF vars, CanonicalWhileMerging, Merging, Separate, SameExpression
  <1> QED BY <1>1, <1>2, <1>3 DEF Next

(***************************************************************************)
(* Between two merges no two entries are left that could be merged or that  *)
(* decide one another: erasing the entry and starting over finds them all.  *)
(***************************************************************************)
THEOREM PredicateCanonical == SafeSpec => []Canonical
  <1>1. Init => CanonicalWhileMerging
    BY DEF Init, CanonicalWhileMerging, Merging
  <1>2. TypeOK /\ CanonicalWhileMerging => Canonical
    <2> SUFFICES ASSUME TypeOK, CanonicalWhileMerging,
                        NEW i \in 1..Len(aConditions), NEW j \in 1..Len(aConditions),
                        i < j, aConditions[i].eSpecial = "NORMAL",
                        SameExpression(aConditions[j], aConditions[i])
                 PROVE  CompareNormalized(aConditions[j], aConditions[i]) = NotMergable
      BY DEF Canonical
    <2>1. Separate(aConditions[j], aConditions[i])
      BY DEF CanonicalWhileMerging
    <2> QED BY <2>1 DEF Separate
  <1>3. SafeSpec => []CanonicalWhileMerging
    BY <1>1, CanonicalStep, TypeCorrect, PTL DEF SafeSpec
  <1> QED BY <1>2, <1>3, TypeCorrect, PTL

-----------------------------------------------------------------------------
(* What is decided once stays decided *)

\* Every word that satisfies x satisfies c.
Implies(x, c) == \A w \in Word : Satisfies(w, x) => Satisfies(w, c)

\* The operator of x is one under which a condition with the operator op may
\* be always satisfied.
Compatible(x, op) == op = "NEQ" \/ x.eOperator \in {"EQ", op}

(***************************************************************************)
(* Always satisfied is an answer about meaning and operators: a bound is    *)
(* recognised under an equality or a bound of its own kind.                 *)
(***************************************************************************)
LEMMA AlwaysMeans ==
  ASSUME NEW c \in NormalConditions, NEW x \in NormalConditions,
         c.oExpression1 = x.oExpression1,
         CompareNormalized(c, x) = Always
  PROVE  Implies(x, c) /\ Compatible(x, c.eOperator)
  <1>1. Implies(x, c)
    BY CompareNormalizedSound
    DEF SoundAnswer, Never, Always, NotMergable, Answer, Implies
  <1>2. \A d : Mergable(d) # Always /\ NotMergable # Always /\ Never # Always
    BY DEF Mergable, NotMergable, Never, Always, Answer
  <1>3. c.eOperator \in {"EQ", "NEQ", "UGE", "GE", "ULE", "LE"}
    BY DEF NormalConditions, ConditionsWith, NormalOperators, Equalities,
       LowerBounds, UpperBounds
  <1>4. CASE c.eOperator = "EQ"
    BY <1>1, <1>2, <1>4 DEF CompareNormalized, CompareEqual, Compatible
  <1>5. CASE c.eOperator \notin {"EQ", "NEQ"}
    <2>1. CompareBound(c, x) = Always
      BY <1>5 DEF CompareNormalized
    <2>2. CASE x.eOperator = "NEQ"
      <3>1. c.eOperator # "NEQ" /\ FlipOperator(c.eOperator) # "NEQ"
        BY <1>3, <1>5 DEF FlipOperator
      <3> QED BY <1>2, <2>1, <2>2, <3>1 DEF CompareBound
    <2>3. CASE x.eOperator \notin {"EQ", "NEQ", c.eOperator}
      BY <1>2, <2>1, <2>3 DEF CompareBound, CompareOppositeSide
    <2> QED BY <1>1, <2>2, <2>3 DEF Compatible
  <1> QED BY <1>1, <1>3, <1>4, <1>5 DEF Compatible

\* ... and whenever that is so, the answer is given, but for signed <=.
LEMMA MeansAlways ==
  ASSUME NEW c \in NormalConditions, NEW x \in NormalConditions,
         c.oExpression1 = x.oExpression1, c.eOperator # "LE",
         Implies(x, c), Compatible(x, c.eOperator)
  PROVE  CompareNormalized(c, x) = Always
  <1>1. /\ c.eOperator \in {"EQ", "NEQ", "UGE", "GE", "ULE"}
        /\ x.eOperator \in {"EQ", "NEQ", "UGE", "GE", "ULE", "LE"}
        /\ c.dwValue \in Word /\ x.dwValue \in Word
    BY DEF NormalConditions, ConditionsWith, NormalOperators, Equalities,
       LowerBounds, UpperBounds
  <1>2. x.eOperator # "NEQ" => Satisfies(x.dwValue, x)
    BY <1>1, SatisfiesNormal, HalfAssumption DEF Word, MaxWord, Signed
  <1>3. x.eOperator # "NEQ" => Satisfies(x.dwValue, c)
    BY <1>1, <1>2 DEF Implies
  <1>4. CASE c.eOperator = "EQ"
    <2>1. x.eOperator = "EQ" /\ x.dwValue = c.dwValue
      BY <1>1, <1>3, <1>4, SatisfiesNormal DEF Compatible
    <2> QED BY <1>1, <1>2, <1>4, <2>1 DEF CompareNormalized, CompareEqual
  <1>5. CASE c.eOperator = "NEQ"
    <2>1. ~Satisfies(c.dwValue, c)
      BY <1>1, <1>5, SatisfiesNormal
    <2>2. ~Satisfies(c.dwValue, x)
      BY <1>1, <2>1 DEF Implies
    <2> QED BY <1>5, <2>2 DEF CompareNormalized, CompareNotEqual
  <1>6. CASE c.eOperator \in {"UGE", "GE", "ULE"} /\ x.eOperator = "EQ"
    <2>1. CompareNormalized(c, x) = CompareBound(c, x)
      BY <1>6 DEF CompareNormalized
    <2>2. FlipOperator(c.eOperator) # "EQ" /\ c.eOperator # "EQ"
      BY <1>6 DEF FlipOperator
    <2> QED BY <1>3, <1>6, <2>1, <2>2 DEF CompareBound
  <1>7. CASE c.eOperator \in {"UGE", "GE", "ULE"} /\ x.eOperator = c.eOperator
    <2>1. CompareNormalized(c, x) = CompareBound(c, x)
      BY <1>7 DEF CompareNormalized
    <2>2. FlipOperator(c.eOperator) # c.eOperator
      BY <1>7 DEF FlipOperator
    <2>3. CompareNormalized(c, x) = CompareSameSide(c, x)
      BY <1>7, <2>1, <2>2 DEF CompareBound
    <2> QED BY <1>3, <1>7, <2>3 DEF CompareSameSide
  <1> QED BY <1>1, <1>4, <1>5, <1>6, <1>7 DEF Compatible

(***************************************************************************)
(* The operator of a merged condition is compatible with whatever the       *)
(* operators of the two conditions were compatible with.                    *)
(***************************************************************************)
LEMMA MergedCompatible ==
  ASSUME NEW o \in NormalConditions, NEW e \in NormalConditions,
         o.oExpression1 = e.oExpression1,
         CompareNormalized(o, e).eResult = "MERGABLE",
         NEW op, Compatible(o, op) \/ Compatible(e, op)
  PROVE  Compatible(CompareNormalized(o, e).oMerged, op)
  <1> DEFINE r == CompareNormalized(o, e)
  <1>1. /\ o.eOperator \in {"EQ", "NEQ", "UGE", "GE", "ULE", "LE"}
        /\ e.eOperator \in {"EQ", "NEQ", "UGE", "GE", "ULE", "LE"}
    BY DEF NormalConditions, ConditionsWith, NormalOperators, Equalities,
       LowerBounds, UpperBounds
  <1>2. /\ \A d : Mergable(d).oMerged = d
        /\ Never.eResult # "MERGABLE" /\ Always.eResult # "MERGABLE"
        /\ NotMergable.eResult # "MERGABLE"
    BY DEF Mergable, NotMergable, Never, Always, Answer
  <1>3. \A c \in {o, e} : Tighten(c).eOperator = c.eOperator
    BY DEF Tighten, NormalConditions, ConditionsWith
  <1>4. r.oMerged.eOperator = "EQ" \/
        \A p \in {o, e} : p.eOperator = "NEQ" \/ p.eOperator = r.oMerged.eOperator
    <2>1. CASE o.eOperator = "EQ"
      BY <1>2, <2>1 DEF CompareNormalized, CompareEqual
    <2>2. CASE o.eOperator = "NEQ"
      BY <1>2, <1>3, <2>2 DEF CompareNormalized, CompareNotEqual
    <2>3. CASE o.eOperator \notin {"EQ", "NEQ"}
      <3>1. r = CompareBound(o, e)
        BY <2>3 DEF CompareNormalized
      <3>2. FlipOperator(o.eOperator) \notin {"EQ", "NEQ", o.eOperator}
        BY <1>1, <2>3 DEF FlipOperator
      <3>3. CASE e.eOperator = "EQ"
        BY <1>2, <2>3, <3>1, <3>2, <3>3 DEF CompareBound
      <3>4. CASE e.eOperator = "NEQ"
        BY <1>2, <1>3, <2>3, <3>1, <3>2, <3>4 DEF CompareBound
      <3>5. CASE e.eOperator = o.eOperator
        BY <1>2, <2>3, <3>1, <3>2, <3>5 DEF CompareBound, CompareSameSide
      <3>6. CASE e.eOperator \notin {"EQ", "NEQ", o.eOperator}
        <4>1. [o EXCEPT !.eOperator = "EQ"].eOperator = "EQ"
          BY DEF NormalConditions, ConditionsWith
        <4>2. r \in {CompareOppositeSide(o, e), NotMergable}
          BY <3>1, <3>6 DEF CompareBound
        <4>3. r \in {Never, NotMergable, Mergable([o EXCEPT !.eOperator = "EQ"])}
          BY <4>2 DEF CompareOppositeSide
        <4>4. r.eResult = "MERGABLE"
          OBVIOUS
        <4> HIDE DEF r
        <4>5. r = Mergable([o EXCEPT !.eOperator = "EQ"])
          BY <1>2, <4>3, <4>4
        <4> QED BY <1>2, <4>1, <4>5
      <3> QED BY <3>3, <3>4, <3>5, <3>6
    <2> QED BY <2>1, <2>2, <2>3
  <1> HIDE DEF r
  <1> QED BY <1>4 DEF Compatible, r

\* What decides a condition that decides c, decides c.
LEMMA AlwaysTransitive ==
  ASSUME NEW c \in NormalConditions, NEW o \in NormalConditions,
         NEW e \in NormalConditions, c.eOperator # "LE",
         o.oExpression1 = c.oExpression1, e.oExpression1 = c.oExpression1,
         CompareNormalized(c, o) = Always, CompareNormalized(o, e) = Always
  PROVE  CompareNormalized(c, e) = Always
  <1>1. /\ Implies(o, c) /\ Compatible(o, c.eOperator)
        /\ Implies(e, o) /\ Compatible(e, o.eOperator)
    BY AlwaysMeans
  <1>2. Implies(e, c)
    BY <1>1 DEF Implies
  <1>3. Compatible(e, c.eOperator)
    BY <1>1 DEF Compatible
  <1> QED BY <1>2, <1>3, MeansAlways

(***************************************************************************)
(* A merged condition decides what one of the two has decided, if some word *)
(* satisfies both (otherwise a bound may have wrapped around).              *)
(***************************************************************************)
LEMMA MergedDecides ==
  ASSUME NEW c \in NormalConditions, NEW o \in NormalConditions,
         NEW e \in NormalConditions, c.eOperator # "LE",
         o.oExpression1 = c.oExpression1, e.oExpression1 = c.oExpression1,
         CompareNormalized(o, e).eResult = "MERGABLE",
         CompareNormalized(c, o) = Always \/ CompareNormalized(c, e) = Always,
         NEW w \in Word, Satisfies(w, o), Satisfies(w, e)
  PROVE  CompareNormalized(c, CompareNormalized(o, e).oMerged) = Always
  <1> DEFINE m == CompareNormalized(o, e).oMerged
  <1>1. Meets(m, o, e)
    BY CompareNormalizedSound DEF SoundAnswer, Never, Always, NotMergable, Answer
  <1>2. /\ m \in NormalConditions /\ m.oExpression1 = c.oExpression1
        /\ Implies(m, o) /\ Implies(m, e)
    BY <1>1 DEF Meets, Implies
  <1>3. /\ Implies(o, c) \/ Implies(e, c)
        /\ Compatible(o, c.eOperator) \/ Compatible(e, c.eOperator)
    BY AlwaysMeans
  <1>4. Implies(m, c)
    BY <1>2, <1>3 DEF Implies
  <1>5. Compatible(m, c.eOperator)
    BY <1>3, MergedCompatible
  <1> HIDE DEF m
  <1> QED BY <1>2, <1>4, <1>5, MeansAlways DEF m

\* The entry x decides that c holds.
Decides(x, c) == SameExpression(x, c) /\ CompareNormalized(c, x) = Always

\* Something in the list, or the condition being merged, decides c.
StillDecided(c) ==
  \/ \E i \in 1..Len(aConditions) : Decides(aConditions[i], c)
  \/ Merging /\ Decides(oCondition, c)

(***************************************************************************)
(* On a feasible path no decision is forgotten, however its condition was   *)
(* merged with others, at any time of a merge.                              *)
(***************************************************************************)
DecidedWhileMerging ==
  Feasible # {} =>
    \A c \in introduced : c.eOperator # "LE" => StillDecided(c)

\* The condition and an entry it is compared with hold together somewhere.
LEMMA SatisfiedTogether ==
  ASSUME IInv, Feasible # {}, AtEntry, SameExpression(aConditions[it], oCondition)
  PROVE  \E w \in Word : Satisfies(w, oCondition) /\ Satisfies(w, aConditions[it])
  <1>1. PICK val \in Valuations : AdmittedByAll(val)
    BY DEF IInv, ExactWhileMerging, Feasible
  <1>2. /\ it \in 1..Len(aConditions) /\ Merging
        /\ oCondition \in NormalConditions /\ aConditions[it] \in NormalConditions
        /\ aConditions[it].oExpression1 = oCondition.oExpression1
    BY ComparedFacts DEF IInv, AtEntry
  <1>3. Holds(oCondition, val) /\ Holds(aConditions[it], val)
    BY <1>1, <1>2 DEF AdmittedByAll
  <1>4. /\ val[oCondition.oExpression1] \in Word
        /\ Satisfies(val[oCondition.oExpression1], oCondition)
        /\ Satisfies(val[oCondition.oExpression1], aConditions[it])
    BY <1>2, <1>3, HoldsNormal
  <1> QED BY <1>4

\* Every step keeps what was decided decided.
LEMMA DecidedStep ==
  IInv /\ IInv' /\ DecidedWhileMerging /\ [Next]_vars => DecidedWhileMerging'
  <1> SUFFICES ASSUME IInv, IInv', DecidedWhileMerging, [Next]_vars,
                      Feasible' # {}, NEW c \in introduced', c.eOperator # "LE"
               PROVE  StillDecided(c)'
    BY DEF DecidedWhileMerging
  <1>t. c \in NormalConditions
    BY DEF IInv, TypeOK
  <1>1. ASSUME NEW d \in ConditionsWith(Operators), NEW taken \in BOOLEAN,
               IntroduceCondition(d, taken)
        PROVE  StillDecided(c)'
    <2>1. /\ oCondition' \in NormalConditions /\ ~Merging
          /\ introduced' = introduced \cup {oCondition'}
          /\ aConditions' = aConditions
      BY <1>1, IntroducedFacts DEF IntroduceCondition, IInv
    <2>2. CASE c = oCondition'
      <3>1. Implies(c, c) /\ Compatible(c, c.eOperator)
        BY DEF Implies, Compatible
      <3>2. CompareNormalized(c, c) = Always
        BY <1>t, <3>1, MeansAlways
      <3>3. SameExpression(c, c) /\ c # Nothing
        BY <1>t DEF SameExpression, NormalConditions, ConditionsWith, Nothing
      <3> QED BY <2>2, <3>2, <3>3 DEF StillDecided, Decides, Merging, SameExpression
    <2>3. CASE c \in introduced
      <3>1. Feasible # {}
        BY <2>1 DEF Feasible
      <3>2. StillDecided(c)
        BY <2>3, <3>1 DEF DecidedWhileMerging
      <3> QED BY <2>1, <3>2 DEF StillDecided, Decides, SameExpression
    <2> QED BY <2>1, <2>2, <2>3
  <1>2. ASSUME MergeStep PROVE StillDecided(c)'
    <2>1. Feasible # {} /\ c \in introduced
      BY <1>2 DEF MergeStep, Feasible
    <2>2. StillDecided(c)
      BY <2>1 DEF DecidedWhileMerging
    <2>3. TypeOK
      BY DEF IInv
    <2>4. CASE NothingToMerge
      <3>1. ~(AtEntry /\ aConditions[it].eSpecial = "FALSE")
        BY <2>1, <2>3 DEF TypeOK, AtEntry, AdmittedByAll, Holds, IInv, ExactWhileMerging,
           Feasible
      <3>2. Compared("ALWAYS_SATISFIED")
        BY <2>4, <3>1 DEF NothingToMerge
      <3>3. CompareNormalized(oCondition, aConditions[it]) = Always
        BY <2>3, <3>2, ComparedFacts
        DEF Compared, SoundAnswer, Never, Always, NotMergable, Answer
      <3>4. aConditions' = aConditions
        BY <2>4 DEF NothingToMerge
      <3>5. \E i \in 1..Len(aConditions) : Decides(aConditions[i], c)
        <4>1. CASE Decides(oCondition, c)
          <5>1. /\ it \in 1..Len(aConditions)
                /\ oCondition \in NormalConditions /\ aConditions[it] \in NormalConditions
                /\ aConditions[it].oExpression1 = oCondition.oExpression1
            BY <2>3, <3>2, ComparedFacts DEF Compared
          <5>2. /\ oCondition.oExpression1 = c.oExpression1
                /\ CompareNormalized(c, oCondition) = Always
            BY <4>1 DEF Decides, SameExpression
          <5>3. CompareNormalized(c, aConditions[it]) = Always
            BY <1>t, <3>3, <5>1, <5>2, AlwaysTransitive
          <5>4. SameExpression(aConditions[it], c)
            BY <3>2, <5>1, <5>2 DEF Compared, SameExpression
          <5> QED BY <5>1, <5>3, <5>4 DEF Decides
        <4> QED BY <2>2, <4>1 DEF StillDecided
      <3> QED BY <3>4, <3>5 DEF StillDecided, Decides, SameExpression
    <2>5. CASE Contradict
      <3>1. Compared("NEVER_SATISFIED")
        BY <2>5 DEF Contradict
      <3>2. \A w \in Word : ~(Satisfies(w, oCondition) /\ Satisfies(w, aConditions[it]))
        BY <2>3, <3>1, ComparedFacts
        DEF Compared, SoundAnswer, Never, Always, NotMergable, Answer
      <3> QED BY <2>1, <3>1, <3>2, SatisfiedTogether DEF Compared
    <2>6. CASE Narrow
      <3> DEFINE m == CompareNormalized(oCondition, aConditions[it]).oMerged
      <3>1. /\ it \in 1..Len(aConditions)
            /\ oCondition \in NormalConditions /\ aConditions[it] \in NormalConditions
            /\ aConditions[it].oExpression1 = oCondition.oExpression1
            /\ AtEntry /\ SameExpression(aConditions[it], oCondition)
            /\ CompareNormalized(oCondition, aConditions[it]).eResult = "MERGABLE"
            /\ oCondition' = m
        BY <2>3, <2>6, NarrowFacts, ComparedFacts DEF Narrow, Compared
      <3>2. /\ oCondition' \in NormalConditions
            /\ oCondition'.oExpression1 = oCondition.oExpression1
            /\ Merging'
        BY <2>3, <2>6, NarrowFacts DEF Meets, Merging, Nothing, NormalConditions, ConditionsWith
      <3>3. PICK w \in Word : Satisfies(w, oCondition) /\ Satisfies(w, aConditions[it])
        BY <2>1, <3>1, SatisfiedTogether
      <3>4. CASE Decides(oCondition, c) \/ Decides(aConditions[it], c)
        <4>1. /\ oCondition.oExpression1 = c.oExpression1
              /\ aConditions[it].oExpression1 = c.oExpression1
              /\ \/ CompareNormalized(c, oCondition) = Always
                 \/ CompareNormalized(c, aConditions[it]) = Always
          BY <3>1, <3>4 DEF Decides, SameExpression
        <4>2. CompareNormalized(c, m) = Always
          BY <1>t, <3>1, <3>3, <4>1, MergedDecides
        <4>3. SameExpression(oCondition', c)
          BY <3>2, <4>1 DEF SameExpression, NormalConditions, ConditionsWith
        <4> HIDE DEF m
        <4> QED BY <3>1, <3>2, <4>2, <4>3 DEF StillDecided, Decides, SameExpression
      <3>5. CASE \E i \in 1..Len(aConditions) : i # it /\ Decides(aConditions[i], c)
        <4>1. PICK i \in 1..Len(aConditions) : i # it /\ Decides(aConditions[i], c)
          BY <3>5
        <4>2. /\ Len(aConditions') = Len(aConditions) - 1
              /\ Len(aConditions) \in Nat
              /\ \A j \in 1..Len(aConditions') :
                   aConditions'[j] = IF j < it THEN aConditions[j]
                                     ELSE aConditions[j + 1]
          <5>1. aConditions' = RemoveAt(aConditions, it) /\ aConditions \in Seq(Entries)
            BY <2>3, <2>6 DEF Narrow, EraseEntry, TypeOK
          <5>2. it \in 1..Len(aConditions)
            BY <3>1
          <5> HIDE DEF m
          <5> QED BY <5>1, <5>2, Erased
        <4>3. PICK j \in 1..Len(aConditions') : aConditions'[j] = aConditions[i]
          <5>1. CASE i < it
            BY <3>1, <4>1, <4>2, <5>1
          <5>2. CASE i > it
            <6>1. i - 1 \in 1..Len(aConditions') /\ ~(i - 1 < it) /\ (i - 1) + 1 = i
              BY <3>1, <4>1, <4>2, <5>2
            <6> QED BY <4>2, <6>1
          <5> QED BY <3>1, <4>1, <5>1, <5>2
        <4> QED BY <4>1, <4>3 DEF StillDecided, Decides, SameExpression
      <3> QED BY <2>2, <3>4, <3>5 DEF StillDecided
    <2>7. CASE NextEntry
      BY <2>2, <2>7 DEF NextEntry, StillDecided, Merging, Decides, SameExpression
    <2>8. CASE AppendCondition
      <3>1. /\ aConditions' = Append(aConditions, oCondition)
            /\ aConditions \in Seq(Entries) /\ oCondition \in Entries
        BY <2>3, <2>8 DEF AppendCondition, Merging, TypeOK, Entries
      <3>2. /\ Len(aConditions') = Len(aConditions) + 1
            /\ \A i \in 1..Len(aConditions) : aConditions'[i] = aConditions[i]
            /\ aConditions'[Len(aConditions) + 1] = oCondition
            /\ Len(aConditions) \in Nat
        BY <3>1
      <3>3. PICK j \in 1..Len(aConditions') : Decides(aConditions'[j], c)
        BY <2>2, <3>2 DEF StillDecided
      <3> QED BY <3>3 DEF StillDecided, Decides, SameExpression
    <2> QED BY <1>2, <2>4, <2>5, <2>6, <2>7, <2>8 DEF MergeStep
  <1>3. CASE UNCHANGED vars
    <2>1. Feasible # {} /\ c \in introduced
      BY <1>3 DEF vars, Feasible
    <2>2. StillDecided(c)
      BY <2>1 DEF DecidedWhileMerging
    <2> QED BY <1>3, <2>2 DEF vars, StillDecided, Merging, Decides, SameExpression
  <1> QED BY <1>1, <1>2, <1>3 DEF Next

(***************************************************************************)
(* Once decided, a condition stays decided: on a feasible path IsSatisfied  *)
(* answers ALWAYS for every condition introduced, signed <= excepted.       *)
(***************************************************************************)
THEOREM PredicateDecidedOnce == SafeSpec => []DecidedOnce
  <1>1. Init => DecidedWhileMerging
    BY DEF Init, DecidedWhileMerging
  <1>2. IInv /\ DecidedWhileMerging => DecidedOnce
    <2> SUFFICES ASSUME IInv, DecidedWhileMerging, ~Merging, Feasible # {},
                        NEW c \in introduced, c.eOperator # "LE"
                 PROVE  IsSatisfied(c) = "ALWAYS"
      BY DEF DecidedOnce
    <2>1. TypeOK /\ c \in NormalConditions
      BY DEF IInv, TypeOK
    <2>2. PICK k \in 1..Len(aConditions) : Decides(aConditions[k], c)
      BY DEF DecidedWhileMerging, StillDecided
    <2>3. DecidedBy(c) # {} /\ DecidedBy(c) \subseteq Nat
      BY <2>2 DEF DecidedBy, Decides
    <2>4. PICK val \in Valuations : Holds(c, val) /\ AdmittedByAll(val)
      BY DEF IInv, ExactWhileMerging, Feasible
    <2>5. ASSUME NEW i \in DecidedBy(c)
          PROVE  CompareNormalized(c, aConditions[i]) = Always
      <3>1. /\ i \in 1..Len(aConditions) /\ SameExpression(aConditions[i], c)
            /\ CompareNormalized(c, aConditions[i]) \in {Always, Never}
        BY DEF DecidedBy
      <3>2. /\ aConditions[i] \in NormalConditions
            /\ aConditions[i].oExpression1 = c.oExpression1
        BY <2>1, <3>1 DEF SameExpression, TypeOK, Entries, FalseCondition
      <3>3. SoundAnswer(CompareNormalized(c, aConditions[i]), c, aConditions[i])
        BY <2>1, <3>2, CompareNormalizedSound
      <3>4. Holds(aConditions[i], val)
        BY <2>4, <3>1 DEF AdmittedByAll
      <3>5. CompareNormalized(c, aConditions[i]) # Never
        BY <2>1, <2>4, <3>2, <3>3, <3>4, HoldsNormal
        DEF SoundAnswer, Never, Always, NotMergable, Answer
      <3> QED BY <3>1, <3>5
    <2>6. PICK i \in DecidedBy(c) : \A j \in DecidedBy(c) : ~(<<j, i>> \in OpToRel(<, Nat))
      BY <2>3, NatLessThanWellFounded, WFMin
    <2>7. \A j \in DecidedBy(c) : i <= j
      <3>1. ASSUME NEW j \in DecidedBy(c) PROVE ~(j < i)
        BY <2>3, <2>6 DEF OpToRel
      <3>2. \A j \in DecidedBy(c) : j \in Nat
        BY <2>3
      <3> QED BY <3>1, <3>2
    <2>8. FirstAnswer(c, Always)
      BY <2>5, <2>7 DEF FirstAnswer
    <2>9. c.eSpecial = "NORMAL"
      BY <2>1 DEF NormalConditions, ConditionsWith
    <2> QED BY <2>8, <2>9 DEF IsSatisfied
  <1>3. SafeSpec => []DecidedWhileMerging
    BY <1>1, DecidedStep, Invariance, PTL DEF SafeSpec
  <1> QED BY <1>2, <1>3, Invariance, PTL
=============================================================================
