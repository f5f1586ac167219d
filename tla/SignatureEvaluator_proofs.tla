----------------------- MODULE SignatureEvaluator_proofs -----------------------
(***************************************************************************)
(* Theorems about SignatureEvaluator, for every signature and every graph   *)
(* that it may be given: the calls of Pass2Recurse undo what they did, what *)
(* is found is a match, and no match is missed.                             *)
(***************************************************************************)
EXTENDS SignatureEvaluator, FiniteSetTheorems, WellFoundedInduction, TLAPS

-----------------------------------------------------------------------------
(* Numbers *)

\* The least number of a set.
LEMMA LeastNumber ==
  ASSUME NEW T, T \subseteq Nat, T # {}
  PROVE  \E x \in T : \A y \in T : x <= y
<1>1. PICK x \in T : \A y \in T : ~(<<y, x>> \in OpToRel(<, Nat))
  BY NatLessThanWellFounded, WFMin
<1>2. \A y \in T : ~(y < x)
  BY <1>1 DEF OpToRel
<1> QED
  BY <1>2

(***************************************************************************)
(* Recursion that goes from x to g[x] until it stops: there is such a       *)
(* function, whether or not it comes to an end.                             *)
(***************************************************************************)
IsFunctionOn(f, D) == f = [x \in D |-> f[x]]
IsRecursion(D, stop, g, out) == g \in [D -> D] /\ stop \subseteq D
Computes(f, D, stop, g, out) ==
  /\ IsFunctionOn(f, D)
  /\ \A x \in D : f[x] = IF x \in stop THEN out[x] ELSE f[g[x]]

LEMMA RecursionExists ==
  ASSUME NEW D, NEW stop, NEW g, NEW out, IsRecursion(D, stop, g, out)
  PROVE  \E f : Computes(f, D, stop, g, out)
<1> USE DEF IsRecursion
<1> DEFINE Closed(C) == \A z \in C : z \in stop \/ g[z] \in C
           Reach(x) == {y \in D : \A C \in SUBSET D : x \in C /\ Closed(C) => y \in C}
           f == [x \in D |-> out[CHOOSE y : y \in Reach(x) \cap stop]]
<1>1. ASSUME NEW x \in D, x \in stop
      PROVE  Reach(x) \cap stop = {x}
  <2>1. {x} \in SUBSET D /\ Closed({x})
    BY <1>1
  <2>2. Reach(x) \subseteq {x}
    BY <2>1
  <2>3. x \in Reach(x)
    OBVIOUS
  <2> QED  BY <1>1, <2>2, <2>3
<1>2. ASSUME NEW x \in D, x \notin stop
      PROVE  Reach(x) \cap stop = Reach(g[x]) \cap stop
  <2>1. ASSUME NEW y \in Reach(x), y \in stop, NEW C \in SUBSET D, g[x] \in C, Closed(C)
        PROVE  y \in C
    <3>1. x \in C \cup {x} /\ Closed(C \cup {x}) /\ C \cup {x} \in SUBSET D
      BY <2>1
    <3>2. y \in C \cup {x}
      BY <3>1
    <3> QED  BY <1>2, <2>1, <3>2
  <2>2. ASSUME NEW y \in Reach(g[x]), NEW C \in SUBSET D, x \in C, Closed(C)
        PROVE  y \in C
    <3>1. g[x] \in C
      BY <1>2, <2>2
    <3> QED  BY <2>2, <3>1
  <2> QED  BY <2>1, <2>2
<1>3. ASSUME NEW x \in D
      PROVE  f[x] = IF x \in stop THEN out[x] ELSE f[g[x]]
  <2>1. CASE x \in stop
    <3>1. (CHOOSE y : y \in Reach(x) \cap stop) = x
      BY <1>1, <2>1
    <3> QED  BY <2>1, <3>1
  <2>2. CASE x \notin stop
    <3>1. f[x] = out[CHOOSE y : y \in Reach(x) \cap stop]
      OBVIOUS
    <3>2. f[g[x]] = out[CHOOSE y : y \in Reach(g[x]) \cap stop]
      OBVIOUS
    <3>3. Reach(x) \cap stop = Reach(g[x]) \cap stop
      BY <1>2, <2>2
    <3> HIDE DEF Reach, f
    <3> QED  BY <2>2, <3>1, <3>2, <3>3
  <2> QED  BY <2>1, <2>2
<1>4. IsFunctionOn(f, D)
  BY DEF IsFunctionOn
<1> HIDE DEF f
<1> QED  BY <1>3, <1>4 DEF Computes

(***************************************************************************)
(* What the recursion returns, when a measure decreases with every step: it *)
(* stops, in the set C that the steps do not leave.                         *)
(***************************************************************************)
Decreases(mu, C, stop, g) ==
  /\ \A x \in C : mu[x] \in Nat
  /\ \A x \in C \ stop : g[x] \in C /\ mu[g[x]] < mu[x]

LEMMA RecursionEnds ==
  ASSUME NEW D, NEW stop, NEW g, NEW out, NEW f, Computes(f, D, stop, g, out),
         NEW C, NEW mu, C \subseteq D, Decreases(mu, C, stop, g)
  PROVE  \A x \in C : \E y \in C \cap stop : f[x] = out[y]
<1> USE DEF Computes, Decreases
<1> DEFINE Ends(x) == \E y \in C \cap stop : f[x] = out[y]
           Bad == {k \in Nat : \E x \in C : mu[x] = k /\ ~Ends(x)}
<1>1. ASSUME NEW x \in C, x \in stop
      PROVE  f[x] = out[x]
  BY <1>1
<1>2. ASSUME NEW x \in C, x \notin stop
      PROVE  f[x] = f[g[x]]
  BY <1>2
<1>3. SUFFICES ASSUME Bad # {}
               PROVE  FALSE
  <2>1. ASSUME Bad = {}, NEW x \in C
        PROVE  Ends(x)
    <3>1. mu[x] \in Nat /\ mu[x] \notin Bad
      BY <2>1
    <3> HIDE DEF Ends
    <3> QED  BY <3>1
  <2> QED  BY <2>1
<1>4. PICK k \in Bad : \A j \in Bad : k <= j
  BY <1>3, LeastNumber
<1>5. PICK x \in C : mu[x] = k /\ ~Ends(x)
  OBVIOUS
<1>6. x \notin stop
  BY <1>1, <1>5
<1>7. g[x] \in C /\ mu[g[x]] < mu[x] /\ f[x] = f[g[x]] /\ mu[g[x]] \in Nat /\ mu[x] \in Nat
  BY <1>2, <1>6
<1>8. ~Ends(g[x])
  BY <1>5, <1>7
<1>9. mu[g[x]] \in Bad
  <2> HIDE DEF Ends
  <2> QED  BY <1>7, <1>8
<1>10. k <= mu[g[x]]
  <2> HIDE DEF Bad
  <2> QED  BY <1>4, <1>9
<1> QED  BY <1>5, <1>7, <1>10

-----------------------------------------------------------------------------
(* Rows of the matrix *)

\* A number of a row, or none.
LEMMA LowestType ==
  ASSUME NEW S, S \subseteq Nat
  PROVE  /\ S = {} => Lowest(S) = None
         /\ S # {} => Lowest(S) \in S /\ \A d \in S : Lowest(S) <= d
         /\ Lowest(S) \in S \cup {None}
<1>1. S # {} => \E c \in S : \A d \in S : c <= d
  BY LeastNumber
<1> QED  BY <1>1 DEF Lowest

\* A number is known by its word and its bit.
LEMMA WordAndBit ==
  ASSUME NEW c \in Nat, NEW d \in Nat
  PROVE  /\ Block(c) \in Nat /\ Bit(c) \in 0..(BlockSize - 1)
         /\ c = BlockSize * Block(c) + Bit(c)
         /\ Block(c) = Block(d) /\ Bit(c) = Bit(d) => c = d
         /\ Block(c) < Block(d) => c < d
         /\ Block(c) = Block(d) /\ Bit(c) < Bit(d) => c < d
<1>1. \A n \in Nat : /\ Block(n) \in Nat /\ Bit(n) \in 0..(BlockSize - 1)
                     /\ n = BlockSize * Block(n) + Bit(n)
  BY BlockSizeAssumption, SMTT(20) DEF Block, Bit
<1>2. ASSUME Block(c) < Block(d)
      PROVE  c < d
  <2> DEFINE k == Block(d) - Block(c) - 1
  <2>1. k \in Nat /\ Block(d) = Block(c) + 1 + k /\ Block(c) \in Nat
    BY <1>1, <1>2
  <2>2. BlockSize * k >= 0 /\ BlockSize * k \in Int
    <3> HIDE DEF k
    <3> QED  BY <2>1, BlockSizeAssumption
  <2>3. BlockSize * (Block(c) + 1 + k) = BlockSize * Block(c) + BlockSize + BlockSize * k
    <3> HIDE DEF k
    <3> QED  BY <2>1, BlockSizeAssumption
  <2>4. BlockSize * Block(c) + BlockSize <= BlockSize * Block(d)
    <3> HIDE DEF k
    <3>1. BlockSize * Block(c) \in Int
      BY <2>1, BlockSizeAssumption
    <3> QED  BY <2>1, <2>2, <2>3, <3>1, BlockSizeAssumption
  <2> QED  BY <1>1, <2>4, BlockSizeAssumption
<1>3. Block(c) = Block(d) /\ Bit(c) = Bit(d) => c = d
  BY <1>1
<1>4. ASSUME Block(c) = Block(d), Bit(c) < Bit(d)
      PROVE  c < d
  <2>1. BlockSize * Block(c) = BlockSize * Block(d) /\ BlockSize * Block(c) \in Int
    BY <1>1, <1>4, BlockSizeAssumption
  <2>2. Bit(c) \in Int /\ Bit(d) \in Int
    BY <1>1, BlockSizeAssumption
  <2> QED  BY <1>1, <1>4, <2>1, <2>2
<1> QED  BY <1>1, <1>2, <1>3, <1>4

\* The candidates behind another are greater.
LEMMA AfterGreater ==
  ASSUME NEW row, row \subseteq Nat, NEW c \in Nat
  PROVE  After(row, c) \subseteq {d \in row : c < d}
<1> DEFINE words == {Block(d) : d \in {e \in row : Block(e) >= Block(c)}}
<1>1. words \subseteq Nat /\ \A w \in words : w >= Block(c)
  BY WordAndBit
<1>2. ASSUME NEW d \in After(row, c)
      PROVE  d \in row /\ c < d
  <2>1. /\ d \in row
        /\ \/ Block(d) = Lowest(words) /\ Bit(d) > Bit(c)
           \/ words # {} /\ Block(d) > Lowest(words)
    BY DEF After
  <2>2. words # {} => Lowest(words) \in Nat /\ Lowest(words) >= Block(c)
    <3> HIDE DEF words
    <3> QED  BY <1>1, LowestType
  <2>3. words = {} => Lowest(words) = None
    <3> HIDE DEF words
    <3> QED  BY <1>1, LowestType
  <2>4. words # {}
    <3> HIDE DEF words
    <3> QED  BY <2>1, <2>3, WordAndBit DEF None
  <2> HIDE DEF words
  <2>5. Block(c) <= Block(d) /\ (Block(c) = Block(d) => Bit(c) < Bit(d))
    BY <2>1, <2>2, <2>4, WordAndBit
  <2> QED  BY <2>1, <2>5, WordAndBit
<1> QED  BY <1>2

(***************************************************************************)
(* Sweep looks at each candidate it meets once, and ends: what the loop     *)
(* does not leave, C, is what it ends in.                                   *)
(***************************************************************************)
Sweeping(row) == (SUBSET row) \X (row \cup {None})
Swept(at, kept) ==
  LET left == IF at[2] \in kept THEN at[1] ELSE at[1] \ {at[2]}
  IN <<left, Lowest(After(left, at[2]))>>

LEMMA SweptType ==
  ASSUME NEW row, row \subseteq Nat, NEW kept, NEW at \in Sweeping(row)
  PROVE  /\ Swept(at, kept) \in Sweeping(row)
         /\ Swept(at, kept)[1] = IF at[2] \in kept THEN at[1] ELSE at[1] \ {at[2]}
         /\ Swept(at, kept)[2] = Lowest(After(Swept(at, kept)[1], at[2]))
         /\ at[2] # None /\ Swept(at, kept)[2] # None => at[2] < Swept(at, kept)[2]
<1> DEFINE left == IF at[2] \in kept THEN at[1] ELSE at[1] \ {at[2]}
<1>1. Swept(at, kept) = <<left, Lowest(After(left, at[2]))>>
  BY DEF Swept
<1>2. left \subseteq row /\ left \subseteq Nat /\ at[1] \subseteq row /\ at[2] \in row \cup {None}
  BY DEF Sweeping
<1>3. After(left, at[2]) \subseteq left
  BY DEF After
<1> HIDE DEF left
<1>4. After(left, at[2]) \subseteq Nat
  BY <1>2, <1>3
<1>5. Lowest(After(left, at[2])) \in After(left, at[2]) \cup {None}
  BY <1>4, LowestType
<1>6. ASSUME at[2] # None, Lowest(After(left, at[2])) # None
      PROVE  at[2] < Lowest(After(left, at[2]))
  <2>1. at[2] \in Nat
    BY <1>2, <1>6
  <2>2. After(left, at[2]) \subseteq {d \in left : at[2] < d}
    BY <1>2, <2>1, AfterGreater
  <2> QED  BY <1>5, <1>6, <2>2
<1> QED
  <2>1. Swept(at, kept)[1] = left /\ Swept(at, kept)[2] = Lowest(After(left, at[2]))
    BY <1>1
  <2>2. Swept(at, kept) \in Sweeping(row)
    BY <1>1, <1>2, <1>3, <1>5 DEF Sweeping
  <2> QED  BY <1>6, <2>1, <2>2 DEF left

LEMMA SweepEnds ==
  ASSUME NEW row, row \subseteq Nat, IsFiniteSet(row), NEW kept,
         NEW C \in SUBSET Sweeping(row), <<row, Lowest(row)>> \in C,
         \A at \in C : at[2] # None => Swept(at, kept) \in C
  PROVE  \E at \in C : at[2] = None /\ Sweep(row, kept) = at[1]
<1> DEFINE D == Sweeping(row)
           g == [at \in D |-> Swept(at, kept)]
           stop == {at \in D : at[2] = None}
           out == [at \in D |-> at[1]]
           behind(c) == {d \in row : c < d}
           mu == [at \in C |-> IF at[2] = None THEN 0 ELSE 1 + Cardinality(behind(at[2]))]
           sweep[at \in (SUBSET row) \X (row \cup {None})] ==
             LET left == IF at[2] \in kept THEN at[1] ELSE at[1] \ {at[2]}
             IN IF at[2] = None THEN at[1] ELSE sweep[<<left, Lowest(After(left, at[2]))>>]
<1>1. IsRecursion(D, stop, g, out)
  BY SweptType DEF IsRecursion
<1>2. \A at \in D : g[at] = Swept(at, kept) /\ (at \in stop <=> at[2] = None) /\ out[at] = at[1]
  OBVIOUS
<1>3. PICK f : Computes(f, D, stop, g, out)
  <2> HIDE DEF D, g, stop, out
  <2> QED  BY <1>1, RecursionExists
<1>4. Sweep(row, kept) = sweep[<<row, Lowest(row)>>]
  BY DEF Sweep
<1>5. Computes(sweep, D, stop, g, out)
  <2>1. \A at \in D : f[at] = IF at[2] = None THEN at[1] ELSE f[Swept(at, kept)]
    <3> HIDE DEF D, g, stop, out
    <3> QED  BY <1>2, <1>3 DEF Computes
  <2>2. f = [at \in D |-> IF at[2] = None THEN at[1] ELSE f[Swept(at, kept)]]
    <3> HIDE DEF D
    <3> QED  BY <1>3, <2>1 DEF Computes, IsFunctionOn
  <2>3. f = [at \in (SUBSET row) \X (row \cup {None}) |->
                  LET left == IF at[2] \in kept THEN at[1] ELSE at[1] \ {at[2]}
                  IN IF at[2] = None THEN at[1] ELSE f[<<left, Lowest(After(left, at[2]))>>]]
    BY <2>2 DEF Sweeping, Swept
  <2>4. sweep = [at \in (SUBSET row) \X (row \cup {None}) |->
                  LET left == IF at[2] \in kept THEN at[1] ELSE at[1] \ {at[2]}
                  IN IF at[2] = None THEN at[1] ELSE sweep[<<left, Lowest(After(left, at[2]))>>]]
    BY <2>3, Zenon
  <2> HIDE DEF sweep
  <2>5. \A at \in D : sweep[at] = IF at[2] = None THEN at[1] ELSE sweep[Swept(at, kept)]
    BY <2>4 DEF Sweeping, Swept
  <2>6. IsFunctionOn(sweep, D)
    BY <2>4 DEF Sweeping, IsFunctionOn
  <2> HIDE DEF D, g, stop, out
  <2> QED  BY <1>2, <2>5, <2>6 DEF Computes
<1>6. \A at \in C : mu[at] = IF at[2] = None THEN 0 ELSE 1 + Cardinality(behind(at[2]))
  OBVIOUS
<1>7. \A c : IsFiniteSet(behind(c)) /\ Cardinality(behind(c)) \in Nat
  BY FS_Subset, FS_CardinalityType
<1>8. ASSUME NEW c \in row, NEW d \in row, c < d
       PROVE  Cardinality(behind(d)) < Cardinality(behind(c))
  <2>1. behind(d) \subseteq behind(c) /\ d \in behind(c) /\ d \notin behind(d)
    <3>1. c \in Nat /\ d \in Nat
      OBVIOUS
    <3>2. \A e \in row : e \in Nat /\ (d < e => c < e)
      BY <1>8, <3>1
    <3>3. behind(d) \subseteq behind(c)
      BY <3>2
    <3>4. d \in behind(c)
      BY <1>8
    <3>5. ~(d < d)
      BY <3>1
    <3> QED  BY <3>3, <3>4, <3>5
  <2> HIDE DEF behind
  <2> QED  BY <1>7, <2>1, FS_Subset
<1>9. \A at \in C : at \notin stop => g[at] \in C /\ mu[g[at]] < mu[at]
  <2> SUFFICES ASSUME NEW at \in C, at \notin stop
               PROVE  g[at] \in C /\ mu[g[at]] < mu[at]
    OBVIOUS
  <2>1. at \in D /\ at[2] \in row /\ at[2] # None /\ g[at] = Swept(at, kept)
    BY <1>2 DEF Sweeping
  <2>2. g[at] \in C
    BY <2>1
  <2>3. g[at][2] # None => g[at][2] \in row /\ at[2] < g[at][2]
    <3>1. Swept(at, kept) \in Sweeping(row) /\ (Swept(at, kept)[2] # None => at[2] < Swept(at, kept)[2])
      <4> HIDE DEF g, stop, mu, behind
      <4> QED  BY <2>1, SweptType
    <3>2. Swept(at, kept)[2] \in row \cup {None}
      BY <3>1 DEF Sweeping
    <3> HIDE DEF D, g, stop, mu, behind
    <3> QED  BY <2>1, <3>1, <3>2
  <2> HIDE DEF D, g, stop, mu, behind
  <2>4. mu[at] = 1 + Cardinality(behind(at[2]))
    BY <1>6, <2>1
  <2>5. g[at][2] = None => mu[g[at]] = 0
    BY <1>6, <2>2
  <2>6. g[at][2] # None => mu[g[at]] = 1 + Cardinality(behind(g[at][2]))
    BY <1>6, <2>2
  <2>7. g[at][2] # None => Cardinality(behind(g[at][2])) < Cardinality(behind(at[2]))
    BY <1>8, <2>1, <2>3
  <2> QED  BY <1>7, <2>2, <2>4, <2>5, <2>6, <2>7
<1>10. Decreases(mu, C, stop, g)
  <2>1. \A at \in C : mu[at] \in Nat
    <3> HIDE DEF mu, behind
    <3> QED  BY <1>6, <1>7
  <2> HIDE DEF mu, g, stop
  <2> QED  BY <1>9, <2>1 DEF Decreases
<1>11. \A at \in C : \E y \in C \cap stop : sweep[at] = out[y]
  <2> HIDE DEF D, g, stop, out, mu, sweep
  <2>1. C \subseteq D
    BY DEF D
  <2> QED  BY <1>5, <1>10, <2>1, RecursionEnds
<1>12. PICK y \in C \cap stop : sweep[<<row, Lowest(row)>>] = out[y]
  <2> HIDE DEF D, g, stop, out, mu, sweep
  <2> QED  BY <1>11
<1>13. y[2] = None /\ out[y] = y[1]
  BY <1>12
<1> HIDE DEF sweep, out, stop, D
<1> QED  BY <1>4, <1>12, <1>13

-----------------------------------------------------------------------------
(* Matrices *)

\* n has no candidates that m has not.
Below(n, m) == \A s \in SignatureNodes : n[s] \subseteq m[s]
Pairs(n) == {p \in SignatureNodes \X CodeNodes : p[2] \in n[p[1]]}

LEMMA PairsOrdered ==
  ASSUME IsFiniteSet(SignatureNodes), IsFiniteSet(CodeNodes),
         NEW n \in Matrices, NEW m \in Matrices, Below(n, m), n # m
  PROVE  /\ Cardinality(Pairs(n)) \in Nat /\ Cardinality(Pairs(m)) \in Nat
         /\ Cardinality(Pairs(n)) < Cardinality(Pairs(m))
         /\ Cardinality(Pairs(m)) <= Cardinality(SignatureNodes \X CodeNodes)
         /\ Cardinality(SignatureNodes \X CodeNodes) \in Nat
<1> DEFINE All == SignatureNodes \X CodeNodes
<1>1. IsFiniteSet(All) /\ Cardinality(All) \in Nat
  BY FS_Product, FS_CardinalityType
<1>2. Pairs(n) \subseteq Pairs(m) /\ Pairs(m) \subseteq All
  BY DEF Pairs, Below
<1>3. PICK s \in SignatureNodes : n[s] # m[s]
  BY DEF Matrices
<1>4. PICK c \in m[s] : c \notin n[s]
  BY <1>3 DEF Below
<1>5. <<s, c>> \in Pairs(m) /\ <<s, c>> \notin Pairs(n)
  BY <1>4 DEF Pairs, Matrices
<1> HIDE DEF All
<1>6. IsFiniteSet(Pairs(m)) /\ Cardinality(Pairs(m)) <= Cardinality(All)
  BY <1>1, <1>2, FS_Subset
<1>7. IsFiniteSet(Pairs(n)) /\ Cardinality(Pairs(n)) < Cardinality(Pairs(m))
  BY <1>2, <1>5, <1>6, FS_Subset, FS_CardinalityType
<1>8. Cardinality(Pairs(n)) \in Nat /\ Cardinality(Pairs(m)) \in Nat
  BY <1>6, <1>7, FS_CardinalityType
<1> QED  BY <1>1, <1>6, <1>7, <1>8 DEF All

(***************************************************************************)
(* A step that only removes candidates, or only adds some, comes to rest:   *)
(* with a matrix of any set C that it does not leave.                       *)
(***************************************************************************)
IsStep(step, C) ==
  /\ step \in [Matrices -> Matrices] /\ C \subseteq Matrices
  /\ \A n \in C : step[n] \in C
  /\ \/ \A n \in C : Below(step[n], n)
     \/ \A n \in C : Below(n, step[n])

LEMMA SettleEnds ==
  ASSUME IsFiniteSet(SignatureNodes), IsFiniteSet(CodeNodes),
         NEW step, NEW C, IsStep(step, C), NEW m \in C
  PROVE  Settle(m, step) \in C /\ step[Settle(m, step)] = Settle(m, step)
<1> DEFINE stop == {n \in Matrices : step[n] = n}
           out == [n \in Matrices |-> n]
           shrinks == \A n \in C : Below(step[n], n)
           all == Cardinality(SignatureNodes \X CodeNodes)
           mu == [n \in C |-> IF shrinks THEN Cardinality(Pairs(n)) ELSE all - Cardinality(Pairs(n))]
           settle[n \in Matrices] == IF step[n] = n THEN n ELSE settle[step[n]]
<1>1. step \in [Matrices -> Matrices] /\ C \subseteq Matrices /\ (\A n \in C : step[n] \in C)
  BY DEF IsStep
<1>2. IsRecursion(Matrices, stop, step, out)
  BY <1>1 DEF IsRecursion
<1>3. \A n \in Matrices : out[n] = n /\ (n \in stop <=> step[n] = n)
  OBVIOUS
<1>4. Settle(m, step) = settle[m]
  BY DEF Settle
<1>5. Computes(settle, Matrices, stop, step, out)
  <2>1. PICK f : Computes(f, Matrices, stop, step, out)
    <3> HIDE DEF stop, out
    <3> QED  BY <1>2, RecursionExists
  <2>2. f = [n \in Matrices |-> IF step[n] = n THEN n ELSE f[step[n]]]
    <3>1. \A n \in Matrices : f[n] = IF step[n] = n THEN n ELSE f[step[n]]
      <4> HIDE DEF stop, out
      <4> QED  BY <1>3, <2>1 DEF Computes
    <3> QED  BY <2>1, <3>1 DEF Computes, IsFunctionOn
  <2>3. settle = [n \in Matrices |-> IF step[n] = n THEN n ELSE settle[step[n]]]
    BY <2>2, Zenon
  <2> HIDE DEF settle
  <2>4. IsFunctionOn(settle, Matrices)
    BY <2>3 DEF IsFunctionOn
  <2>5. \A n \in Matrices : settle[n] = IF step[n] = n THEN n ELSE settle[step[n]]
    BY <2>3
  <2> HIDE DEF stop, out
  <2> QED  BY <1>3, <2>4, <2>5 DEF Computes
<1>6. ASSUME NEW n \in Matrices
      PROVE  /\ Cardinality(Pairs(n)) \in Nat
             /\ all - Cardinality(Pairs(n)) \in Nat
  <2>1. IsFiniteSet(SignatureNodes \X CodeNodes) /\ all \in Nat
    BY FS_Product, FS_CardinalityType
  <2>2. Pairs(n) \subseteq SignatureNodes \X CodeNodes
    BY DEF Pairs
  <2>3. IsFiniteSet(Pairs(n)) /\ Cardinality(Pairs(n)) <= all /\ Cardinality(Pairs(n)) \in Nat
    BY <2>1, <2>2, FS_Subset, FS_CardinalityType
  <2> HIDE DEF all
  <2> QED  BY <2>1, <2>3
<1>7. Decreases(mu, C, stop, step)
  <2>1. \A n \in C : mu[n] = IF shrinks THEN Cardinality(Pairs(n)) ELSE all - Cardinality(Pairs(n))
    OBVIOUS
  <2>2. all \in Nat
    BY FS_Product, FS_CardinalityType
  <2>3. ASSUME NEW n \in C \ stop
        PROVE  step[n] \in C /\ mu[step[n]] < mu[n]
    <3>1. n \in Matrices /\ step[n] \in Matrices /\ step[n] \in C /\ step[n] # n
      BY <1>1
    <3> HIDE DEF mu, stop, all
    <3>2. CASE shrinks
      <4>1. Below(step[n], n)
        BY <3>2
      <4>2. Cardinality(Pairs(step[n])) < Cardinality(Pairs(n))
        BY <3>1, <4>1, PairsOrdered
      <4> QED  BY <2>1, <3>1, <3>2, <4>2
    <3>3. CASE ~shrinks
      <4>1. Below(n, step[n])
        BY <3>3 DEF IsStep
      <4>2. Cardinality(Pairs(n)) < Cardinality(Pairs(step[n]))
        BY <3>1, <4>1, PairsOrdered
      <4>3. mu[n] = all - Cardinality(Pairs(n)) /\ mu[step[n]] = all - Cardinality(Pairs(step[n]))
        BY <2>1, <3>1, <3>3
      <4> QED  BY <1>6, <2>2, <3>1, <4>2, <4>3
    <3> QED  BY <3>2, <3>3
  <2> HIDE DEF mu, stop, all, shrinks
  <2> QED  BY <1>1, <1>6, <2>1, <2>3 DEF Decreases
<1>8. \A n \in C : \E y \in C \cap stop : settle[n] = out[y]
  <2> HIDE DEF stop, out, mu, settle
  <2> QED  BY <1>1, <1>5, <1>7, RecursionEnds
<1> HIDE DEF mu, settle, shrinks, all
<1> QED  BY <1>1, <1>3, <1>4, <1>8

-----------------------------------------------------------------------------
(* The graphs *)

\* The graphs of a search under way are what Evaluate may be given.
Given == IsVariantGraph(oSignatureGraph) /\ IsGraph(oCodeGraph)

LEMMA GivenFacts ==
  ASSUME Given
  PROVE  /\ SignatureNodes \subseteq Nat /\ IsFiniteSet(SignatureNodes)
         /\ CodeNodes \subseteq Nat /\ IsFiniteSet(CodeNodes)
         /\ \A s \in SignatureNodes :
              /\ oSignatureGraph.inputs[s] \in Seq(SignatureNodes)
              /\ RefOf(s) \in Refs \cup {NoRef}
         /\ \A c \in CodeNodes : oCodeGraph.inputs[c] \in Seq(CodeNodes)
<1>1. /\ SignatureNodes \subseteq Nat /\ IsFiniteSet(SignatureNodes)
      /\ CodeNodes \subseteq Nat /\ IsFiniteSet(CodeNodes)
      /\ oSignatureGraph.inputs \in [SignatureNodes -> Seq(SignatureNodes)]
      /\ oCodeGraph.inputs \in [CodeNodes -> Seq(CodeNodes)]
  BY DEF Given, IsVariantGraph, IsGraph, SignatureNodes, CodeNodes
<1>2. \A s \in SignatureNodes : RefOf(s) \in Refs \cup {NoRef}
  BY DEF Given, IsVariantGraph, SignatureNodes, RefOf
<1> QED  BY <1>1, <1>2

\* The inputs of a node are nodes, by position and as a set.
LEMMA InputFacts ==
  ASSUME Given, NEW s \in SignatureNodes
  PROVE  /\ \A k \in DOMAIN oSignatureGraph.inputs[s] :
              /\ oSignatureGraph.inputs[s][k] \in SignatureNodes
              /\ oSignatureGraph.inputs[s][k] \in ToSet(oSignatureGraph.inputs[s])
         /\ ToSet(oSignatureGraph.inputs[s]) \subseteq SignatureNodes
         /\ OutputsIn(oSignatureGraph, s) \subseteq SignatureNodes
<1>1. oSignatureGraph.inputs[s] \in Seq(SignatureNodes)
  BY GivenFacts
<1>2. \A k \in DOMAIN oSignatureGraph.inputs[s] : oSignatureGraph.inputs[s][k] \in SignatureNodes
  BY <1>1
<1>3. ToSet(oSignatureGraph.inputs[s])
        = {oSignatureGraph.inputs[s][k] : k \in DOMAIN oSignatureGraph.inputs[s]}
  BY DEF ToSet
<1>4. OutputsIn(oSignatureGraph, s) \subseteq SignatureNodes
  BY DEF OutputsIn, SignatureNodes
<1> QED  BY <1>2, <1>3, <1>4

\* What supports a candidate in a matrix supports it in a larger one.
LEMMA SupportedMonotone ==
  ASSUME Given, NEW n \in Matrices, NEW m \in Matrices, Below(n, m),
         NEW s \in SignatureNodes, NEW c \in CodeNodes, Supported(n, s, c)
  PROVE  Supported(m, s, c)
<1> DEFINE ins == oSignatureGraph.inputs[s]
           outs == oCodeGraph.inputs[c]
<1>1. /\ IF InOrder(s)
         THEN Len(ins) = Len(outs) /\ \A k \in DOMAIN ins : outs[k] \in n[ins[k]]
         ELSE /\ Cardinality(ToSet(ins)) <= Cardinality(ToSet(outs))
              /\ \A e \in ToSet(ins) : n[e] \cap ToSet(outs) # {}
      /\ \A t \in OutputsIn(oSignatureGraph, s) : n[t] \cap OutputsIn(oCodeGraph, c) # {}
  BY DEF Supported
<1>2. /\ \A k \in DOMAIN ins : ins[k] \in SignatureNodes
      /\ ToSet(ins) \subseteq SignatureNodes /\ OutputsIn(oSignatureGraph, s) \subseteq SignatureNodes
  BY InputFacts
<1> HIDE DEF ins, outs
<1>3. \A t \in SignatureNodes : n[t] \subseteq m[t]
  BY DEF Below
<1>4. /\ IF InOrder(s)
         THEN Len(ins) = Len(outs) /\ \A k \in DOMAIN ins : outs[k] \in m[ins[k]]
         ELSE /\ Cardinality(ToSet(ins)) <= Cardinality(ToSet(outs))
              /\ \A e \in ToSet(ins) : m[e] \cap ToSet(outs) # {}
      /\ \A t \in OutputsIn(oSignatureGraph, s) : m[t] \cap OutputsIn(oCodeGraph, c) # {}
  <2>1. InOrder(s) => \A k \in DOMAIN ins : outs[k] \in m[ins[k]]
    BY <1>1, <1>2, <1>3
  <2>2. ~InOrder(s) => \A e \in ToSet(ins) : m[e] \cap ToSet(outs) # {}
    <3>1. ASSUME ~InOrder(s), NEW e \in ToSet(ins)
          PROVE  m[e] \cap ToSet(outs) # {}
      <4>1. n[e] \subseteq m[e] /\ n[e] \cap ToSet(outs) # {}
        BY <1>1, <1>2, <1>3, <3>1
      <4> QED  BY <4>1
    <3> QED  BY <3>1
  <2>3. ASSUME NEW t \in OutputsIn(oSignatureGraph, s)
        PROVE  m[t] \cap OutputsIn(oCodeGraph, c) # {}
    <3>1. n[t] \subseteq m[t] /\ n[t] \cap OutputsIn(oCodeGraph, c) # {}
      BY <1>1, <1>2, <1>3
    <3> QED  BY <3>1
  <2> QED  BY <1>1, <2>1, <2>2, <2>3
<1> QED  BY <1>4 DEF Supported, ins, outs

(***************************************************************************)
(* Pruned is the largest part of a matrix that supports itself.             *)
(***************************************************************************)
SelfSupporting(n) == \A s \in SignatureNodes : \A c \in n[s] : Supported(n, s, c)

LEMMA PrunedFacts ==
  ASSUME Given, NEW m \in Matrices
  PROVE  /\ Pruned(m) \in Matrices /\ Below(Pruned(m), m)
         /\ SelfSupporting(Pruned(m))
         /\ \A n \in Matrices : Below(n, m) /\ SelfSupporting(n) => Below(n, Pruned(m))
<1> DEFINE step == [n \in Matrices |-> [s \in SignatureNodes |-> {c \in n[s] : Supported(n, s, c)}]]
           Holds(k) == \A n \in Matrices : Below(n, m) /\ SelfSupporting(n) => Below(n, k)
           C == {k \in Matrices : Below(k, m) /\ Holds(k)}
<1>1. Pruned(m) = Settle(m, step)
  BY DEF Pruned
<1>2. ASSUME NEW k \in Matrices
      PROVE  /\ step[k] \in Matrices /\ Below(step[k], k)
             /\ \A s \in SignatureNodes : step[k][s] = {c \in k[s] : Supported(k, s, c)}
  <2>1. step[k] = [s \in SignatureNodes |-> {c \in k[s] : Supported(k, s, c)}]
    OBVIOUS
  <2> HIDE DEF step
  <2> QED  BY <2>1 DEF Matrices, Below
<1>3. step \in [Matrices -> Matrices]
  <2>1. step = [k \in Matrices |-> step[k]]
    OBVIOUS
  <2> HIDE DEF step
  <2> QED  BY <1>2, <2>1
<1>4. m \in C
  BY DEF Below
<1>5. ASSUME NEW k \in C
      PROVE  step[k] \in C
  <2>1. step[k] \in Matrices /\ Below(step[k], k) /\ Below(k, m) /\ k \in Matrices
    BY <1>2
  <2>2. Below(step[k], m)
    BY <2>1 DEF Below
  <2>3. ASSUME NEW n \in Matrices, Below(n, m), SelfSupporting(n)
        PROVE  Below(n, step[k])
    <3>1. Below(n, k)
      BY <2>3
    <3>2. ASSUME NEW s \in SignatureNodes, NEW c \in n[s]
          PROVE  c \in step[k][s]
      <4>1. c \in k[s] /\ c \in CodeNodes
        BY <3>1 DEF Below, Matrices
      <4>2. Supported(k, s, c)
        BY <2>1, <2>3, <3>1, <4>1, SupportedMonotone DEF SelfSupporting
      <4> HIDE DEF step, C
      <4> QED  BY <1>2, <2>1, <4>1, <4>2
    <3> HIDE DEF step, C
    <3> QED  BY <3>2 DEF Below
  <2> HIDE DEF step
  <2> QED  BY <2>1, <2>2, <2>3
<1>6. IsStep(step, C)
  <2>1. \A k \in C : Below(step[k], k)
    BY <1>2
  <2>2. C \subseteq Matrices
    OBVIOUS
  <2> HIDE DEF step, C
  <2> QED  BY <1>3, <1>5, <2>1, <2>2 DEF IsStep
<1>7. Settle(m, step) \in C /\ step[Settle(m, step)] = Settle(m, step)
  <2> HIDE DEF step, C
  <2> QED  BY <1>4, <1>6, SettleEnds, GivenFacts
<1>8. SelfSupporting(Settle(m, step))
  <2>1. Settle(m, step) \in Matrices
    BY <1>7
  <2> HIDE DEF step, C
  <2>2. \A s \in SignatureNodes :
          Settle(m, step)[s] = {c \in Settle(m, step)[s] : Supported(Settle(m, step), s, c)}
    BY <1>2, <1>7, <2>1
  <2> QED  BY <2>2 DEF SelfSupporting
<1> HIDE DEF step
<1> QED  BY <1>1, <1>7, <1>8

-----------------------------------------------------------------------------
(* What an opaque type rules out *)

\* Candidates that are in step are all come to: those behind one, though it
\* may be erased, are all that are greater.
LEMMA AfterInStep ==
  ASSUME NEW row, row \subseteq Nat, NEW c \in Nat, InStep(row \cup {c})
  PROVE  After(row, c) = {d \in row : c < d}
<1> DEFINE words == {Block(d) : d \in {e \in row : Block(e) >= Block(c)}}
<1>1. ASSUME NEW d \in row, c < d
      PROVE  d \in After(row, c)
  <2>1. d \in Nat /\ Block(d) \in Nat /\ Block(c) \in Nat
    BY WordAndBit
  <2>2. Bit(c) \in Int /\ Bit(d) \in Int
    BY <2>1, WordAndBit, BlockSizeAssumption
  <2>3. Block(c) <= Block(d)
    <3>1. ~(d < c)
      BY <1>1, <2>1
    <3> QED  BY <2>1, <3>1, WordAndBit
  <2>4. Block(d) \in words /\ words \subseteq Nat
    BY <2>1, <2>3, WordAndBit
  <2>5. Lowest(words) \in Nat /\ Lowest(words) <= Block(d)
    <3> HIDE DEF words
    <3>1. Lowest(words) \in words /\ Lowest(words) <= Block(d)
      BY <2>4, LowestType
    <3> QED  BY <2>4, <3>1
  <2>6. Bit(d) > Bit(c)
    <3>1. CASE Block(c) = Block(d)
      <4>1. ~(d < c) /\ d # c
        BY <1>1, <2>1
      <4> QED  BY <2>1, <2>2, <3>1, <4>1, WordAndBit
    <3>2. CASE Block(c) < Block(d)
      <4>1. c \in row \cup {c} /\ d \in row \cup {c}
        OBVIOUS
      <4> QED  BY <2>2, <3>2, <4>1 DEF InStep
    <3> QED  BY <2>1, <2>3, <3>1, <3>2
  <2> HIDE DEF words
  <2>7. Block(d) = Lowest(words) \/ (words # {} /\ Block(d) > Lowest(words))
    BY <2>1, <2>4, <2>5
  <2> QED  BY <2>6, <2>7 DEF After, words
<1> QED  BY <1>1, AfterGreater

\* Sweep keeps what it is to keep; of candidates in step, nothing else.
LEMMA SweepFacts ==
  ASSUME NEW row, row \subseteq Nat, IsFiniteSet(row), NEW kept
  PROVE  Sweep(row, kept) \subseteq row /\ row \cap kept \subseteq Sweep(row, kept)
<1> DEFINE C == {at \in Sweeping(row) : row \cap kept \subseteq at[1]}
<1>1. <<row, Lowest(row)>> \in C
  BY LowestType DEF Sweeping
<1>2. \A at \in C : at[2] # None => Swept(at, kept) \in C
  <2> SUFFICES ASSUME NEW at \in C
               PROVE  Swept(at, kept) \in C
    OBVIOUS
  <2>1. at \in Sweeping(row) /\ row \cap kept \subseteq at[1]
    OBVIOUS
  <2> HIDE DEF C
  <2>2. Swept(at, kept) \in Sweeping(row)
    BY <2>1, SweptType
  <2>3. Swept(at, kept)[1] = IF at[2] \in kept THEN at[1] ELSE at[1] \ {at[2]}
    BY DEF Swept
  <2> QED  BY <2>1, <2>2, <2>3 DEF C
<1>3. PICK at \in C : at[2] = None /\ Sweep(row, kept) = at[1]
  <2>1. C \in SUBSET Sweeping(row)
    OBVIOUS
  <2> HIDE DEF C
  <2> QED  BY <1>1, <1>2, <2>1, SweepEnds
<1> QED  BY <1>3 DEF Sweeping

LEMMA SweepInStep ==
  ASSUME NEW row, row \subseteq Nat, IsFiniteSet(row), NEW kept,
         InStep(row)
  PROVE  Sweep(row, kept) = row \cap kept
<1> DEFINE C == {at \in Sweeping(row) : \A d \in at[1] : at[2] = None \/ d < at[2] => d \in kept}
<1>1. <<row, Lowest(row)>> \in C
  <2>1. <<row, Lowest(row)>> \in Sweeping(row)
    BY LowestType DEF Sweeping
  <2>2. \A d \in row : Lowest(row) \in row /\ Lowest(row) <= d
    BY LowestType
  <2>3. \A d \in row : Lowest(row) # None /\ ~(d < Lowest(row))
    <3>1. \A d \in row : d \in Nat /\ Lowest(row) \in Nat
      BY <2>2
    <3> QED  BY <2>2, <3>1 DEF None
  <2> QED  BY <2>1, <2>3
<1>2. \A at \in C : at[2] # None => Swept(at, kept) \in C
  <2> SUFFICES ASSUME NEW at \in C, at[2] # None
               PROVE  Swept(at, kept) \in C
    OBVIOUS
  <2> DEFINE next == Swept(at, kept)
             c == at[2]
  <2>1. at \in Sweeping(row) /\ (\A d \in at[1] : d < c => d \in kept)
    OBVIOUS
  <2>2. /\ next \in Sweeping(row)
        /\ next[1] = IF c \in kept THEN at[1] ELSE at[1] \ {c}
        /\ next[2] = Lowest(After(next[1], c))
    BY <2>1, SweptType
  <2>3. c \in row /\ c \in Nat /\ next[1] \subseteq at[1] /\ next[1] \subseteq row /\ next[1] \subseteq Nat
    BY <2>1, <2>2 DEF Sweeping
  <2> HIDE DEF next, C
  <2>4. After(next[1], c) = {d \in next[1] : c < d}
    <3>1. InStep(next[1] \cup {c})
      BY <2>3 DEF InStep
    <3> QED  BY <2>3, <3>1, AfterInStep
  <2>5. ASSUME NEW d \in next[1], next[2] = None \/ d < next[2]
        PROVE  d \in kept
    <3>1. d \in Nat /\ d \in at[1]
      BY <2>3
    <3>2. ~(c < d)
      <4>1. CASE c < d
        <5>1. d \in After(next[1], c) /\ After(next[1], c) \subseteq Nat
          BY <2>3, <2>4, <4>1
        <5>2. next[2] \in After(next[1], c) /\ next[2] <= d
          BY <2>2, <5>1, LowestType
        <5>3. next[2] # None /\ ~(d < next[2])
          BY <3>1, <5>1, <5>2 DEF None
        <5> QED  BY <2>5, <5>3
      <4> QED  BY <4>1
    <3>3. CASE d = c
      BY <2>2, <3>3
    <3>4. CASE d < c
      BY <2>1, <3>1, <3>4
    <3> QED  BY <2>3, <3>1, <3>2, <3>3, <3>4
  <2> QED  BY <2>2, <2>5 DEF C, next
<1>3. PICK at \in C : at[2] = None /\ Sweep(row, kept) = at[1]
  <2>1. C \in SUBSET Sweeping(row)
    OBVIOUS
  <2> HIDE DEF C
  <2> QED  BY <1>1, <1>2, <2>1, SweepEnds
<1>4. \A d \in at[1] : d \in kept
  BY <1>3
<1>5. Sweep(row, kept) \subseteq row /\ row \cap kept \subseteq Sweep(row, kept)
  BY SweepFacts
<1> QED  BY <1>3, <1>4, <1>5

\* What the claim for s and c leaves of a matrix.
LEMMA ClaimedFacts ==
  ASSUME Given, NEW m \in Matrices, NEW s \in SignatureNodes, NEW c \in CodeNodes
  PROVE  /\ Claimed(m, s, c) \in Matrices /\ Below(Claimed(m, s, c), m)
         /\ Settled(m, s, c) \in Matrices /\ Below(Settled(m, s, c), m)
<1>1. ASSUME NEW n \in Matrices
      PROVE  Claimed(n, s, c) \in Matrices /\ Below(Claimed(n, s, c), n)
  <2>1. \A t \in SignatureNodes :
          Sweep(n[t], {d \in CodeNodes : TypeSpec(d) = TypeSpec(c)}) \subseteq n[t]
    <3> SUFFICES ASSUME NEW t \in SignatureNodes
                 PROVE  Sweep(n[t], {d \in CodeNodes : TypeSpec(d) = TypeSpec(c)}) \subseteq n[t]
      OBVIOUS
    <3>1. n[t] \subseteq CodeNodes
      BY DEF Matrices
    <3>2. n[t] \subseteq Nat /\ IsFiniteSet(n[t])
      BY <3>1, GivenFacts, FS_Subset
    <3> QED  BY <3>2, SweepFacts
  <2>2. Claimed(n, s, c) =
          [t \in SignatureNodes |->
             IF Assign(s, c) = "OK" /\ RefOf(t) = RefOf(s)
             THEN Sweep(n[t], {d \in CodeNodes : TypeSpec(d) = TypeSpec(c)}) ELSE n[t]]
    BY DEF Claimed
  <2> QED  BY <2>1, <2>2 DEF Matrices, Below
<1> DEFINE n == [m EXCEPT ![s] = Sweep(@, {c})]
<1>2. n \in Matrices /\ Below(n, m)
  <2>1. m[s] \subseteq Nat /\ IsFiniteSet(m[s])
    BY GivenFacts, FS_Subset DEF Matrices
  <2>2. Sweep(m[s], {c}) \subseteq m[s]
    BY <2>1, SweepFacts
  <2> QED  BY <2>2 DEF Matrices, Below
<1>3. Settled(m, s, c) = Claimed(n, s, c)
  BY DEF Settled
<1> HIDE DEF n
<1> QED  BY <1>1, <1>2, <1>3 DEF Below

-----------------------------------------------------------------------------
(* The flags *)

AssignedIn(flags, c) ==
  /\ Block(c) \in DOMAIN flags
  /\ Bit(c) \in 0..(MaskBits - 1)
  /\ Bit(c) \in flags[Block(c)]

Legible(c) == Bit(c) < MaskBits /\ Block(c) % 2 = 0

\* The bit that is set in a word that there is already.
LEMMA BitInWord ==
  ASSUME NEW c \in Nat
  PROVE  /\ c % WordSize \in Nat
         /\ c % WordSize < BlockSize => c % WordSize = Bit(c)
         /\ Block(c) % 2 = 0 => c % WordSize = Bit(c)
<1> DEFINE w == c % WordSize
           q == c \div WordSize
           b == Block(c)
           r == Bit(c)
<1>1. WordSize \in Nat /\ WordSize > 0 /\ WordSize = 2 * BlockSize /\ BlockSize \in Nat /\ BlockSize > 0
  BY BlockSizeAssumption DEF WordSize
<1>2. w \in 0..(WordSize - 1) /\ q \in Nat /\ c = WordSize * q + w
  <2> HIDE DEF WordSize
  <2> QED  BY <1>1, SMTT(20)
<1>3. b \in Nat /\ r \in 0..(BlockSize - 1) /\ c = BlockSize * b + r
  BY WordAndBit
<1> HIDE DEF w, q, b, r
<1>4. WordSize * q = BlockSize * (2 * q)
  BY <1>1, <1>2
<1>5. ASSUME NEW i \in Int, NEW u \in Int, NEW v \in Int,
             u < BlockSize, u >= 0, v < BlockSize, v >= 0, BlockSize * i = u - v
      PROVE  u = v /\ i = 0
  <2>1. CASE i >= 1
    <3>1. BlockSize * i >= BlockSize
      BY <1>1, <2>1
    <3> QED  BY <1>1, <1>5, <3>1
  <2>2. CASE i <= -1
    <3>1. BlockSize * i <= -BlockSize
      <4>1. BlockSize * i = -(BlockSize * (-i)) /\ BlockSize * (-i) >= BlockSize
        BY <1>1, <2>2
      <4> QED  BY <1>1, <4>1
    <3> QED  BY <1>1, <1>5, <3>1
  <2>3. CASE i = 0
    BY <1>1, <1>5, <2>3
  <2> QED  BY <2>1, <2>2, <2>3
<1>6. BlockSize * (b - 2 * q) = BlockSize * b - BlockSize * (2 * q)
  BY <1>1, <1>2, <1>3
<1>7. BlockSize * (b - 2 * q) = w - r
  <2>1. BlockSize * b \in Int /\ BlockSize * (2 * q) \in Int
    BY <1>1, <1>2, <1>3
  <2> QED  BY <1>1, <1>2, <1>3, <1>4, <1>6, <2>1
<1>8. w < BlockSize => w = r
  <2>1. b - 2 * q \in Int /\ w \in Int /\ r \in Int /\ w >= 0 /\ r >= 0 /\ r < BlockSize
    BY <1>1, <1>2, <1>3
  <2> QED  BY <1>5, <1>7, <2>1
<1>9. b % 2 = 0 => w = r
  <2> SUFFICES ASSUME b % 2 = 0
               PROVE  w < BlockSize
    BY <1>8
  <2> DEFINE k == b \div 2
  <2>1. k \in Nat /\ b = 2 * k
    BY <1>3
  <2> HIDE DEF k
  <2>2. WordSize * (k - q) = BlockSize * (b - 2 * q)
    <3>1. WordSize * (k - q) = BlockSize * (2 * (k - q))
      BY <1>1, <1>2, <2>1
    <3>2. 2 * (k - q) = b - 2 * q
      BY <1>2, <2>1
    <3> QED  BY <3>1, <3>2
  <2>3. k = q
    <3>1. CASE k - q >= 1
      <4>1. WordSize * (k - q) >= WordSize
        BY <1>1, <1>2, <2>1, <3>1
      <4> QED  BY <1>1, <1>2, <1>3, <1>7, <2>2, <4>1
    <3>2. CASE k - q <= -1
      <4>1. WordSize * (k - q) = -(WordSize * (q - k)) /\ WordSize * (q - k) >= WordSize
        BY <1>1, <1>2, <2>1, <3>2
      <4>2. w - r > -WordSize
        BY <1>1, <1>2, <1>3
      <4>3. WordSize * (q - k) \in Int
        BY <1>1, <1>2, <2>1
      <4> QED  BY <1>1, <1>2, <1>3, <1>7, <2>2, <4>1, <4>2, <4>3
    <3> QED  BY <1>2, <2>1, <3>1, <3>2
  <2>4. WordSize * (k - q) = 0
    BY <1>1, <1>2, <2>3
  <2>5. w = r
    BY <1>2, <1>3, <1>7, <2>2, <2>4
  <2> QED  BY <1>1, <1>3, <2>5
<1> QED  BY <1>2, <1>8, <1>9 DEF w, r, b

LEMMA FlaggedFacts ==
  ASSUME NEW flags, NEW c \in Nat, NEW d \in Nat
  PROVE  /\ AssignedIn(Flagged(flags, c), d) => AssignedIn(flags, d) \/ d = c
         /\ AssignedIn(flags, d) => AssignedIn(Flagged(flags, c), d)
         /\ Legible(c) => AssignedIn(Flagged(flags, c), c)
<1> DEFINE after == Flagged(flags, c)
<1>1. /\ DOMAIN after = DOMAIN flags \cup {Block(c)}
      /\ \A b \in DOMAIN flags : b # Block(c) => after[b] = flags[b]
      /\ Block(c) \in DOMAIN flags => after[Block(c)] = flags[Block(c)] \cup {c % WordSize}
      /\ Block(c) \notin DOMAIN flags => after[Block(c)] = IntBit(c)
  BY DEF Flagged
<1>2. \A n \in Nat : Bit(n) \in 0..(BlockSize - 1)
  BY WordAndBit
<1>3. BlockSize \in Nat /\ BlockSize > 0 /\ MaskBits \in Nat /\ MaskBits <= BlockSize
  BY BlockSizeAssumption
<1>4. Bit(c) \in IntBit(c) /\ \A x \in IntBit(c) : x < BlockSize => x = Bit(c)
  BY <1>2, <1>3 DEF IntBit, WordSize
<1> HIDE DEF after
<1>5. ASSUME AssignedIn(after, d)
      PROVE  AssignedIn(flags, d) \/ d = c
  <2>1. Bit(d) \in 0..(MaskBits - 1) /\ Bit(d) \in after[Block(d)] /\ Block(d) \in DOMAIN after
    BY <1>5 DEF AssignedIn
  <2>2. CASE Block(d) # Block(c)
    BY <1>1, <2>1, <2>2 DEF AssignedIn
  <2>3. CASE Block(d) = Block(c) /\ Block(c) \in DOMAIN flags
    <3>1. Bit(d) \in flags[Block(d)] \/ Bit(d) = c % WordSize
      BY <1>1, <2>1, <2>3
    <3>2. Bit(d) = c % WordSize => Bit(d) = Bit(c)
      BY <1>2, <1>3, BitInWord
    <3> QED  BY <2>1, <2>3, <3>1, <3>2, WordAndBit DEF AssignedIn
  <2>4. CASE Block(d) = Block(c) /\ Block(c) \notin DOMAIN flags
    <3>1. Bit(d) = Bit(c)
      BY <1>1, <1>2, <1>3, <1>4, <2>1, <2>4
    <3> QED  BY <2>4, <3>1, WordAndBit
  <2> QED  BY <2>2, <2>3, <2>4
<1>6. AssignedIn(flags, d) => AssignedIn(after, d)
  BY <1>1 DEF AssignedIn
<1>7. Legible(c) => AssignedIn(after, c)
  <2> SUFFICES ASSUME Legible(c)
               PROVE  AssignedIn(after, c)
    OBVIOUS
  <2>1. Bit(c) \in 0..(MaskBits - 1)
    BY <1>2, <1>3 DEF Legible
  <2>2. c % WordSize = Bit(c)
    BY BitInWord DEF Legible
  <2> QED  BY <1>1, <1>4, <2>1, <2>2 DEF AssignedIn
<1> QED  BY <1>5, <1>6, <1>7 DEF after

LEMMA UnflaggedFacts ==
  ASSUME NEW flags, NEW c \in Nat, NEW d \in Nat
  PROVE  AssignedIn(Unflagged(flags, c), d) <=> AssignedIn(flags, d) /\ d # c
<1>1. \A n \in Nat : Bit(n) \in 0..(BlockSize - 1)
  BY WordAndBit
<1>2. BlockSize \in Nat /\ BlockSize > 0 /\ MaskBits \in Nat /\ MaskBits <= BlockSize
  BY BlockSizeAssumption
<1>3. Bit(c) \in IntBit(c) /\ \A x \in IntBit(c) : x < BlockSize => x = Bit(c)
  BY <1>1, <1>2 DEF IntBit, WordSize
<1>4. /\ DOMAIN Unflagged(flags, c) = DOMAIN flags
      /\ \A b \in DOMAIN flags :
           Unflagged(flags, c)[b] = IF b = Block(c) THEN flags[b] \ IntBit(c) ELSE flags[b]
  BY DEF Unflagged
<1>5. CASE Block(d) # Block(c)
  BY <1>4, <1>5 DEF AssignedIn
<1>6. CASE Block(d) = Block(c)
  <2>1. Bit(d) \in IntBit(c) <=> d = c
    BY <1>1, <1>2, <1>3, <1>6, WordAndBit
  <2> QED  BY <1>4, <1>6, <2>1 DEF AssignedIn
<1> QED  BY <1>5, <1>6

-----------------------------------------------------------------------------
(* The calls under way *)

Calls == [each : BOOLEAN, it : CodeNodes \cup {None}, ok : BOOLEAN]

\* The matrices that were pushed are those of the calls h.
Pushes(h) == {i \in DOMAIN h : h[i].each \/ h[i].ok}

\* The flags are those of the nodes the calls h have settled on.
FlagsOf(h, flags) ==
  /\ \A c \in CodeNodes : AssignedIn(flags, c) => \E i \in DOMAIN h : h[i].it = c
  /\ \A i \in DOMAIN h : Legible(h[i].it) =>
       /\ AssignedIn(flags, h[i].it)
       /\ \A j \in DOMAIN h : h[j].it = h[i].it => j = i

\* The opaque types are those of the calls h, each set by the first of them.
By(h, r) == {i \in DOMAIN h : RefOf(order[i]) = r}
OpaqueOf(h, opaque) ==
  /\ DOMAIN opaque = Refs
  /\ \A i \in DOMAIN h : h[i].ok => RefOf(order[i]) \in Refs
  /\ \A r \in Refs :
       \/ By(h, r) = {} /\ opaque[r] = Unknown
       \/ \E first \in By(h, r) :
            /\ h[first].ok
            /\ \A i \in By(h, r) : /\ first <= i /\ (h[i].ok => i = first)
                                   /\ opaque[r] = TypeSpec(h[i].it)

\* A sequence with an element more, and without its last.
LEMMA Appended ==
  ASSUME NEW S, NEW h \in Seq(S), NEW x \in S
  PROVE  /\ Append(h, x) \in Seq(S) /\ Len(Append(h, x)) = Len(h) + 1
         /\ DOMAIN Append(h, x) = DOMAIN h \cup {Len(h) + 1} /\ Len(h) + 1 \notin DOMAIN h
         /\ \A i \in DOMAIN h : Append(h, x)[i] = h[i]
         /\ Append(h, x)[Len(h) + 1] = x
         /\ Front(Append(h, x)) = h /\ Last(Append(h, x)) = x
<1>1. /\ Append(h, x) \in Seq(S) /\ Len(Append(h, x)) = Len(h) + 1
      /\ DOMAIN Append(h, x) = 1..(Len(h) + 1) /\ DOMAIN h = 1..Len(h) /\ Len(h) \in Nat
      /\ \A i \in DOMAIN h : Append(h, x)[i] = h[i]
      /\ Append(h, x)[Len(h) + 1] = x
  OBVIOUS
<1>2. Front(Append(h, x)) = [i \in 1..Len(h) |-> Append(h, x)[i]]
  BY <1>1 DEF Front
<1>3. h = [i \in 1..Len(h) |-> h[i]]
  OBVIOUS
<1>4. Front(Append(h, x)) = h
  BY <1>1, <1>2, <1>3
<1>5. Last(Append(h, x)) = x
  BY <1>1 DEF Last
<1> QED  BY <1>1, <1>4, <1>5

LEMMA Fronted ==
  ASSUME NEW S, NEW h \in Seq(S), h # <<>>
  PROVE  /\ Front(h) \in Seq(S) /\ Len(Front(h)) = Len(h) - 1
         /\ Len(h) \in Nat /\ Len(h) \in DOMAIN h /\ Last(h) = h[Len(h)] /\ Last(h) \in S
         /\ DOMAIN h = DOMAIN Front(h) \cup {Len(h)} /\ Len(h) \notin DOMAIN Front(h)
         /\ DOMAIN Front(h) = 1..(Len(h) - 1)
         /\ \A i \in DOMAIN Front(h) : Front(h)[i] = h[i]
<1>1. Len(h) \in Nat /\ Len(h) > 0 /\ DOMAIN h = 1..Len(h) /\ \A i \in 1..Len(h) : h[i] \in S
  OBVIOUS
<1>2. Front(h) = [i \in 1..(Len(h) - 1) |-> h[i]]
  BY DEF Front
<1>3. Front(h) \in Seq(S) /\ Len(Front(h)) = Len(h) - 1
  BY <1>1, <1>2
<1> QED  BY <1>1, <1>2, <1>3 DEF Last

LEMMA PushesChange ==
  ASSUME NEW h \in Seq(Calls), NEW x \in Calls
  PROVE  /\ Cardinality(Pushes(h)) \in Nat
         /\ Cardinality(Pushes(Append(h, x)))
              = Cardinality(Pushes(h)) + (IF x.each \/ x.ok THEN 1 ELSE 0)
<1> DEFINE g == Append(h, x)
<1>1. /\ DOMAIN g = DOMAIN h \cup {Len(h) + 1} /\ Len(h) + 1 \notin DOMAIN h
      /\ (\A i \in DOMAIN h : g[i] = h[i]) /\ g[Len(h) + 1] = x
  BY Appended
<1>2. IsFiniteSet(DOMAIN h)
  <2>1. DOMAIN h = 1..Len(h) /\ Len(h) \in Nat
    OBVIOUS
  <2> QED  BY <2>1, FS_Interval
<1>3. IsFiniteSet(Pushes(h)) /\ Cardinality(Pushes(h)) \in Nat
  BY <1>2, FS_Subset, FS_CardinalityType DEF Pushes
<1> HIDE DEF g
<1>4. Pushes(g) = IF x.each \/ x.ok THEN Pushes(h) \cup {Len(h) + 1} ELSE Pushes(h)
  BY <1>1 DEF Pushes
<1>5. Len(h) + 1 \notin Pushes(h)
  BY <1>1 DEF Pushes
<1>6. Cardinality(Pushes(h) \cup {Len(h) + 1}) = Cardinality(Pushes(h)) + 1
  BY <1>3, <1>5, FS_AddElement
<1> QED  BY <1>3, <1>4, <1>6 DEF g

LEMMA FlagPushed ==
  ASSUME CodeNodes \subseteq Nat, NEW h \in Seq(Calls), NEW flags, FlagsOf(h, flags),
         \A i \in DOMAIN h : h[i].it \in CodeNodes,
         NEW x \in Calls, x.it \in CodeNodes, ~AssignedIn(flags, x.it)
  PROVE  FlagsOf(Append(h, x), Flagged(flags, x.it))
<1> DEFINE g == Append(h, x)
           after == Flagged(flags, x.it)
<1>1. /\ DOMAIN g = DOMAIN h \cup {Len(h) + 1} /\ Len(h) + 1 \notin DOMAIN h
      /\ (\A i \in DOMAIN h : g[i] = h[i]) /\ g[Len(h) + 1] = x
  BY Appended
<1>2. /\ x.it \in Nat
      /\ \A d \in CodeNodes :
           /\ AssignedIn(after, d) => AssignedIn(flags, d) \/ d = x.it
           /\ AssignedIn(flags, d) => AssignedIn(after, d)
      /\ Legible(x.it) => AssignedIn(after, x.it)
  BY FlaggedFacts
<1> HIDE DEF g, after
<1>3. ASSUME NEW c \in CodeNodes, AssignedIn(after, c)
      PROVE  \E i \in DOMAIN g : g[i].it = c
  <2>1. CASE AssignedIn(flags, c)
    BY <1>1, <2>1 DEF FlagsOf
  <2>2. CASE c = x.it
    BY <1>1, <2>2
  <2> QED  BY <1>2, <1>3, <2>1, <2>2
<1>4. ASSUME NEW i \in DOMAIN h, Legible(h[i].it)
      PROVE  AssignedIn(flags, h[i].it) /\ h[i].it # x.it
  BY <1>4 DEF FlagsOf
<1>5. ASSUME NEW i \in DOMAIN g, Legible(g[i].it)
      PROVE  AssignedIn(after, g[i].it) /\ \A j \in DOMAIN g : g[j].it = g[i].it => j = i
  <2>1. CASE i \in DOMAIN h
    <3>1. g[i] = h[i] /\ h[i].it \in CodeNodes /\ AssignedIn(flags, h[i].it) /\ h[i].it # x.it
      BY <1>1, <1>4, <1>5, <2>1
    <3>2. \A j \in DOMAIN h : h[j].it = h[i].it => j = i
      BY <1>5, <2>1, <3>1 DEF FlagsOf
    <3> QED  BY <1>1, <1>2, <3>1, <3>2
  <2>2. CASE i = Len(h) + 1
    <3>1. g[i] = x
      BY <1>1, <2>2
    <3>2. \A j \in DOMAIN h : h[j].it # x.it
      BY <1>4, <1>5, <3>1
    <3> QED  BY <1>1, <1>2, <1>5, <2>2, <3>1, <3>2
  <2> QED  BY <1>1, <2>1, <2>2
<1> QED  BY <1>3, <1>5 DEF FlagsOf, g, after

LEMMA FlagPopped ==
  ASSUME CodeNodes \subseteq Nat, NEW h \in Seq(Calls), h # <<>>, NEW flags, FlagsOf(h, flags),
         \A i \in DOMAIN h : h[i].it \in CodeNodes
  PROVE  FlagsOf(Front(h), Unflagged(flags, Last(h).it))
<1> DEFINE g == Front(h)
           x == Last(h)
           after == Unflagged(flags, x.it)
<1>1. /\ DOMAIN h = DOMAIN g \cup {Len(h)} /\ Len(h) \notin DOMAIN g
      /\ (\A i \in DOMAIN g : g[i] = h[i]) /\ h[Len(h)] = x
  BY Fronted
<1>2. \A d \in CodeNodes : AssignedIn(after, d) <=> AssignedIn(flags, d) /\ d # x.it
  <2>1. x.it \in Nat
    BY <1>1
  <2> HIDE DEF x
  <2> QED  BY <2>1, UnflaggedFacts
<1> HIDE DEF g, after, x
<1>3. ASSUME NEW c \in CodeNodes, AssignedIn(after, c)
      PROVE  \E i \in DOMAIN g : g[i].it = c
  <2>1. AssignedIn(flags, c) /\ c # x.it
    BY <1>2, <1>3
  <2>2. PICK i \in DOMAIN h : h[i].it = c
    BY <2>1 DEF FlagsOf
  <2> QED  BY <1>1, <2>1, <2>2
<1>4. ASSUME NEW i \in DOMAIN g, Legible(g[i].it)
      PROVE  AssignedIn(after, g[i].it) /\ \A j \in DOMAIN g : g[j].it = g[i].it => j = i
  <2>1. /\ AssignedIn(flags, h[i].it) /\ h[i].it \in CodeNodes
        /\ \A j \in DOMAIN h : h[j].it = h[i].it => j = i
    BY <1>1, <1>4 DEF FlagsOf
  <2>2. h[i].it # x.it
    BY <1>1, <2>1
  <2> QED  BY <1>1, <1>2, <2>1, <2>2
<1> QED  BY <1>3, <1>4 DEF FlagsOf, g, after, x

\* What stands for a node: never what stands for nothing.
LEMMA TypeSpecKnown == ASSUME NEW c PROVE TypeSpec(c) # Unknown
<1>1. Len(TypeSpec(c)) = 2 /\ Len(Unknown) = 1
  BY DEF TypeSpec, Unknown
<1> QED  BY <1>1

LEMMA OpaquePushed ==
  ASSUME Given, NEW h \in Seq(Calls), OpaqueOf(h, oOpaqueAssignment),
         NEW s \in SignatureNodes, s = order[Len(h) + 1], NEW x \in Calls,
         Assign(s, x.it) # "NOK", x.ok <=> Assign(s, x.it) = "OK"
  PROVE  OpaqueOf(Append(h, x), Assigned(s, x.it))
<1> DEFINE g == Append(h, x)
           o == oOpaqueAssignment
           n == Assigned(s, x.it)
           last == Len(h) + 1
<1>1. /\ DOMAIN g = DOMAIN h \cup {last} /\ last \notin DOMAIN h
      /\ (\A i \in DOMAIN h : g[i] = h[i]) /\ g[last] = x
  BY Appended
<1>2. \A i \in DOMAIN h : i \in Int /\ i < last /\ last \in Int
  OBVIOUS
<1>3. RefOf(s) \in Refs \cup {NoRef} /\ NoRef \notin Refs
  BY GivenFacts, RefsAssumption
<1>4. /\ x.ok => RefOf(s) \in Refs /\ o[RefOf(s)] = Unknown /\ n = [o EXCEPT ![RefOf(s)] = TypeSpec(x.it)]
      /\ ~x.ok => n = o
      /\ ~x.ok /\ RefOf(s) \in Refs => o[RefOf(s)] = TypeSpec(x.it)
  BY <1>3 DEF Assign, Assigned
<1>5. DOMAIN o = Refs
  BY DEF OpaqueOf
<1>6. \A r \in Refs : By(g, r) = IF r = RefOf(s) THEN By(h, r) \cup {last} ELSE By(h, r)
  BY <1>1 DEF By
<1> HIDE DEF g, o, n, last
<1>7. DOMAIN n = Refs
  BY <1>4, <1>5
<1>8. \A i \in DOMAIN g : g[i].ok => RefOf(order[i]) \in Refs
  BY <1>1, <1>4 DEF OpaqueOf, last
<1>9. ASSUME NEW r \in Refs
      PROVE  \/ By(g, r) = {} /\ n[r] = Unknown
             \/ \E first \in By(g, r) :
                  /\ g[first].ok
                  /\ \A i \in By(g, r) : /\ first <= i /\ (g[i].ok => i = first)
                                         /\ n[r] = TypeSpec(g[i].it)
  <2>1. By(h, r) \subseteq DOMAIN h
    BY DEF By
  <2>2. CASE r # RefOf(s)
    <3>1. n[r] = o[r] /\ By(g, r) = By(h, r)
      BY <1>4, <1>5, <1>6, <2>2
    <3>2. \A i \in By(h, r) : g[i] = h[i]
      BY <1>1, <2>1
    <3> QED  BY <3>1, <3>2 DEF OpaqueOf, o
  <2>3. CASE r = RefOf(s) /\ x.ok
    <3>1. o[r] = Unknown /\ n[r] = TypeSpec(x.it)
      BY <1>4, <1>5, <2>3
    <3>2. By(h, r) = {}
      BY <3>1, TypeSpecKnown DEF OpaqueOf, o
    <3>3. By(g, r) = {last}
      BY <1>6, <2>3, <3>2
    <3>4. last \in Int
      BY DEF last
    <3> QED  BY <1>1, <2>3, <3>1, <3>3, <3>4
  <2>4. CASE r = RefOf(s) /\ ~x.ok
    <3>1. o[r] = TypeSpec(x.it) /\ n[r] = o[r] /\ By(g, r) = By(h, r) \cup {last}
      BY <1>4, <1>6, <2>4
    <3>2. PICK first \in By(h, r) :
                  /\ h[first].ok
                  /\ \A i \in By(h, r) : /\ first <= i /\ (h[i].ok => i = first)
                                         /\ o[r] = TypeSpec(h[i].it)
      BY <3>1, TypeSpecKnown DEF OpaqueOf, o
    <3>3. first <= last /\ g[first].ok /\ first \in By(g, r)
      BY <1>1, <1>2, <2>1, <3>1, <3>2
    <3>4. ~g[last].ok /\ n[r] = TypeSpec(g[last].it)
      BY <1>1, <2>4, <3>1
    <3>5. \A i \in By(h, r) : g[i] = h[i]
      BY <1>1, <2>1
    <3> QED  BY <3>1, <3>2, <3>3, <3>4, <3>5
  <2> QED  BY <2>2, <2>3, <2>4
<1> QED  BY <1>7, <1>8, <1>9 DEF OpaqueOf, g, n

LEMMA OpaquePopped ==
  ASSUME NEW h \in Seq(Calls), h # <<>>, NEW opaque, OpaqueOf(h, opaque)
  PROVE  OpaqueOf(Front(h), IF Last(h).ok
                            THEN [opaque EXCEPT ![RefOf(order[Len(h)])] = Unknown]
                            ELSE opaque)
<1> DEFINE g == Front(h)
           x == Last(h)
           last == Len(h)
           n == IF x.ok THEN [opaque EXCEPT ![RefOf(order[last])] = Unknown] ELSE opaque
<1>1. /\ DOMAIN h = DOMAIN g \cup {last} /\ last \notin DOMAIN g /\ last \in DOMAIN h
      /\ (\A i \in DOMAIN g : g[i] = h[i]) /\ h[last] = x
  BY Fronted
<1>2. \A i \in DOMAIN h : i \in Int /\ i <= last /\ last \in Int
  OBVIOUS
<1>3. DOMAIN opaque = Refs /\ (x.ok => RefOf(order[last]) \in Refs)
  BY <1>1 DEF OpaqueOf
<1> HIDE DEF g, x, last
<1>4. DOMAIN n = Refs
  BY <1>3
<1>5. /\ x.ok => n[RefOf(order[last])] = Unknown
      /\ \A r \in Refs : ~x.ok \/ r # RefOf(order[last]) => n[r] = opaque[r]
  BY <1>3
<1> HIDE DEF n
<1>6. \A i \in DOMAIN g : g[i].ok => RefOf(order[i]) \in Refs
  BY <1>1 DEF OpaqueOf
<1>7. ASSUME NEW r \in Refs
      PROVE  \/ By(g, r) = {} /\ n[r] = Unknown
             \/ \E first \in By(g, r) :
                  /\ g[first].ok
                  /\ \A i \in By(g, r) : /\ first <= i /\ (g[i].ok => i = first)
                                         /\ n[r] = TypeSpec(g[i].it)
  <2>1. By(g, r) = By(h, r) \ {last} /\ By(g, r) \subseteq DOMAIN g /\ By(h, r) \subseteq DOMAIN h
    BY <1>1 DEF By
  <2>2. \A i \in By(g, r) : g[i] = h[i]
    BY <1>1, <2>1
  <2>3. last \in By(h, r) <=> RefOf(order[last]) = r
    BY <1>1 DEF By
  <2>4. CASE By(h, r) = {}
    <3>1. opaque[r] = Unknown /\ n[r] = Unknown
      BY <1>5, <2>4 DEF OpaqueOf
    <3> QED  BY <2>1, <2>4, <3>1
  <2>5. CASE By(h, r) # {}
    <3>1. PICK first \in By(h, r) :
                  /\ h[first].ok
                  /\ \A i \in By(h, r) : /\ first <= i /\ (h[i].ok => i = first)
                                         /\ opaque[r] = TypeSpec(h[i].it)
      BY <2>5 DEF OpaqueOf
    <3>2. CASE first = last
      <4>1. By(h, r) = {last}
        <5>1. \A i \in By(h, r) : i = last
          BY <1>2, <2>1, <3>1, <3>2
        <5> QED  BY <3>2, <5>1
      <4>2. n[r] = Unknown
        BY <1>1, <1>5, <2>3, <3>1, <3>2
      <4> QED  BY <2>1, <4>1, <4>2
    <3>3. CASE first # last
      <4>1. n[r] = opaque[r]
        <5>1. x.ok => r # RefOf(order[last])
          BY <1>1, <2>3, <3>1, <3>3
        <5> QED  BY <1>5, <5>1
      <4> QED  BY <2>1, <2>2, <3>1, <3>3, <4>1
    <3> QED  BY <3>2, <3>3
  <2> QED  BY <2>4, <2>5
<1> QED  BY <1>4, <1>6, <1>7 DEF OpaqueOf, g, n, x, last

-----------------------------------------------------------------------------
(* Pass 1 *)

LEMMA FitsMonotone ==
  ASSUME Given, NEW n \in Matrices, NEW m \in Matrices, Below(n, m),
         NEW s \in SignatureNodes, NEW c \in CodeNodes, Fits(n, s, c)
  PROVE  Fits(m, s, c)
<1> DEFINE ins == oSignatureGraph.inputs[s]
           outs == oCodeGraph.inputs[c]
<1>1. /\ IsCandidate(s, c)
      /\ IF InOrder(s)
         THEN Len(ins) = Len(outs) => \A k \in DOMAIN ins : outs[k] \in n[ins[k]]
         ELSE \A e \in ToSet(ins) : ToSet(outs) \cap n[e] # {}
  BY DEF Fits
<1>2. (\A k \in DOMAIN ins : ins[k] \in SignatureNodes) /\ ToSet(ins) \subseteq SignatureNodes
  BY InputFacts
<1> HIDE DEF ins, outs
<1>3. \A t \in SignatureNodes : n[t] \subseteq m[t]
  BY DEF Below
<1>4. InOrder(s) /\ Len(ins) = Len(outs) => \A k \in DOMAIN ins : outs[k] \in m[ins[k]]
  BY <1>1, <1>2, <1>3
<1>5. ASSUME ~InOrder(s), NEW e \in ToSet(ins)
      PROVE  ToSet(outs) \cap m[e] # {}
  <2>1. n[e] \subseteq m[e] /\ ToSet(outs) \cap n[e] # {}
    BY <1>1, <1>2, <1>3, <1>5
  <2> QED  BY <2>1
<1>6. /\ IsCandidate(s, c)
      /\ IF InOrder(s)
         THEN Len(ins) = Len(outs) => \A k \in DOMAIN ins : outs[k] \in m[ins[k]]
         ELSE \A e \in ToSet(ins) : ToSet(outs) \cap m[e] # {}
  BY <1>1, <1>4, <1>5
<1> QED  BY <1>6 DEF Fits, ins, outs

\* Fitting is the largest matrix of candidates whose inputs have candidates.
LEMMA FittingFacts ==
  ASSUME Given
  PROVE  /\ Fitting \in Matrices
         /\ \A s \in SignatureNodes : \A c \in Fitting[s] : IsCandidate(s, c)
         /\ \A n \in Matrices :
              (\A s \in SignatureNodes : \A c \in n[s] : Fits(n, s, c)) => Below(n, Fitting)
<1> DEFINE step == [n \in Matrices |-> [s \in SignatureNodes |-> {c \in n[s] : Fits(n, s, c)}]]
           every == [s \in SignatureNodes |-> CodeNodes]
           Fit(n) == \A s \in SignatureNodes : \A c \in n[s] : Fits(n, s, c)
           C == {k \in Matrices : \A n \in Matrices : Fit(n) => Below(n, k)}
<1>1. Fitting = Settle(every, step)
  BY DEF Fitting
<1>2. ASSUME NEW k \in Matrices
      PROVE  /\ step[k] \in Matrices /\ Below(step[k], k)
             /\ \A s \in SignatureNodes : step[k][s] = {c \in k[s] : Fits(k, s, c)}
  <2>1. step[k] = [s \in SignatureNodes |-> {c \in k[s] : Fits(k, s, c)}]
    OBVIOUS
  <2> HIDE DEF step
  <2> QED  BY <2>1 DEF Matrices, Below
<1>3. step \in [Matrices -> Matrices]
  <2>1. step = [k \in Matrices |-> step[k]]
    OBVIOUS
  <2> HIDE DEF step
  <2> QED  BY <1>2, <2>1
<1>4. every \in C
  <2>1. every \in Matrices /\ \A n \in Matrices : Below(n, every)
    BY DEF Matrices, Below
  <2> HIDE DEF every
  <2> QED  BY <2>1
<1>5. ASSUME NEW k \in C
      PROVE  step[k] \in C
  <2>1. step[k] \in Matrices /\ k \in Matrices
    BY <1>2
  <2>2. ASSUME NEW n \in Matrices, Fit(n)
        PROVE  Below(n, step[k])
    <3>1. Below(n, k)
      BY <2>2
    <3>2. ASSUME NEW s \in SignatureNodes, NEW c \in n[s]
          PROVE  c \in step[k][s]
      <4>1. c \in k[s] /\ c \in CodeNodes
        BY <3>1 DEF Below, Matrices
      <4>2. Fits(k, s, c)
        BY <2>1, <2>2, <3>1, <4>1, FitsMonotone
      <4> HIDE DEF step, C
      <4> QED  BY <1>2, <2>1, <4>1, <4>2
    <3> HIDE DEF step, C
    <3> QED  BY <3>2 DEF Below
  <2> HIDE DEF step, Fit
  <2> QED  BY <2>1, <2>2
<1>6. IsStep(step, C)
  <2>1. \A k \in C : Below(step[k], k)
    BY <1>2
  <2>2. C \subseteq Matrices
    OBVIOUS
  <2> HIDE DEF step, C
  <2> QED  BY <1>3, <1>5, <2>1, <2>2 DEF IsStep
<1>7. Settle(every, step) \in C /\ step[Settle(every, step)] = Settle(every, step)
  <2> HIDE DEF step, C, every
  <2> QED  BY <1>4, <1>6, SettleEnds, GivenFacts
<1>8. \A s \in SignatureNodes : \A c \in Settle(every, step)[s] : IsCandidate(s, c)
  <2>1. Settle(every, step) \in Matrices
    BY <1>7
  <2> HIDE DEF step, C, every
  <2>2. \A s \in SignatureNodes :
          Settle(every, step)[s] = {c \in Settle(every, step)[s] : Fits(Settle(every, step), s, c)}
    BY <1>2, <1>7, <2>1
  <2> QED  BY <2>2 DEF Fits
<1> HIDE DEF step, every
<1> QED  BY <1>1, <1>7, <1>8

-----------------------------------------------------------------------------
(* What is always so *)

Full == {m \in Matrices : \A s \in SignatureNodes : m[s] # {}}

\* The first candidate, and those that follow in the loop.
LEMMA RowFacts ==
  ASSUME Given, NEW m \in Full, NEW s \in SignatureNodes
  PROVE  /\ m[s] \subseteq CodeNodes /\ m[s] \subseteq Nat /\ IsFiniteSet(m[s])
         /\ FirstCandidate(m, s) \in m[s]
         /\ \A c : NextCandidate(m, s, c) \in m[s] \cup {None}
<1>1. m[s] \subseteq CodeNodes /\ m[s] # {}
  BY DEF Full, Matrices
<1>2. m[s] \subseteq Nat /\ IsFiniteSet(m[s])
  BY <1>1, GivenFacts, FS_Subset
<1>3. \A c : After(m[s], c) \subseteq m[s]
  BY DEF After
<1>4. ASSUME NEW c
      PROVE  NextCandidate(m, s, c) \in m[s] \cup {None}
  <2>1. After(m[s], c) \subseteq Nat
    BY <1>2, <1>3
  <2>2. Lowest(After(m[s], c)) \in After(m[s], c) \cup {None}
    BY <2>1, LowestType
  <2> QED  BY <1>3, <2>2 DEF NextCandidate
<1> QED  BY <1>1, <1>2, <1>4, LowestType DEF FirstCandidate

LEMMA PrunedFull ==
  ASSUME Given, NEW m \in Matrices, PruneFlagged(m)
  PROVE  Pruned(m) \in Full
<1>1. Pruned(m) \in Matrices /\ {} \notin Range(Pruned(m))
  BY PrunedFacts DEF PruneFlagged
<1> QED  BY <1>1 DEF Full, Matrices, Range

Phases == {"idle", "pass1", "pass2", "call", "try", "back", "found", "failed"}
Searching == pc \in {"call", "try", "back", "found"}

\* What is evaluated.
Inputs ==
  /\ pc \in Phases
  /\ pc = "idle" => itSig = 1
  /\ pc # "idle" => /\ IsEvaluable(oSignatureDefinition, oCodeGraph)
                    /\ oSignatureDefinition # <<>> => itSig \in 1..Len(oSignatureDefinition)
  /\ pc \notin {"idle", "failed"} => oSignatureDefinition # <<>>

\* Between two searches nothing is left of the first.
Fresh ==
  ~Searching => /\ frames = <<>> /\ aStack = <<>> /\ oFlagMap = <<>>
                /\ oOpaqueAssignment = [r \in Refs |-> Unknown]

Shape ==
  /\ pc = "pass2" => oMatrix \in Full
  /\ Searching =>
       /\ order \in Orders /\ oMatrix \in Full /\ aStack \in Seq(Full)
       /\ frames \in Seq(Calls) /\ Len(frames) <= Len(order)
       /\ \A i \in DOMAIN Holding : Holding[i].it \in CodeNodes
       /\ pc = "try" => frames # <<>> /\ Top.each /\ ~Top.ok

Effects ==
  /\ Len(aStack) = Cardinality(Pushes(Holding))
  /\ FlagsOf(Holding, oFlagMap)
  /\ OpaqueOf(Holding, oOpaqueAssignment)

SearchInv == Inputs /\ Fresh /\ Shape /\ Effects

LEMMA GivenInSearch == SearchInv /\ pc \notin {"idle", "failed"} => Given
<1> SUFFICES ASSUME SearchInv, pc \notin {"idle", "failed"}
             PROVE  Given
  OBVIOUS
<1>1. /\ IsEvaluable(oSignatureDefinition, oCodeGraph)
      /\ itSig \in 1..Len(oSignatureDefinition)
  BY DEF SearchInv, Inputs
<1>2. itSig \in DOMAIN oSignatureDefinition
  BY <1>1 DEF IsEvaluable
<1> QED  BY <1>1, <1>2 DEF IsEvaluable, Given, oSignatureGraph

\* Nothing in hand, nothing flagged, nothing assigned.
LEMMA NothingHeld ==
  ASSUME NEW opaque, opaque = [r \in Refs |-> Unknown]
  PROVE  Cardinality(Pushes(<<>>)) = 0 /\ FlagsOf(<<>>, <<>>) /\ OpaqueOf(<<>>, opaque)
<1>1. DOMAIN <<>> = {}
  OBVIOUS
<1>2. Pushes(<<>>) = {} /\ \A r : By(<<>>, r) = {}
  BY <1>1 DEF Pushes, By
<1>3. Cardinality({}) = 0
  BY FS_EmptySet
<1> QED  BY <1>1, <1>2, <1>3 DEF FlagsOf, OpaqueOf, AssignedIn

-----------------------------------------------------------------------------
(* The steps of pass 2 *)

InSearch(p) == p \in {"call", "try", "back", "found"}

\* The definitions about the graphs keep their meaning.
LEMMA SameGraphs ==
  ASSUME UNCHANGED <<inputVars, itSig, order>>
  PROVE  /\ SignatureNodes' = SignatureNodes /\ CodeNodes' = CodeNodes
         /\ Matrices' = Matrices /\ Full' = Full /\ Calls' = Calls /\ Orders' = Orders
         /\ (\A s : RefOf(s)' = RefOf(s)) /\ (\A c : TypeSpec(c)' = TypeSpec(c))
<1>1. oSignatureGraph' = oSignatureGraph /\ oCodeGraph' = oCodeGraph
  BY DEF inputVars, oSignatureGraph
<1>2. SignatureNodes' = SignatureNodes /\ CodeNodes' = CodeNodes
  BY <1>1 DEF SignatureNodes, CodeNodes
<1>3. Matrices' = Matrices
  BY <1>2 DEF Matrices
<1>4. Full' = Full /\ Calls' = Calls /\ Orders' = Orders
  BY <1>2, <1>3 DEF Full, Calls, Orders
<1> QED  BY <1>1, <1>2, <1>3, <1>4 DEF RefOf, TypeSpec

\* A step of pass 2 that leaves the calls h, and what goes with them.
LEMMA StepKeeps ==
  ASSUME SearchInv, Searching, InSearch(pc'), UNCHANGED <<inputVars, itSig, order>>,
         NEW f, frames' = f, f \in Seq(Calls), Len(f) <= Len(order),
         pc' = "try" => f # <<>> /\ Last(f).each /\ ~Last(f).ok,
         NEW h, h = IF pc' = "try" THEN Front(f) ELSE f, \A i \in DOMAIN h : h[i].it \in CodeNodes,
         oMatrix' \in Full, aStack' \in Seq(Full), Len(aStack') = Cardinality(Pushes(h)),
         NEW flags, oFlagMap' = flags, FlagsOf(h, flags),
         NEW opaque, oOpaqueAssignment' = opaque, OpaqueOf(h, opaque)
  PROVE  SearchInv'
<1>1. /\ CodeNodes' = CodeNodes /\ Full' = Full /\ Calls' = Calls /\ Orders' = Orders
      /\ (\A s : RefOf(s)' = RefOf(s)) /\ (\A c : TypeSpec(c)' = TypeSpec(c))
  BY SameGraphs
<1>2. Holding' = h /\ Top' = Last(f)
  BY DEF Holding, Top
<1>3. Inputs'
  BY DEF SearchInv, Inputs, Searching, InSearch, Phases, inputVars
<1>4. Fresh'
  BY DEF Fresh, Searching, InSearch
<1>5. Shape'
  <2>1. order' = order /\ order \in Orders
    BY DEF SearchInv, Shape
  <2>2. pc' # "pass2"
    BY DEF InSearch
  <2> QED  BY <1>1, <1>2, <2>1, <2>2 DEF Shape
<1>6. FlagsOf(Holding, oFlagMap)'
  BY <1>1, <1>2 DEF FlagsOf
<1>7. OpaqueOf(Holding, oOpaqueAssignment)'
  <2>1. order' = order
    OBVIOUS
  <2>2. \A r : By(Holding, r)' = By(h, r)
    BY <1>1, <1>2, <2>1 DEF By
  <2> QED  BY <1>1, <1>2, <2>1, <2>2 DEF OpaqueOf
<1>8. Pushes(Holding)' = Pushes(h)
  BY <1>2 DEF Pushes
<1>9. Effects'
  BY <1>6, <1>7, <1>8 DEF Effects
<1> QED  BY <1>3, <1>4, <1>5, <1>9 DEF SearchInv

\* What the search looks like before a step of pass 2.
LEMMA SearchFacts ==
  ASSUME SearchInv, Searching
  PROVE  /\ Given
         /\ order \in [1..Cardinality(SignatureNodes) -> SignatureNodes] /\ order \in Seq(SignatureNodes)
         /\ Len(order) = Cardinality(SignatureNodes) /\ Len(order) \in Nat
         /\ \A i \in 1..Len(order) : order[i] \in SignatureNodes
         /\ \A s \in SignatureNodes : \E i \in 1..Len(order) : order[i] = s
         /\ \A i, j \in 1..Len(order) : order[i] = order[j] => i = j
         /\ oMatrix \in Full /\ oMatrix \in Matrices /\ aStack \in Seq(Full) /\ frames \in Seq(Calls)
         /\ Len(frames) <= Len(order) /\ Len(frames) \in Nat
         /\ \A i \in DOMAIN Holding : Holding[i].it \in CodeNodes
         /\ Len(aStack) = Cardinality(Pushes(Holding))
         /\ FlagsOf(Holding, oFlagMap) /\ OpaqueOf(Holding, oOpaqueAssignment)
         /\ pc = "try" => /\ frames # <<>> /\ Top.each /\ ~Top.ok /\ Top.it \in CodeNodes \cup {None}
                          /\ Holding = Front(frames) /\ Top = Last(frames)
                          /\ TopNode \in SignatureNodes /\ TopNode = order[Len(Holding) + 1]
         /\ pc # "try" => Holding = frames
<1>1. Given
  BY GivenInSearch DEF Searching
<1>2. IsFiniteSet(SignatureNodes) /\ Cardinality(SignatureNodes) \in Nat
  BY <1>1, GivenFacts, FS_CardinalityType
<1>3. order \in Orders
  BY DEF SearchInv, Shape
<1>4. /\ order \in [1..Cardinality(SignatureNodes) -> SignatureNodes]
      /\ \A i, j \in 1..Cardinality(SignatureNodes) : i # j => order[i] # order[j]
  BY <1>3 DEF Orders, SetToSeqs
<1>5. order \in Seq(SignatureNodes) /\ Len(order) = Cardinality(SignatureNodes)
  BY <1>2, <1>4
<1>6. \A s \in SignatureNodes : \E i \in 1..Len(order) : order[i] = s
  <2> DEFINE N == Cardinality(SignatureNodes)
  <2>1. IsFiniteSet(1..N) /\ Cardinality(1..N) = N
    BY <1>2, FS_Interval
  <2>2. order \in Injection(1..N, SignatureNodes)
    BY <1>4 DEF Injection, IsInjective
  <2>3. order \in Surjection(1..N, SignatureNodes)
    <3> HIDE DEF N
    <3> QED  BY <1>2, <2>1, <2>2, FS_Injection DEF N
  <2> QED  BY <1>5, <2>3 DEF Surjection
<1>7. /\ oMatrix \in Full /\ oMatrix \in Matrices /\ aStack \in Seq(Full) /\ frames \in Seq(Calls)
      /\ Len(frames) <= Len(order) /\ Len(frames) \in Nat
      /\ \A i \in DOMAIN Holding : Holding[i].it \in CodeNodes
      /\ pc = "try" => frames # <<>> /\ Top.each /\ ~Top.ok
  BY DEF SearchInv, Shape, Full
<1>8. /\ Len(aStack) = Cardinality(Pushes(Holding))
      /\ FlagsOf(Holding, oFlagMap) /\ OpaqueOf(Holding, oOpaqueAssignment)
  BY DEF SearchInv, Effects
<1>9. pc = "try" => /\ Top.it \in CodeNodes \cup {None} /\ Holding = Front(frames) /\ Top = Last(frames)
                    /\ TopNode \in SignatureNodes /\ TopNode = order[Len(Holding) + 1]
  <2> SUFFICES ASSUME pc = "try"
               PROVE  /\ Top.it \in CodeNodes \cup {None} /\ Holding = Front(frames) /\ Top = Last(frames)
                      /\ TopNode \in SignatureNodes /\ TopNode = order[Len(Holding) + 1]
    OBVIOUS
  <2>1. Holding = Front(frames) /\ Top = Last(frames) /\ frames # <<>>
    BY <1>7 DEF Holding, Top
  <2>2. Len(Front(frames)) = Len(frames) - 1 /\ Last(frames) \in Calls /\ Len(frames) >= 1
    <3>1. frames \in Seq(Calls) /\ frames # <<>>
      BY <1>7, <2>1
    <3> HIDE DEF Calls
    <3>2. Len(frames) \in DOMAIN frames /\ Len(frames) \in Nat
      BY <3>1, Fronted
    <3>3. Len(Front(frames)) = Len(frames) - 1 /\ Last(frames) \in Calls
      BY <3>1, Fronted
    <3> QED  BY <3>1, <3>2, <3>3
  <2>3. Top.it \in CodeNodes \cup {None}
    BY <2>1, <2>2 DEF Calls
  <2>4. Len(frames) \in 1..Len(order) /\ Len(frames) = Len(Holding) + 1
    BY <1>5, <1>7, <2>1, <2>2
  <2> QED  BY <1>4, <1>5, <2>1, <2>3, <2>4 DEF TopNode
<1>10. pc # "try" => Holding = frames
  BY DEF Holding
<1>11. \A i, j \in 1..Len(order) : order[i] = order[j] => i = j
  BY <1>4, <1>5
<1>12. \A i \in 1..Len(order) : order[i] \in SignatureNodes
  BY <1>4, <1>5
<1>13. Len(order) \in Nat
  BY <1>2, <1>5
<1> QED  BY <1>1, <1>4, <1>5, <1>6, <1>7, <1>8, <1>9, <1>10, <1>11, <1>12, <1>13

\* A step that leaves the calls that hold a node, and what they have done.
LEMMA HoldingStays ==
  ASSUME SearchInv, Searching, InSearch(pc'), UNCHANGED <<inputVars, itSig, order, searchVars>>,
         NEW f, frames' = f, f \in Seq(Calls), Len(f) <= Len(order),
         pc' = "try" => f # <<>> /\ Last(f).each /\ ~Last(f).ok,
         Holding = IF pc' = "try" THEN Front(f) ELSE f
  PROVE  SearchInv'
<1> DEFINE flags == oFlagMap
           opaque == oOpaqueAssignment
           h == Holding
<1>1. /\ oMatrix' = oMatrix /\ aStack' = aStack /\ oFlagMap' = oFlagMap
      /\ oOpaqueAssignment' = oOpaqueAssignment /\ UNCHANGED <<inputVars, itSig, order>>
  BY DEF searchVars
<1>2. /\ \A i \in DOMAIN Holding : Holding[i].it \in CodeNodes
      /\ oMatrix' \in Full /\ aStack' \in Seq(Full) /\ Len(aStack') = Cardinality(Pushes(Holding))
      /\ FlagsOf(Holding, oFlagMap) /\ OpaqueOf(Holding, oOpaqueAssignment)
  BY <1>1, SearchFacts
<1> QED  BY <1>1, <1>2, StepKeeps

\* A call settles on c for s.
LEMMA Claims ==
  ASSUME SearchInv, Searching, UNCHANGED <<inputVars, itSig, order>>,
         Len(Holding) < Len(order), NEW s, s = order[Len(Holding) + 1],
         NEW c \in CodeNodes, ~Refused(s, c),
         NEW each \in BOOLEAN, NEW x, x = Frame(each, c, Assign(s, c)),
         Holding \in Seq(Calls), frames' = Append(Holding, x), pc' = "call",
         oFlagMap' = Flagged(oFlagMap, c), oOpaqueAssignment' = Assigned(s, c),
         IF each \/ Assign(s, c) = "OK"
         THEN aStack' = Append(aStack, oMatrix) /\ oMatrix' \in Full
         ELSE UNCHANGED <<aStack, oMatrix>>
  PROVE  SearchInv'
<1>1. /\ Given /\ FlagsOf(Holding, oFlagMap) /\ OpaqueOf(Holding, oOpaqueAssignment)
      /\ Len(aStack) = Cardinality(Pushes(Holding)) /\ aStack \in Seq(Full) /\ oMatrix \in Full
      /\ \A i \in DOMAIN Holding : Holding[i].it \in CodeNodes
      /\ Len(order) \in Nat /\ \A i \in 1..Len(order) : order[i] \in SignatureNodes
  BY SearchFacts
<1>2. s \in SignatureNodes
  <2>1. Len(Holding) \in Nat
    OBVIOUS
  <2> QED  BY <1>1, <2>1
<1>3. x.each = each /\ x.it = c /\ (x.ok <=> Assign(s, c) = "OK") /\ x \in Calls
  BY DEF Frame, Calls
<1>4. CodeNodes \subseteq Nat
  BY <1>1, GivenFacts
<1>5. ~AssignedIn(oFlagMap, c) /\ Assign(s, c) # "NOK"
  BY DEF Refused, IsAssigned, AssignedIn
<1>6. FlagsOf(Append(Holding, x), Flagged(oFlagMap, c))
  BY <1>1, <1>3, <1>4, <1>5, FlagPushed
<1>7. OpaqueOf(Append(Holding, x), Assigned(s, c))
  BY <1>1, <1>2, <1>3, <1>5, OpaquePushed
<1>8. /\ aStack' \in Seq(Full) /\ oMatrix' \in Full
      /\ Len(aStack') = Cardinality(Pushes(Append(Holding, x)))
  <2>1. /\ Cardinality(Pushes(Holding)) \in Nat
        /\ Cardinality(Pushes(Append(Holding, x)))
             = Cardinality(Pushes(Holding)) + (IF x.each \/ x.ok THEN 1 ELSE 0)
    BY <1>3, PushesChange
  <2>2. CASE each \/ Assign(s, c) = "OK"
    <3>1. aStack' = Append(aStack, oMatrix) /\ oMatrix' \in Full
      BY <2>2
    <3>2. aStack \in Seq(Full) /\ oMatrix \in Full
      BY <1>1
    <3>3. Len(Append(aStack, oMatrix)) = Len(aStack) + 1 /\ Append(aStack, oMatrix) \in Seq(Full)
      BY <3>2
    <3> QED  BY <1>1, <1>3, <2>1, <2>2, <3>1, <3>3
  <2>3. CASE ~(each \/ Assign(s, c) = "OK")
    BY <1>1, <1>3, <2>1, <2>3
  <2> QED  BY <2>2, <2>3
<1>9. /\ Append(Holding, x) \in Seq(Calls) /\ Len(Append(Holding, x)) = Len(Holding) + 1
      /\ DOMAIN Append(Holding, x) = DOMAIN Holding \cup {Len(Holding) + 1}
      /\ \A i \in DOMAIN Holding : Append(Holding, x)[i] = Holding[i]
      /\ Append(Holding, x)[Len(Holding) + 1] = x
  BY <1>3, Appended
<1>10. \A i \in DOMAIN Append(Holding, x) : Append(Holding, x)[i].it \in CodeNodes
  BY <1>1, <1>3, <1>9
<1>11. Len(Append(Holding, x)) <= Len(order)
  <2>1. Len(Holding) \in Nat
    OBVIOUS
  <2> QED  BY <1>1, <1>9, <2>1
<1>12. InSearch(pc') /\ pc' # "try"
  BY DEF InSearch
<1> DEFINE h == Append(Holding, x)
           flags == Flagged(oFlagMap, c)
           opaque == Assigned(s, c)
<1> HIDE DEF h, flags, opaque
<1> QED
  <2>1. /\ h \in Seq(Calls) /\ Len(h) <= Len(order) /\ frames' = h
        /\ (\A i \in DOMAIN h : h[i].it \in CodeNodes) /\ Len(aStack') = Cardinality(Pushes(h))
        /\ FlagsOf(h, flags) /\ OpaqueOf(h, opaque)
        /\ oFlagMap' = flags /\ oOpaqueAssignment' = opaque
    BY <1>6, <1>7, <1>8, <1>9, <1>10, <1>11 DEF h, flags, opaque
  <2> QED  BY <1>8, <1>12, <2>1, StepKeeps

LEMMA CallFailsKeeps == SearchInv /\ CallFails => SearchInv'
<1> SUFFICES ASSUME SearchInv, CallFails
             PROVE  SearchInv'
  OBVIOUS
<1>1. /\ pc = "call" /\ pc' = "back" /\ frames' = frames
      /\ UNCHANGED <<inputVars, itSig, order, searchVars>>
  BY DEF CallFails, KeptInPass2
<1>2. Searching /\ InSearch(pc')
  BY <1>1 DEF Searching, InSearch
<1>3. Holding = frames /\ frames \in Seq(Calls) /\ Len(frames) <= Len(order)
  BY <1>1, <1>2, SearchFacts
<1> QED  BY <1>1, <1>2, <1>3, HoldingStays

LEMMA CallAtEndKeeps == SearchInv /\ CallAtEnd => SearchInv'
<1> SUFFICES ASSUME SearchInv, CallAtEnd
             PROVE  SearchInv'
  OBVIOUS
<1>1. /\ pc = "call" /\ pc' \in {"found", "back"} /\ frames' = frames
      /\ UNCHANGED <<inputVars, itSig, order, searchVars>>
  BY DEF CallAtEnd, KeptInPass2
<1>2. Searching /\ InSearch(pc') /\ pc' # "try"
  BY <1>1 DEF Searching, InSearch
<1>3. Holding = frames /\ frames \in Seq(Calls) /\ Len(frames) <= Len(order)
  BY <1>1, <1>2, SearchFacts
<1> QED  BY <1>1, <1>2, <1>3, HoldingStays

LEMMA CallSingleKeeps == SearchInv /\ CallSingle => SearchInv'
<1> SUFFICES ASSUME SearchInv, CallSingle
             PROVE  SearchInv'
  OBVIOUS
<1> DEFINE s == Node
           c == FirstCandidate(oMatrix, Node)
           x == Frame(FALSE, c, Assign(s, c))
           m == Claimed(oMatrix, s, c)
<1>1. /\ pc = "call" /\ pc' = "call" /\ Len(frames) < Len(order) /\ ~Refused(s, c)
      /\ UNCHANGED <<inputVars, itSig, order>>
      /\ oFlagMap' = Flagged(oFlagMap, c) /\ oOpaqueAssignment' = Assigned(s, c)
      /\ frames' = Append(frames, x)
      /\ IF Assign(s, c) = "OK"
         THEN PruneFlagged(m) /\ aStack' = Append(aStack, oMatrix) /\ oMatrix' = Pruned(m)
         ELSE UNCHANGED <<aStack, oMatrix>>
  BY DEF CallSingle, KeptInPass2
<1>2. Searching
  BY <1>1 DEF Searching
<1>3. /\ Given /\ Holding = frames /\ frames \in Seq(Calls) /\ oMatrix \in Full /\ oMatrix \in Matrices
      /\ Len(order) \in Nat /\ \A i \in 1..Len(order) : order[i] \in SignatureNodes
  BY <1>1, <1>2, SearchFacts
<1>4. s = order[Len(Holding) + 1] /\ s \in SignatureNodes
  <2>1. Len(frames) \in Nat
    BY <1>3
  <2>2. s = order[Len(frames) + 1] /\ Len(frames) + 1 \in 1..Len(order)
    BY <1>1, <1>3, <2>1 DEF Node
  <2> QED  BY <1>3, <2>2
<1> HIDE DEF s
<1>5. c \in CodeNodes
  BY <1>3, <1>4, RowFacts DEF s
<1> HIDE DEF c
<1>6. Assign(s, c) = "OK" => oMatrix' \in Full
  <2>1. m \in Matrices
    BY <1>3, <1>4, <1>5, ClaimedFacts
  <2> HIDE DEF m
  <2> QED  BY <1>1, <1>3, <2>1, PrunedFull
<1> HIDE DEF x
<1> QED
  <2>1. FALSE \in BOOLEAN /\ x = Frame(FALSE, c, Assign(s, c))
    BY DEF x
  <2>2. IF FALSE \/ Assign(s, c) = "OK"
         THEN aStack' = Append(aStack, oMatrix) /\ oMatrix' \in Full
         ELSE UNCHANGED <<aStack, oMatrix>>
    BY <1>1, <1>6
  <2>3. Len(Holding) < Len(order) /\ Holding \in Seq(Calls) /\ frames' = Append(Holding, x)
    BY <1>1, <1>3
  <2> QED  BY <1>1, <1>2, <1>4, <1>5, <2>1, <2>2, <2>3, Claims

LEMMA CallEachKeeps == SearchInv /\ CallEach => SearchInv'
<1> SUFFICES ASSUME SearchInv, CallEach
             PROVE  SearchInv'
  OBVIOUS
<1> DEFINE x == Frame(TRUE, FirstCandidate(oMatrix, Node), "none")
           f == Append(frames, x)
<1>1. /\ pc = "call" /\ pc' = "try" /\ Len(frames) < Len(order) /\ frames' = f
      /\ UNCHANGED <<inputVars, itSig, order, searchVars>>
  BY DEF CallEach, KeptInPass2
<1>2. Searching /\ InSearch(pc')
  BY <1>1 DEF Searching, InSearch
<1>3. /\ Given /\ Holding = frames /\ frames \in Seq(Calls) /\ oMatrix \in Full
      /\ Len(order) \in Nat /\ Len(frames) \in Nat /\ \A i \in 1..Len(order) : order[i] \in SignatureNodes
  BY <1>1, <1>2, SearchFacts
<1>4. Node \in SignatureNodes
  <2>1. Len(frames) + 1 \in 1..Len(order)
    BY <1>1, <1>3
  <2> QED  BY <1>3, <2>1 DEF Node
<1>5. FirstCandidate(oMatrix, Node) \in CodeNodes
  BY <1>3, <1>4, RowFacts
<1>6. x.each /\ ~x.ok /\ x \in Calls
  BY <1>5 DEF Frame, Calls
<1> HIDE DEF x
<1>7. /\ f \in Seq(Calls) /\ Len(f) = Len(frames) + 1 /\ Last(f) = x /\ Front(f) = frames
      /\ f # <<>>
  <2>1. /\ f \in Seq(Calls) /\ Len(f) = Len(frames) + 1 /\ Last(f) = x /\ Front(f) = frames
    BY <1>3, <1>6, Appended
  <2> QED  BY <1>3, <2>1
<1> HIDE DEF f
<1>8. Len(f) <= Len(order)
  BY <1>1, <1>3, <1>7
<1> QED  BY <1>1, <1>2, <1>3, <1>6, <1>7, <1>8, HoldingStays

LEMMA TryClaimKeeps == SearchInv /\ TryClaim => SearchInv'
<1> SUFFICES ASSUME SearchInv, TryClaim
             PROVE  SearchInv'
  OBVIOUS
<1> DEFINE s == TopNode
           c == Top.it
           x == Frame(TRUE, c, Assign(s, c))
           m == Settled(oMatrix, s, c)
<1>1. /\ pc = "try" /\ pc' = "call" /\ c # None /\ ~Refused(s, c) /\ PruneFlagged(m)
      /\ UNCHANGED <<inputVars, itSig, order>>
      /\ oFlagMap' = Flagged(oFlagMap, c) /\ oOpaqueAssignment' = Assigned(s, c)
      /\ frames' = Append(Front(frames), x)
      /\ aStack' = Append(aStack, oMatrix) /\ oMatrix' = Pruned(m)
  BY DEF TryClaim, KeptInPass2, Try
<1>2. Searching
  BY <1>1 DEF Searching
<1>3. /\ Given /\ Holding = Front(frames) /\ frames \in Seq(Calls) /\ frames # <<>>
      /\ oMatrix \in Matrices /\ Len(frames) <= Len(order) /\ Len(order) \in Nat
      /\ c \in CodeNodes \cup {None} /\ s \in SignatureNodes /\ s = order[Len(Holding) + 1]
  BY <1>1, <1>2, SearchFacts
<1>4. c \in CodeNodes
  BY <1>1, <1>3
<1>5. /\ Front(frames) \in Seq(Calls) /\ Len(Front(frames)) = Len(frames) - 1 /\ Len(frames) \in Nat
  BY <1>3, Fronted
<1> HIDE DEF s, c, x
<1>6. oMatrix' \in Full
  <2>1. m \in Matrices
    BY <1>3, <1>4, ClaimedFacts
  <2> HIDE DEF m
  <2> QED  BY <1>1, <1>3, <2>1, PrunedFull
<1> QED
  <2>1. TRUE \in BOOLEAN /\ x = Frame(TRUE, c, Assign(s, c))
    BY DEF x
  <2>2. IF TRUE \/ Assign(s, c) = "OK"
         THEN aStack' = Append(aStack, oMatrix) /\ oMatrix' \in Full
         ELSE UNCHANGED <<aStack, oMatrix>>
    BY <1>1, <1>6
  <2>3. Len(Holding) < Len(order) /\ Holding \in Seq(Calls) /\ frames' = Append(Holding, x)
    BY <1>1, <1>3, <1>5
  <2> QED  BY <1>1, <1>2, <1>3, <1>4, <2>1, <2>2, <2>3, Claims

LEMMA TrySkipKeeps == SearchInv /\ TrySkip => SearchInv'
<1> SUFFICES ASSUME SearchInv, TrySkip
             PROVE  SearchInv'
  OBVIOUS
<1> DEFINE x == Frame(TRUE, NextInLoop(oMatrix, TopNode, Top.it), "none")
           f == Append(Front(frames), x)
<1>1. /\ pc = "try" /\ pc' = "try" /\ frames' = f
      /\ UNCHANGED <<inputVars, itSig, order, searchVars>>
  BY DEF TrySkip, KeptInPass2
<1>2. Searching /\ InSearch(pc')
  BY <1>1 DEF Searching, InSearch
<1>3. /\ Given /\ Holding = Front(frames) /\ frames \in Seq(Calls) /\ frames # <<>>
      /\ oMatrix \in Full /\ Len(frames) <= Len(order) /\ TopNode \in SignatureNodes
  BY <1>1, <1>2, SearchFacts
<1>4. /\ Front(frames) \in Seq(Calls) /\ Len(Front(frames)) = Len(frames) - 1 /\ Len(frames) \in Nat
  BY <1>3, Fronted
<1>5. NextInLoop(oMatrix, TopNode, Top.it) \in CodeNodes \cup {None}
  BY <1>3, RowFacts DEF NextInLoop
<1>6. x.each /\ ~x.ok /\ x \in Calls
  BY <1>5 DEF Frame, Calls
<1> HIDE DEF x
<1>7. /\ f \in Seq(Calls) /\ Len(f) = Len(Front(frames)) + 1 /\ Last(f) = x /\ Front(f) = Front(frames)
  BY <1>4, <1>6, Appended
<1> HIDE DEF f
<1>8. f # <<>> /\ Len(f) <= Len(order)
  BY <1>3, <1>4, <1>7
<1> QED  BY <1>1, <1>2, <1>3, <1>6, <1>7, <1>8, HoldingStays

LEMMA TryNoneKeeps == SearchInv /\ TryNone => SearchInv'
<1> SUFFICES ASSUME SearchInv, TryNone
             PROVE  SearchInv'
  OBVIOUS
<1> DEFINE f == Front(frames)
<1>1. /\ pc = "try" /\ pc' = "back" /\ frames' = f
      /\ UNCHANGED <<inputVars, itSig, order, searchVars>>
  BY DEF TryNone, KeptInPass2
<1>2. Searching /\ InSearch(pc')
  BY <1>1 DEF Searching, InSearch
<1>3. /\ Holding = f /\ frames \in Seq(Calls) /\ frames # <<>>
      /\ Len(frames) <= Len(order) /\ Len(order) \in Nat
  BY <1>1, <1>2, SearchFacts
<1>4. f \in Seq(Calls) /\ Len(f) = Len(frames) - 1 /\ Len(frames) \in Nat
  BY <1>3, Fronted
<1> HIDE DEF f
<1>5. Len(f) <= Len(order)
  BY <1>3, <1>4
<1> QED  BY <1>1, <1>2, <1>3, <1>4, <1>5, HoldingStays

\* The calls that are left when the last returns.
LEMMA Popped ==
  ASSUME NEW S, NEW h \in Seq(S), h # <<>>
  PROVE  Append(Front(h), Last(h)) = h
<1>1. /\ Front(h) \in Seq(S) /\ Len(Front(h)) = Len(h) - 1 /\ Len(h) \in Nat
      /\ DOMAIN Front(h) = 1..(Len(h) - 1) /\ Last(h) = h[Len(h)] /\ Last(h) \in S
      /\ \A i \in DOMAIN Front(h) : Front(h)[i] = h[i]
  BY Fronted
<1> DEFINE g == Append(Front(h), Last(h))
<1>2. /\ g \in Seq(S) /\ Len(g) = Len(h)
      /\ g[Len(h)] = h[Len(h)] /\ \A i \in 1..(Len(h) - 1) : g[i] = h[i]
  BY <1>1, Appended
<1> HIDE DEF g
<1>3. \A i \in 1..Len(h) : g[i] = h[i]
  BY <1>1, <1>2
<1>4. g = h
  BY <1>2, <1>3
<1> QED  BY <1>4 DEF g

LEMMA ReturnFalseKeeps == SearchInv /\ ReturnFalse => SearchInv'
<1> SUFFICES ASSUME SearchInv, ReturnFalse
             PROVE  SearchInv'
  OBVIOUS
<1> DEFINE h == Front(frames)
           last == Last(frames)
           flags == Unflagged(oFlagMap, last.it)
           opaque == IF last.ok
                     THEN [oOpaqueAssignment EXCEPT ![RefOf(order[Len(frames)])] = Unknown]
                     ELSE oOpaqueAssignment
           x == Frame(TRUE, NextInLoop(oMatrix', TopNode, last.it), "none")
<1>1. /\ pc = "back" /\ frames # <<>> /\ UNCHANGED <<inputVars, itSig, order>>
      /\ oFlagMap' = flags /\ oOpaqueAssignment' = opaque
      /\ IF last.each \/ last.ok
         THEN aStack' = Front(aStack) /\ oMatrix' = Last(aStack)
         ELSE UNCHANGED <<aStack, oMatrix>>
      /\ IF last.each THEN frames' = Append(h, x) /\ pc' = "try"
                      ELSE frames' = h /\ pc' = "back"
  BY DEF ReturnFalse, KeptInPass2, Top, Unassigned, TopNode
<1>2. Searching /\ InSearch(pc')
  BY <1>1 DEF Searching, InSearch
<1>3. /\ Given /\ Holding = frames /\ frames \in Seq(Calls) /\ oMatrix \in Full /\ aStack \in Seq(Full)
      /\ Len(frames) <= Len(order) /\ Len(order) \in Nat
      /\ \A i \in 1..Len(order) : order[i] \in SignatureNodes
      /\ \A i \in DOMAIN frames : frames[i].it \in CodeNodes
      /\ Len(aStack) = Cardinality(Pushes(frames))
      /\ FlagsOf(frames, oFlagMap) /\ OpaqueOf(frames, oOpaqueAssignment)
  BY <1>1, <1>2, SearchFacts
<1>4. /\ h \in Seq(Calls) /\ Len(h) = Len(frames) - 1 /\ Len(frames) \in Nat
      /\ last \in Calls /\ (\A i \in DOMAIN h : h[i].it \in CodeNodes) /\ Append(h, last) = frames
      /\ Len(frames) \in DOMAIN frames
  <2>1. /\ Front(frames) \in Seq(Calls) /\ Len(Front(frames)) = Len(frames) - 1
        /\ Len(frames) \in Nat /\ Len(frames) \in DOMAIN frames /\ Last(frames) \in Calls
        /\ DOMAIN frames = DOMAIN Front(frames) \cup {Len(frames)}
        /\ \A i \in DOMAIN Front(frames) : Front(frames)[i] = frames[i]
    BY <1>1, <1>3, Fronted
  <2>2. Append(Front(frames), Last(frames)) = frames
    BY <1>1, <1>3, Popped
  <2>3. ASSUME NEW i \in DOMAIN Front(frames) PROVE Front(frames)[i].it \in CodeNodes
    BY <1>3, <2>1
  <2> QED  BY <2>1, <2>2, <2>3
<1>5. FlagsOf(h, flags)
  BY <1>1, <1>3, FlagPopped, GivenFacts
<1>6. OpaqueOf(h, opaque)
  BY <1>1, <1>3, OpaquePopped
<1>7. TopNode \in SignatureNodes
  <2>1. Len(frames) \in 1..Len(order)
    BY <1>3, <1>4
  <2> QED  BY <1>3, <2>1 DEF TopNode
<1> HIDE DEF h, last, flags, opaque
<1>8. /\ Cardinality(Pushes(h)) \in Nat
      /\ Cardinality(Pushes(frames)) = Cardinality(Pushes(h)) + (IF last.each \/ last.ok THEN 1 ELSE 0)
  BY <1>4, PushesChange
<1>9. oMatrix' \in Full /\ aStack' \in Seq(Full) /\ Len(aStack') = Cardinality(Pushes(h))
  <2>1. CASE last.each \/ last.ok
    <3>1. aStack # <<>> /\ Len(aStack) = Cardinality(Pushes(h)) + 1
      BY <1>3, <1>8, <2>1
    <3>2. Front(aStack) \in Seq(Full) /\ Len(Front(aStack)) = Len(aStack) - 1 /\ Last(aStack) \in Full
      BY <1>3, <3>1, Fronted
    <3> QED  BY <1>1, <1>8, <2>1, <3>1, <3>2
  <2>2. CASE ~(last.each \/ last.ok)
    BY <1>1, <1>3, <1>8, <2>2
  <2> QED  BY <2>1, <2>2
<1>10. x.each /\ ~x.ok /\ x \in Calls
  <2> DEFINE m == oMatrix'
  <2>1. m \in Full
    BY <1>9
  <2> HIDE DEF m
  <2>2. NextCandidate(m, TopNode, last.it) \in m[TopNode] \cup {None} /\ m[TopNode] \subseteq CodeNodes
    BY <1>3, <1>7, <2>1, RowFacts
  <2>3. NextInLoop(m, TopNode, last.it) \in CodeNodes \cup {None}
    BY <2>2 DEF NextInLoop
  <2>4. x = Frame(TRUE, NextInLoop(m, TopNode, last.it), "none")
    BY DEF m
  <2> HIDE DEF x
  <2> QED  BY <2>3, <2>4 DEF Frame, Calls
<1>11. PICK xx \in Calls : xx = x
  BY <1>10
<1>12. CASE last.each
  <2> DEFINE f == Append(h, xx)
  <2>1. frames' = f /\ pc' = "try" /\ xx.each /\ ~xx.ok
    BY <1>1, <1>10, <1>11, <1>12
  <2>2. f \in Seq(Calls) /\ Len(f) = Len(h) + 1 /\ Last(f) = xx /\ Front(f) = h
    BY <1>4, Appended
  <2> HIDE DEF f, x
  <2>3. Len(f) <= Len(order) /\ f # <<>>
    BY <1>3, <1>4, <2>2
  <2> QED  BY <1>1, <1>2, <1>4, <1>5, <1>6, <1>9, <2>1, <2>2, <2>3, StepKeeps
<1>13. CASE ~last.each
  <2>1. frames' = h /\ pc' = "back" /\ Len(h) <= Len(order)
    BY <1>1, <1>3, <1>4, <1>13
  <2> HIDE DEF x
  <2> QED  BY <1>1, <1>2, <1>4, <1>5, <1>6, <1>9, <2>1, StepKeeps
<1> QED  BY <1>12, <1>13

-----------------------------------------------------------------------------
(* The other steps *)

LEMMA NextVariantKeeps ==
  ASSUME SearchInv, pc \in {"pass1", "back"}, frames = <<>>, NextVariant
  PROVE  SearchInv'
<1>1. /\ frames' = <<>> /\ aStack' = <<>> /\ oFlagMap' = <<>>
      /\ oOpaqueAssignment' = [r \in Refs |-> Unknown] /\ UNCHANGED inputVars
      /\ pc' \in {"pass1", "failed"}
      /\ pc' = "pass1" => itSig' = itSig + 1 /\ HasNextVariant
      /\ pc' = "failed" => itSig' = itSig
  BY DEF NextVariant
<1>2. /\ IsEvaluable(oSignatureDefinition, oCodeGraph) /\ oSignatureDefinition # <<>>
      /\ itSig \in 1..Len(oSignatureDefinition)
  BY DEF SearchInv, Inputs
<1>3. /\ itSig' \in 1..Len(oSignatureDefinition')
      /\ oSignatureDefinition' = oSignatureDefinition /\ oCodeGraph' = oCodeGraph
  BY <1>1, <1>2 DEF HasNextVariant, IsEvaluable, inputVars
<1>4. Inputs'
  BY <1>1, <1>2, <1>3 DEF Inputs, Phases
<1>5. Fresh' /\ Shape'
  BY <1>1 DEF Fresh, Shape, Searching
<1>6. Holding' = <<>>
  BY <1>1 DEF Holding
<1>7. Effects'
  <2>1. PICK o : o = oOpaqueAssignment' /\ o = [r \in Refs |-> Unknown]
    BY <1>1
  <2>2. FlagsOf(Holding, oFlagMap)' /\ Pushes(Holding)' = Pushes(<<>>)
    BY <1>1, <1>6 DEF FlagsOf, AssignedIn, Pushes
  <2>3. OpaqueOf(Holding, oOpaqueAssignment)'
    BY <1>1, <1>6 DEF OpaqueOf, By
  <2>4. Len(aStack') = 0 /\ Cardinality(Pushes(<<>>)) = 0
    BY <1>1, <2>1, NothingHeld
  <2> QED  BY <2>2, <2>3, <2>4 DEF Effects
<1> QED  BY <1>4, <1>5, <1>7 DEF SearchInv

LEMMA CandidatesFacts ==
  ASSUME Given, NEW fitting \in Matrices, NEW inputOrder
  PROVE  Candidates(fitting, inputOrder) \in Matrices
  BY DEF Candidates, Matrices

LEMMA Pass1Keeps == SearchInv /\ Pass1 => SearchInv'
<1> SUFFICES ASSUME SearchInv, Pass1
             PROVE  SearchInv'
  OBVIOUS
<1>1. PICK inputOrder \in SetToSeqs(SignatureNodes \ SignatureRoots) :
        LET m == Candidates(Fitting, inputOrder)
        IN IF (\A s \in SignatureRoots : m[s] # {}) /\ PruneFlagged(m)
           THEN /\ oMatrix' = Pruned(m)
                /\ pc' = "pass2"
                /\ UNCHANGED <<inputVars, itSig, order, aStack, oFlagMap, oOpaqueAssignment,
                               frames, oMapping, late>>
           ELSE NextVariant
  BY DEF Pass1
<1> DEFINE m == Candidates(Fitting, inputOrder)
<1>2. pc = "pass1" /\ Given
  BY GivenInSearch DEF Pass1
<1>3. frames = <<>>
  BY <1>2 DEF SearchInv, Fresh, Searching
<1>4. m \in Matrices
  BY <1>2, FittingFacts, CandidatesFacts
<1> HIDE DEF m
<1>5. CASE (\A s \in SignatureRoots : m[s] # {}) /\ PruneFlagged(m)
  <2>1. /\ oMatrix' = Pruned(m) /\ pc' = "pass2"
        /\ UNCHANGED <<oSignatureDefinition, oCodeGraph, itSig, order, aStack, oFlagMap,
                       oOpaqueAssignment, frames>>
    BY <1>1, <1>5 DEF m, inputVars
  <2>2. Pruned(m) \in Full
    BY <1>2, <1>4, <1>5, PrunedFull
  <2>3. Full' = Full
    BY <2>1 DEF Full, Matrices, SignatureNodes, CodeNodes, oSignatureGraph
  <2>4. Inputs'
    BY <1>2, <2>1 DEF SearchInv, Inputs, Phases
  <2>5. Fresh' /\ Shape'
    BY <1>2, <2>1, <2>2, <2>3 DEF SearchInv, Fresh, Shape, Searching
  <2>6. Effects'
    BY <1>2, <1>3, <2>1 DEF SearchInv, Effects, Holding, FlagsOf, OpaqueOf, By, Pushes, RefOf,
                            TypeSpec, CodeNodes, oSignatureGraph
  <2> QED  BY <2>4, <2>5, <2>6 DEF SearchInv
<1>6. CASE ~((\A s \in SignatureRoots : m[s] # {}) /\ PruneFlagged(m))
  <2>1. NextVariant
    BY <1>1, <1>6 DEF m
  <2> QED  BY <1>2, <1>3, <2>1, NextVariantKeeps
<1> QED  BY <1>5, <1>6

LEMMA Pass2Keeps == SearchInv /\ Pass2 => SearchInv'
<1> SUFFICES ASSUME SearchInv, Pass2
             PROVE  SearchInv'
  OBVIOUS
<1>1. /\ pc = "pass2" /\ pc' = "call" /\ order' \in Orders
      /\ UNCHANGED <<oSignatureDefinition, oCodeGraph, itSig, oMatrix, aStack, oFlagMap,
                     oOpaqueAssignment, frames>>
  BY DEF Pass2, searchVars, inputVars
<1>2. Given
  BY <1>1, GivenInSearch
<1>3. Full' = Full /\ Orders' = Orders
  BY <1>1 DEF Full, Matrices, Orders, SignatureNodes, CodeNodes, oSignatureGraph
<1>4. Inputs' /\ Fresh'
  BY <1>1 DEF SearchInv, Inputs, Fresh, Phases, Searching
<1>5. frames = <<>> /\ aStack = <<>> /\ oMatrix \in Full
  BY <1>1 DEF SearchInv, Fresh, Shape, Searching
<1>6. Len(order') \in Nat
  <2>1. Cardinality(SignatureNodes) \in Nat
    BY <1>2, GivenFacts, FS_CardinalityType
  <2>2. order' \in [1..Cardinality(SignatureNodes) -> SignatureNodes]
    BY <1>1 DEF Orders, SetToSeqs
  <2> QED  BY <2>1, <2>2
<1>7. Shape'
  <2>1. frames' \in Seq(Calls') /\ Len(frames') = 0 /\ aStack' \in Seq(Full) /\ DOMAIN frames' = {}
    BY <1>1, <1>5
  <2> QED  BY <1>1, <1>3, <1>5, <1>6, <2>1 DEF Shape, Holding
<1>8. Effects'
  BY <1>1, <1>5 DEF SearchInv, Effects, Holding, FlagsOf, OpaqueOf, By, Pushes, RefOf,
                    TypeSpec, CodeNodes, oSignatureGraph
<1> QED  BY <1>4, <1>7, <1>8 DEF SearchInv

LEMMA EvaluateKeeps ==
  ASSUME SearchInv, IsEvaluable(oSignatureDefinition', oCodeGraph'),
         Evaluate(oSignatureDefinition', oCodeGraph')
  PROVE  SearchInv'
<1>1. /\ pc = "idle" /\ pc' = IF oSignatureDefinition' = <<>> THEN "failed" ELSE "pass1"
      /\ UNCHANGED <<itSig, order, oMatrix, aStack, oFlagMap, oOpaqueAssignment, frames>>
  BY DEF Evaluate, searchVars
<1>2. itSig = 1 /\ frames = <<>> /\ aStack = <<>> /\ oFlagMap = <<>>
      /\ oOpaqueAssignment = [r \in Refs |-> Unknown]
  BY <1>1 DEF SearchInv, Inputs, Fresh, Searching
<1>3. oSignatureDefinition' # <<>> => 1 \in 1..Len(oSignatureDefinition')
  BY DEF IsEvaluable
<1>4. Inputs'
  BY <1>1, <1>2, <1>3 DEF Inputs, Phases
<1>5. Fresh' /\ Shape'
  BY <1>1, <1>2 DEF Fresh, Shape, Searching
<1>6. Effects'
  <2>1. Holding' = <<>>
    BY <1>1, <1>2 DEF Holding
  <2>2. FlagsOf(Holding, oFlagMap)' /\ Pushes(Holding)' = Pushes(<<>>)
    BY <1>1, <1>2, <2>1 DEF FlagsOf, AssignedIn, Pushes
  <2>3. OpaqueOf(Holding, oOpaqueAssignment)'
    BY <1>1, <1>2, <2>1 DEF OpaqueOf, By
  <2>4. Len(aStack') = 0 /\ Cardinality(Pushes(<<>>)) = 0
    BY <1>1, <1>2, NothingHeld
  <2> QED  BY <2>2, <2>3, <2>4 DEF Effects
<1> QED  BY <1>4, <1>5, <1>6 DEF SearchInv

LEMMA UnchangedKeeps ==
  ASSUME SearchInv,
         UNCHANGED <<inputVars, itSig, order, searchVars, frames, pc>>
  PROVE  SearchInv'
<1>1. UNCHANGED <<oSignatureDefinition, oCodeGraph, itSig, order, oMatrix, aStack, oFlagMap,
                  oOpaqueAssignment, frames, pc>>
  BY DEF inputVars, searchVars
<1>2. /\ CodeNodes' = CodeNodes /\ Full' = Full /\ Calls' = Calls /\ Orders' = Orders
      /\ (\A s : RefOf(s)' = RefOf(s)) /\ (\A c : TypeSpec(c)' = TypeSpec(c))
  BY SameGraphs
<1>3. Holding' = Holding /\ Top' = Top /\ (Searching' <=> Searching)
  BY <1>1 DEF Holding, Top, Searching
<1>4. Inputs' /\ Fresh'
  BY <1>1, <1>3 DEF SearchInv, Inputs, Fresh
<1>5. Shape'
  BY <1>1, <1>2, <1>3 DEF SearchInv, Shape
<1>6. Effects'
  <2>1. FlagsOf(Holding, oFlagMap)' /\ Pushes(Holding)' = Pushes(Holding)
    BY <1>1, <1>2, <1>3 DEF SearchInv, Effects, FlagsOf, Pushes
  <2>2. \A r : By(Holding, r)' = By(Holding, r)
    BY <1>1, <1>2, <1>3 DEF By
  <2>3. OpaqueOf(Holding, oOpaqueAssignment)'
    BY <1>1, <1>2, <1>3, <2>2 DEF SearchInv, Effects, OpaqueOf
  <2> QED  BY <1>1, <2>1, <2>3 DEF SearchInv, Effects
<1> QED  BY <1>4, <1>5, <1>6 DEF SearchInv

LEMMA SearchInit == EvaluatorInit => SearchInv
<1> SUFFICES ASSUME EvaluatorInit
             PROVE  SearchInv
  OBVIOUS
<1>1. Inputs /\ Fresh /\ Shape
  BY DEF EvaluatorInit, Inputs, Fresh, Shape, Phases, Searching
<1>2. Effects
  <2>1. Holding = <<>> /\ aStack = <<>> /\ oFlagMap = <<>> /\ oOpaqueAssignment = [r \in Refs |-> Unknown]
    BY DEF EvaluatorInit, Holding
  <2> QED  BY <2>1, NothingHeld DEF Effects
<1> QED  BY <1>1, <1>2 DEF SearchInv

LEMMA SearchNext == SearchInv /\ [EvaluatorNext]_evaluatorVars => SearchInv'
<1> SUFFICES ASSUME SearchInv, [EvaluatorNext]_evaluatorVars
             PROVE  SearchInv'
  OBVIOUS
<1>1. CASE GiveUp
  BY <1>1, NextVariantKeeps DEF GiveUp
<1>2. CASE Step
  BY <1>1, <1>2, Pass1Keeps, Pass2Keeps, CallFailsKeeps, CallSingleKeeps, CallEachKeeps, CallAtEndKeeps,
     TryClaimKeeps, TrySkipKeeps, TryNoneKeeps, ReturnFalseKeeps DEF Step
<1>3. CASE TimeIsUp
  BY <1>3, UnchangedKeeps DEF TimeIsUp
<1>4. CASE UNCHANGED evaluatorVars
  BY <1>4, UnchangedKeeps DEF evaluatorVars
<1> QED  BY <1>2, <1>3, <1>4, EvaluateKeeps DEF EvaluatorNext

(***************************************************************************)
(* In every search the matrices pushed, the flags and the opaque types are  *)
(* those of the calls of Pass2Recurse that are under way.                   *)
(***************************************************************************)
THEOREM SearchInvariant == EvaluatorSpec => []SearchInv
  BY SearchInit, SearchNext, PTL DEF EvaluatorSpec

(***************************************************************************)
(* A call of Pass2Recurse that returns false has undone what it did, and    *)
(* nothing of what others did: matrices, flags and opaque types.            *)
(***************************************************************************)
THEOREM AlwaysBacktracked == EvaluatorSpec => []Backtracked
<1>1. SearchInv => Backtracked
  <2> SUFFICES ASSUME SearchInv
               PROVE  Backtracked
    OBVIOUS
  <2>1. Len(aStack) = Cardinality({i \in DOMAIN Holding : Holding[i].each \/ Holding[i].ok})
    BY DEF SearchInv, Effects, Pushes
  <2>2. ASSUME NEW c \in CodeNodes
        PROVE  /\ IsAssigned(c) => \E i \in DOMAIN Holding : Holding[i].it = c
               /\ c \in Readable => Cardinality({i \in DOMAIN Holding : Holding[i].it = c}) =
                                      (IF IsAssigned(c) THEN 1 ELSE 0)
    <3> DEFINE held == {i \in DOMAIN Holding : Holding[i].it = c}
    <3>1. FlagsOf(Holding, oFlagMap) /\ (IsAssigned(c) <=> AssignedIn(oFlagMap, c))
      BY DEF SearchInv, Effects, IsAssigned, AssignedIn
    <3>2. IsAssigned(c) => \E i \in held : TRUE
      BY <3>1 DEF FlagsOf
    <3>3. ASSUME c \in Readable
          PROVE  Cardinality(held) = IF IsAssigned(c) THEN 1 ELSE 0
      <4>1. \A i \in held : IsAssigned(c) /\ \A j \in held : j = i
        BY <3>1, <3>3 DEF FlagsOf, Readable, Legible
      <4> HIDE DEF held
      <4>2. ASSUME IsAssigned(c)
            PROVE  Cardinality(held) = 1
        <5>1. PICK i \in held : TRUE
          BY <3>2, <4>2
        <5>2. held = {i}
          BY <4>1, <5>1
        <5> QED  BY <5>2, FS_Singleton
      <4>3. ASSUME ~IsAssigned(c)
            PROVE  Cardinality(held) = 0
        <5>1. held = {}
          BY <4>1, <4>3
        <5> QED  BY <5>1, FS_EmptySet
      <4> QED  BY <4>2, <4>3
    <3> QED  BY <3>2, <3>3
  <2>3. ASSUME NEW r \in Refs
        PROVE  LET by == {i \in DOMAIN Holding : RefOf(order[i]) = r}
               IN /\ \A i \in by : TypeSpec(Holding[i].it) = oOpaqueAssignment[r]
                  /\ Cardinality({i \in by : Holding[i].ok}) =
                       (IF oOpaqueAssignment[r] = Unknown THEN 0 ELSE 1)
    <3> DEFINE by == By(Holding, r)
               set == {i \in by : Holding[i].ok}
    <3>1. by = {i \in DOMAIN Holding : RefOf(order[i]) = r}
      BY DEF By
    <3>2. \/ by = {} /\ oOpaqueAssignment[r] = Unknown
          \/ \E first \in by :
               /\ Holding[first].ok
               /\ \A i \in by : /\ first <= i /\ (Holding[i].ok => i = first)
                                /\ oOpaqueAssignment[r] = TypeSpec(Holding[i].it)
      BY DEF SearchInv, Effects, OpaqueOf
    <3> HIDE DEF by
    <3>3. CASE by = {} /\ oOpaqueAssignment[r] = Unknown
      <4>1. set = {}
        BY <3>3
      <4> HIDE DEF set
      <4>2. Cardinality(set) = 0
        BY <4>1, FS_EmptySet
      <4> QED  BY <3>1, <3>3, <4>2 DEF set
    <3>4. CASE by # {}
      <4>1. PICK first \in by :
               /\ Holding[first].ok
               /\ \A i \in by : /\ first <= i /\ (Holding[i].ok => i = first)
                                /\ oOpaqueAssignment[r] = TypeSpec(Holding[i].it)
        BY <3>2, <3>4
      <4>2. oOpaqueAssignment[r] # Unknown
        BY <4>1, TypeSpecKnown
      <4>3. set = {first}
        BY <4>1
      <4> HIDE DEF set
      <4>4. Cardinality(set) = 1
        BY <4>3, FS_Singleton
      <4> QED  BY <3>1, <4>1, <4>2, <4>4 DEF set
    <3> QED  BY <3>2, <3>3, <3>4
  <2> QED  BY <2>1, <2>2, <2>3 DEF Backtracked
<1> QED  BY <1>1, SearchInvariant, PTL

-----------------------------------------------------------------------------
(* What pruning leaves *)

\* Rows hold nothing but candidates, each with neighbours of its own.
Sound == {m \in Full : /\ SelfSupporting(m)
                       /\ \A s \in SignatureNodes : \A c \in m[s] : IsCandidate(s, c)}

LEMMA PrunedSound ==
  ASSUME Given, NEW m \in Matrices, PruneFlagged(m),
         \A s \in SignatureNodes : \A c \in m[s] : IsCandidate(s, c)
  PROVE  Pruned(m) \in Sound
<1>1. Pruned(m) \in Full
  BY PrunedFull
<1>2. SelfSupporting(Pruned(m)) /\ Below(Pruned(m), m)
  BY PrunedFacts
<1> QED  BY <1>1, <1>2 DEF Sound, Below

LEMMA StillSound ==
  ASSUME Given, NEW m \in Sound, NEW n \in Matrices, Below(n, m), PruneFlagged(n)
  PROVE  Pruned(n) \in Sound /\ Below(Pruned(n), m)
<1>1. \A s \in SignatureNodes : \A c \in n[s] : IsCandidate(s, c)
  BY DEF Sound, Below
<1>2. Below(Pruned(n), n)
  BY PrunedFacts
<1> QED  BY <1>1, <1>2, PrunedSound DEF Below

(***************************************************************************)
(* The loop over the candidates of a row: it comes to each that is ahead.   *)
(***************************************************************************)
Ahead(row, c, d) == c # None /\ (d = c \/ d \in After(row, c))

\* Behind a number of the row come all that are greater.
LEMMA AfterInRow ==
  ASSUME NEW row, row \subseteq Nat, NEW c \in row
  PROVE  After(row, c) = {d \in row : c < d}
<1> DEFINE words == {Block(d) : d \in {e \in row : Block(e) >= Block(c)}}
<1>1. Block(c) \in Nat /\ \A d \in row : d \in Nat /\ Block(d) \in Nat
  BY WordAndBit
<1>2. Lowest(words) = Block(c)
  <2>1. words \subseteq Nat /\ Block(c) \in words /\ \A w \in words : w >= Block(c)
    BY <1>1
  <2> HIDE DEF words
  <2>2. Lowest(words) \in words /\ Lowest(words) <= Block(c)
    BY <2>1, LowestType
  <2>3. Lowest(words) >= Block(c) /\ Lowest(words) \in Nat
    BY <2>1, <2>2
  <2> QED  BY <1>1, <2>2, <2>3
<1>3. words # {}
  BY <1>1
<1>4. ASSUME NEW d \in row, c < d
      PROVE  d \in After(row, c)
  <2>1. ~(Block(d) < Block(c))
    <3>1. Block(d) < Block(c) => d < c
      BY <1>1, WordAndBit
    <3> QED  BY <1>1, <1>4, <3>1
  <2>2. CASE Block(d) = Block(c)
    <3>1. Bit(c) \in Int /\ Bit(d) \in Int
      BY <1>1, WordAndBit, BlockSizeAssumption
    <3>2. Bit(d) < Bit(c) => d < c
      BY <1>1, <2>2, WordAndBit
    <3>3. Bit(d) = Bit(c) => d = c
      BY <1>1, <2>2, WordAndBit
    <3>4. Bit(d) > Bit(c)
      BY <1>1, <1>4, <3>1, <3>2, <3>3
    <3> QED  BY <1>2, <2>2, <3>4 DEF After
  <2>3. CASE Block(d) > Block(c)
    BY <1>2, <1>3, <2>3 DEF After
  <2> QED  BY <1>1, <2>1, <2>2, <2>3
<1> QED  BY <1>1, <1>4, AfterGreater

LEMMA LoopBegins ==
  ASSUME NEW row, row \subseteq Nat, NEW d \in row
  PROVE  Ahead(row, Lowest(row), d)
<1>1. Lowest(row) \in row /\ Lowest(row) <= d
  BY LowestType
<1>2. After(row, Lowest(row)) = {e \in row : Lowest(row) < e}
  BY <1>1, AfterInRow
<1>3. Lowest(row) \in Nat /\ d \in Nat
  BY <1>1
<1> QED  BY <1>1, <1>2, <1>3 DEF Ahead, None

LEMMA LoopGoesOn ==
  ASSUME NEW row, row \subseteq Nat, NEW c, NEW d, Ahead(row, c, d), d # c
  PROVE  Ahead(row, Lowest(After(row, c)), d)
<1> DEFINE next == Lowest(After(row, c))
<1>1. d \in After(row, c) /\ After(row, c) \subseteq row
  BY DEF Ahead, After
<1>2. next \in After(row, c) /\ next <= d
  BY <1>1, LowestType
<1>3. next \in row /\ next \in Nat /\ d \in Nat /\ d \in row
  BY <1>1, <1>2
<1> HIDE DEF next
<1>4. After(row, next) = {e \in row : next < e}
  BY <1>3, AfterInRow
<1>5. next # None /\ (d = next \/ next < d)
  BY <1>2, <1>3 DEF None
<1> QED  BY <1>3, <1>4, <1>5 DEF Ahead, next

\* What HasSingle finds out.
LEMMA SingleCandidate ==
  ASSUME NEW row, row \subseteq Nat, row # {}, Lowest(After(row, Lowest(row))) = None
  PROVE  row = {Lowest(row)}
<1>1. Lowest(row) \in row /\ Lowest(row) \in Nat /\ \A d \in row : Lowest(row) <= d /\ d \in Nat
  BY LowestType
<1>2. After(row, Lowest(row)) = {e \in row : Lowest(row) < e}
  BY <1>1, AfterInRow
<1>3. After(row, Lowest(row)) = {}
  <2>1. After(row, Lowest(row)) \subseteq Nat
    BY <1>2
  <2>2. Lowest(After(row, Lowest(row))) \notin Nat
    BY DEF None
  <2> QED  BY <2>1, <2>2, LowestType
<1>4. \A d \in row : d = Lowest(row)
  BY <1>1, <1>2, <1>3
<1> QED  BY <1>1, <1>4

-----------------------------------------------------------------------------
(* Matches *)

\* The matches of the variant that NoMatchMissed is about.
Matches == {M \in [SignatureNodes -> CodeNodes] : IsInjective(M) /\ IsMatch(oSignatureGraph, M)}

Among(M, m) == \A s \in SignatureNodes : M[s] \in m[s]
Alone(M) == [s \in SignatureNodes |-> {M[s]}]

LEMMA MatchFacts ==
  ASSUME Given, NEW M \in Matches
  PROVE  /\ \A s \in SignatureNodes :
              /\ M[s] \in CodeNodes /\ IsCandidate(s, M[s])
              /\ InOrder(s) =>
                   /\ Len(oSignatureGraph.inputs[s]) = Len(oCodeGraph.inputs[M[s]])
                   /\ \A k \in DOMAIN oSignatureGraph.inputs[s] :
                        oCodeGraph.inputs[M[s]][k] = M[oSignatureGraph.inputs[s][k]]
              /\ \A e \in ToSet(oSignatureGraph.inputs[s]) : M[e] \in ToSet(oCodeGraph.inputs[M[s]])
         /\ \A s, t \in SignatureNodes : RefOf(s) = RefOf(t) /\ RefOf(s) # NoRef
                                           => TypeSpec(M[s]) = TypeSpec(M[t])
         /\ \A s, t \in SignatureNodes : M[s] = M[t] => s = t
         /\ Alone(M) \in Matrices /\ \A s \in SignatureNodes : Alone(M)[s] = {M[s]}
         /\ \A m \in Matrices : Among(M, m) <=> Below(Alone(M), m)
<1> DEFINE g == oSignatureGraph
<1>1. M \in [SignatureNodes -> CodeNodes] /\ IsInjective(M) /\ IsMatch(g, M) /\ DOMAIN g.type = SignatureNodes
  BY DEF Matches, SignatureNodes
<1>2. ASSUME NEW s \in SignatureNodes
      PROVE  IsCandidate(s, M[s])
  <2>1. \/ g.type[s] = "OPAQUE"
        \/ /\ g.type[s] = oCodeGraph.type[M[s]]
           /\ g.type[s] = "CONSTANT" => g.value[s] = oCodeGraph.value[M[s]]
    BY <1>1 DEF IsMatch, IsMatchOf
  <2> QED  BY <2>1 DEF IsCandidate, TypeSpec
<1>3. ASSUME NEW s \in SignatureNodes
      PROVE  /\ InOrder(s) =>
                   /\ Len(g.inputs[s]) = Len(oCodeGraph.inputs[M[s]])
                   /\ \A k \in DOMAIN g.inputs[s] : oCodeGraph.inputs[M[s]][k] = M[g.inputs[s][k]]
             /\ \A e \in ToSet(g.inputs[s]) : M[e] \in ToSet(oCodeGraph.inputs[M[s]])
  <2> DEFINE ins == g.inputs[s]
             outs == oCodeGraph.inputs[M[s]]
  <2>1. ins \in Seq(SignatureNodes) /\ outs \in Seq(CodeNodes)
    BY <1>1, GivenFacts
  <2>2. IF InOrder(s)
        THEN Len(ins) = Len(outs) /\ \A k \in DOMAIN ins : ins[k] \in SignatureNodes => outs[k] = M[ins[k]]
        ELSE \A e \in ToSet(ins) \cap SignatureNodes : M[e] \in ToSet(outs)
    BY <1>1 DEF IsMatch, IsMatchOf, InOrder
  <2>3. (\A k \in DOMAIN ins : ins[k] \in SignatureNodes) /\ ToSet(ins) \subseteq SignatureNodes
    BY InputFacts
  <2> HIDE DEF ins, outs
  <2>4. CASE InOrder(s)
    <3>1. Len(ins) = Len(outs) /\ \A k \in DOMAIN ins : outs[k] = M[ins[k]]
      BY <2>2, <2>3, <2>4
    <3>2. DOMAIN outs = DOMAIN ins
      BY <2>1, <3>1
    <3>3. \A e \in ToSet(ins) : M[e] \in ToSet(outs)
      BY <3>1, <3>2 DEF ToSet
    <3> QED  BY <3>1, <3>3 DEF ins, outs
  <2>5. CASE ~InOrder(s)
    BY <2>2, <2>3, <2>5 DEF ins, outs
  <2> QED  BY <2>4, <2>5
<1>4. ASSUME NEW s \in SignatureNodes, NEW t \in SignatureNodes, RefOf(s) = RefOf(t), RefOf(s) # NoRef
      PROVE  TypeSpec(M[s]) = TypeSpec(M[t])
  <2>1. g.type[s] = "OPAQUE" /\ g.type[t] = "OPAQUE" /\ g.value[s] = g.value[t] /\ g.value[s] # NoRef
    BY <1>4 DEF RefOf
  <2> QED  BY <1>1, <2>1 DEF IsMatch, IsMatchOf
<1>5. \A s, t \in SignatureNodes : M[s] = M[t] => s = t
  BY <1>1 DEF IsInjective
<1>6. Alone(M) \in Matrices /\ \A s \in SignatureNodes : Alone(M)[s] = {M[s]}
  BY <1>1 DEF Alone, Matrices
<1>7. \A m \in Matrices : Among(M, m) <=> Below(Alone(M), m)
  BY <1>6 DEF Among, Below
<1> HIDE DEF g
<1> QED  BY <1>1, <1>2, <1>3, <1>4, <1>5, <1>6, <1>7 DEF g

\* A match, taken for a matrix, has all its neighbours.
LEMMA MatchSupported ==
  ASSUME Given, NEW M \in Matches
  PROVE  SelfSupporting(Alone(M))
<1> SUFFICES ASSUME NEW s \in SignatureNodes
             PROVE  Supported(Alone(M), s, M[s])
  BY MatchFacts DEF SelfSupporting
<1> DEFINE ins == oSignatureGraph.inputs[s]
           outs == oCodeGraph.inputs[M[s]]
           m == Alone(M)
<1>1. /\ InOrder(s) => Len(ins) = Len(outs) /\ \A k \in DOMAIN ins : outs[k] = M[ins[k]]
      /\ \A e \in ToSet(ins) : M[e] \in ToSet(outs)
      /\ \A t \in SignatureNodes : m[t] = {M[t]}
      /\ M \in [SignatureNodes -> CodeNodes]
  BY MatchFacts DEF Matches
<1>2. ins \in Seq(SignatureNodes) /\ outs \in Seq(CodeNodes)
  BY <1>1, GivenFacts
<1>3. (\A k \in DOMAIN ins : ins[k] \in SignatureNodes) /\ ToSet(ins) \subseteq SignatureNodes
  BY InputFacts
<1>4. Cardinality(ToSet(ins)) <= Cardinality(ToSet(outs))
  <2>1. IsFiniteSet(ToSet(outs))
    <3>1. ToSet(outs) \subseteq CodeNodes
      BY <1>2 DEF ToSet
    <3> QED  BY <3>1, GivenFacts, FS_Subset
  <2> DEFINE f == [e \in ToSet(ins) |-> M[e]]
  <2> HIDE DEF ins, outs
  <2>2. f \in Injection(ToSet(ins), ToSet(outs))
    <3>1. f \in [ToSet(ins) -> ToSet(outs)]
      BY <1>1
    <3>2. \A a, b \in ToSet(ins) : f[a] = f[b] => a = b
      BY <1>3, MatchFacts
    <3> QED  BY <3>1, <3>2 DEF Injection, IsInjective
  <2> QED  BY <2>1, <2>2, FS_Injection
<1>5. ASSUME NEW t \in OutputsIn(oSignatureGraph, s)
      PROVE  m[t] \cap OutputsIn(oCodeGraph, M[s]) # {}
  <2>1. t \in SignatureNodes /\ s \in ToSet(oSignatureGraph.inputs[t])
    BY DEF OutputsIn, SignatureNodes, InputsIn
  <2>2. M[s] \in ToSet(oCodeGraph.inputs[M[t]]) /\ M[t] \in CodeNodes
    BY <2>1, MatchFacts
  <2>3. M[t] \in OutputsIn(oCodeGraph, M[s])
    BY <2>2 DEF OutputsIn, CodeNodes, InputsIn
  <2> QED  BY <1>1, <2>1, <2>3
<1> HIDE DEF ins, outs, m
<1>6. /\ InOrder(s) => Len(ins) = Len(outs) /\ \A k \in DOMAIN ins : outs[k] \in m[ins[k]]
      /\ \A e \in ToSet(ins) : m[e] \cap ToSet(outs) # {}
  BY <1>1, <1>3
<1>7. /\ IF InOrder(s)
         THEN Len(ins) = Len(outs) /\ \A k \in DOMAIN ins : outs[k] \in m[ins[k]]
         ELSE /\ Cardinality(ToSet(ins)) <= Cardinality(ToSet(outs))
              /\ \A e \in ToSet(ins) : m[e] \cap ToSet(outs) # {}
      /\ \A t \in OutputsIn(oSignatureGraph, s) : m[t] \cap OutputsIn(oCodeGraph, M[s]) # {}
  BY <1>4, <1>5, <1>6
<1> QED  BY <1>7 DEF Supported, ins, outs, m

\* So pruning does not lose it, and goes through unless the time is up.
LEMMA MatchPruned ==
  ASSUME Given, NEW M \in Matches, NEW m \in Matrices, Among(M, m)
  PROVE  Among(M, Pruned(m)) /\ (~late => PruneFlagged(m))
<1>1. Below(Alone(M), Pruned(m)) /\ Pruned(m) \in Matrices
  BY MatchFacts, MatchSupported, PrunedFacts
<1>2. Among(M, Pruned(m))
  BY <1>1, MatchFacts
<1>3. {} \notin Range(Pruned(m))
  <2>1. DOMAIN Pruned(m) = SignatureNodes
    BY <1>1 DEF Matrices
  <2> QED  BY <1>2, <2>1 DEF Among, Range
<1> QED  BY <1>2, <1>3 DEF PruneFlagged

\* Nor does a claim that is made for the match.
LEMMA MatchClaimed ==
  ASSUME Given, NEW M \in Matches, NEW m \in Matrices, Among(M, m), NEW s \in SignatureNodes
  PROVE  Among(M, Claimed(m, s, M[s])) /\ Among(M, Settled(m, s, M[s]))
<1>1. ASSUME NEW n \in Matrices, Among(M, n)
      PROVE  Among(M, Claimed(n, s, M[s]))
  <2> DEFINE kept == {d \in CodeNodes : TypeSpec(d) = TypeSpec(M[s])}
             after == Claimed(n, s, M[s])
  <2>1. ASSUME NEW t \in SignatureNodes
        PROVE  M[t] \in after[t]
    <3>1. after[t] = IF Assign(s, M[s]) = "OK" /\ RefOf(t) = RefOf(s) THEN Sweep(n[t], kept) ELSE n[t]
      BY DEF Claimed
    <3>2. M[t] \in n[t] /\ n[t] \subseteq CodeNodes
      BY <1>1 DEF Among, Matrices
    <3>3. CASE Assign(s, M[s]) = "OK" /\ RefOf(t) = RefOf(s)
      <4>1. RefOf(s) # NoRef
        BY <3>3 DEF Assign
      <4>2. M[t] \in kept
        BY <3>2, <3>3, <4>1, MatchFacts
      <4>3. n[t] \subseteq Nat /\ IsFiniteSet(n[t])
        BY <3>2, GivenFacts, FS_Subset
      <4> HIDE DEF kept, after
      <4>4. n[t] \cap kept \subseteq Sweep(n[t], kept)
        BY <4>3, SweepFacts
      <4> QED  BY <3>1, <3>2, <3>3, <4>2, <4>4
    <3>4. CASE ~(Assign(s, M[s]) = "OK" /\ RefOf(t) = RefOf(s))
      BY <3>1, <3>2, <3>4
    <3> QED  BY <3>3, <3>4
  <2> QED  BY <2>1 DEF Among
<1> DEFINE n == [m EXCEPT ![s] = Sweep(@, {M[s]})]
<1>2. n \in Matrices /\ Among(M, n)
  <2>1. m[s] \subseteq Nat /\ IsFiniteSet(m[s]) /\ m[s] \subseteq CodeNodes /\ M[s] \in m[s]
    BY GivenFacts, FS_Subset DEF Matrices, Among
  <2>2. Sweep(m[s], {M[s]}) \subseteq m[s] /\ m[s] \cap {M[s]} \subseteq Sweep(m[s], {M[s]})
    BY <2>1, SweepFacts
  <2> QED  BY <2>1, <2>2 DEF Matrices, Among
<1>3. Settled(m, s, M[s]) = Claimed(n, s, M[s])
  BY DEF Settled
<1> HIDE DEF n
<1> QED  BY <1>1, <1>2, <1>3

-----------------------------------------------------------------------------
(* Pass 1 keeps every match *)

LEMMA MatchFitting ==
  ASSUME Given, NEW M \in Matches
  PROVE  Among(M, Fitting)
<1> DEFINE m == Alone(M)
<1>1. m \in Matrices /\ \A s \in SignatureNodes : m[s] = {M[s]}
  BY MatchFacts
<1>2. ASSUME NEW s \in SignatureNodes, NEW c \in m[s]
      PROVE  Fits(m, s, c)
  <2> DEFINE ins == oSignatureGraph.inputs[s]
             outs == oCodeGraph.inputs[c]
  <2>1. c = M[s]
    BY <1>1, <1>2
  <2>2. /\ IsCandidate(s, c)
        /\ InOrder(s) => \A k \in DOMAIN ins : outs[k] = M[ins[k]]
        /\ \A e \in ToSet(ins) : M[e] \in ToSet(outs)
    BY <2>1, MatchFacts
  <2>3. (\A k \in DOMAIN ins : ins[k] \in SignatureNodes) /\ ToSet(ins) \subseteq SignatureNodes
    BY InputFacts
  <2> HIDE DEF ins, outs, m
  <2>4. InOrder(s) => \A k \in DOMAIN ins : outs[k] \in m[ins[k]]
    BY <1>1, <2>2, <2>3
  <2>5. \A e \in ToSet(ins) : ToSet(outs) \cap m[e] # {}
    BY <1>1, <2>2, <2>3
  <2> QED  BY <2>2, <2>4, <2>5 DEF Fits, ins, outs
<1>3. Below(m, Fitting) /\ Fitting \in Matrices
  <2> HIDE DEF m
  <2> QED  BY <1>1, <1>2, FittingFacts
<1> QED  BY <1>3, MatchFacts

\* What is visited, from the roots down.
LEMMA VisitedFacts ==
  ASSUME Given, NEW fitting, NEW inputOrder, NEW v, v = Visited(fitting, inputOrder)
  PROVE  /\ v \in Matrices
         /\ \A s \in SignatureRoots : v[s] = CodeNodes
         /\ \A s \in SignatureNodes : \A t \in OutputsIn(oSignatureGraph, s) :
              \A c \in CodeNodes : \A d \in v[t] :
                <<s, c>> \in Visits(fitting, t, d, inputOrder) => c \in v[s]
<1> DEFINE Reached(m, s) ==
             {c \in CodeNodes : \E t \in OutputsIn(oSignatureGraph, s) : \E d \in m[t] :
                                  <<s, c>> \in Visits(fitting, t, d, inputOrder)}
           step == [m \in Matrices |-> [s \in SignatureNodes |-> m[s] \cup Reached(m, s)]]
           first == [s \in SignatureNodes |-> IF s \in SignatureRoots THEN CodeNodes ELSE {}]
           C == {k \in Matrices : \A s \in SignatureRoots : k[s] = CodeNodes}
<1>1. v = Settle(first, step)
  BY DEF Visited
<1>2. SignatureRoots \subseteq SignatureNodes
  BY DEF SignatureRoots
<1>3. ASSUME NEW k \in Matrices
      PROVE  /\ step[k] \in Matrices /\ Below(k, step[k])
             /\ \A s \in SignatureNodes : step[k][s] = k[s] \cup Reached(k, s)
  <2>1. step[k] = [s \in SignatureNodes |-> k[s] \cup Reached(k, s)]
    OBVIOUS
  <2>2. \A s : Reached(k, s) \subseteq CodeNodes
    OBVIOUS
  <2> HIDE DEF step, Reached
  <2> QED  BY <2>1, <2>2 DEF Matrices, Below
<1>4. step \in [Matrices -> Matrices]
  <2>1. step = [k \in Matrices |-> step[k]]
    OBVIOUS
  <2> HIDE DEF step
  <2> QED  BY <1>3, <2>1
<1>5. first \in C
  BY <1>2 DEF Matrices
<1>6. ASSUME NEW k \in C
      PROVE  step[k] \in C
  <2>1. step[k] \in Matrices /\ Below(k, step[k]) /\ k \in Matrices
    BY <1>3
  <2>2. \A s \in SignatureRoots : k[s] = CodeNodes /\ k[s] \subseteq step[k][s] /\ step[k][s] \subseteq CodeNodes
    <3> HIDE DEF step
    <3> QED  BY <1>2, <2>1 DEF Below, Matrices
  <2> HIDE DEF step
  <2> QED  BY <2>1, <2>2
<1>7. IsStep(step, C)
  <2>1. \A k \in C : Below(k, step[k])
    BY <1>3
  <2>2. C \subseteq Matrices
    OBVIOUS
  <2> HIDE DEF step, C
  <2> QED  BY <1>4, <1>6, <2>1, <2>2 DEF IsStep
<1>8. Settle(first, step) \in C /\ step[Settle(first, step)] = Settle(first, step)
  <2> HIDE DEF step, C, first
  <2> QED  BY <1>5, <1>7, SettleEnds, GivenFacts
<1>9. \A s \in SignatureNodes : Reached(v, s) \subseteq v[s]
  <2>1. v \in Matrices /\ step[v] = v
    BY <1>1, <1>8
  <2> HIDE DEF step, C, first, Reached
  <2> QED  BY <1>3, <2>1
<1>10. v \in C
  BY <1>1, <1>8
<1> HIDE DEF step, first
<1> QED  BY <1>9, <1>10

\* A sequence of all the elements of a set.
LEMMA AllInSequence ==
  ASSUME NEW S, IsFiniteSet(S), NEW f \in SetToSeqs(S)
  PROVE  /\ f \in Seq(S) /\ DOMAIN f = 1..Len(f) /\ Len(f) \in Nat
         /\ \A x \in S : \E i \in DOMAIN f : f[i] = x
<1> DEFINE N == Cardinality(S)
<1>1. N \in Nat
  BY FS_CardinalityType
<1>2. f \in [1..N -> S] /\ \A i, j \in 1..N : i # j => f[i] # f[j]
  BY DEF SetToSeqs
<1>3. IsFiniteSet(1..N) /\ Cardinality(1..N) = N
  BY <1>1, FS_Interval
<1>4. f \in Injection(1..N, S)
  BY <1>2 DEF Injection, IsInjective
<1>5. f \in Surjection(1..N, S)
  <2> HIDE DEF N
  <2> QED  BY <1>1, <1>3, <1>4, FS_Injection DEF N
<1> HIDE DEF N
<1>6. f \in Seq(S) /\ DOMAIN f = 1..Len(f) /\ Len(f) \in Nat
  BY <1>1, <1>2
<1> QED  BY <1>2, <1>5, <1>6 DEF Surjection

\* The call for a node and what stands for it comes to each of its inputs.
LEMMA MatchVisits ==
  ASSUME Given, NEW M \in Matches, NEW fitting \in Matrices, Among(M, fitting),
         NEW inputOrder \in SetToSeqs(SignatureNodes \ SignatureRoots),
         NEW s \in SignatureNodes, NEW t \in OutputsIn(oSignatureGraph, s)
  PROVE  <<s, M[s]>> \in Visits(fitting, t, M[t], inputOrder)
<1> DEFINE outs == oCodeGraph.inputs[M[t]]
           ins == IF InOrder(t) THEN oSignatureGraph.inputs[t] ELSE inputOrder
           IsInput(k) == ins[k] \in InputsIn(oSignatureGraph, t)
           Looked(k) == IF InOrder(t) THEN {outs[k]} ELSE ToSet(outs)
           Fails(k) == IsInput(k) /\ Looked(k) \cap fitting[ins[k]] = {}
           seen == {i \in DOMAIN ins : IsInput(i) /\ \A j \in 1..(i - 1) : ~Fails(j)}
<1>1. t \in SignatureNodes /\ s \in ToSet(oSignatureGraph.inputs[t]) /\ s \in InputsIn(oSignatureGraph, t)
  BY DEF OutputsIn, SignatureNodes, InputsIn
<1>2. /\ IsCandidate(t, M[t])
      /\ InOrder(t) =>
           /\ Len(oSignatureGraph.inputs[t]) = Len(outs)
           /\ \A k \in DOMAIN oSignatureGraph.inputs[t] : outs[k] = M[oSignatureGraph.inputs[t][k]]
      /\ \A e \in InputsIn(oSignatureGraph, t) : M[e] \in ToSet(outs)
  BY <1>1, MatchFacts DEF InputsIn
<1>3. /\ IsFiniteSet(SignatureNodes \ SignatureRoots)
      /\ s \in SignatureNodes \ SignatureRoots
  BY GivenFacts, FS_Subset DEF SignatureRoots
<1>4. /\ Len(ins) \in Nat /\ DOMAIN ins = 1..Len(ins) /\ \A k \in DOMAIN ins : ins[k] \in SignatureNodes
  <2>1. inputOrder \in Seq(SignatureNodes \ SignatureRoots)
    BY <1>3, AllInSequence
  <2>2. oSignatureGraph.inputs[t] \in Seq(SignatureNodes)
    BY <1>1, GivenFacts
  <2> QED  BY <2>1, <2>2
<1>5. PICK k \in DOMAIN ins : ins[k] = s
  <2>1. CASE InOrder(t)
    BY <1>1, <2>1 DEF ToSet
  <2>2. CASE ~InOrder(t)
    <3>1. \A y \in SignatureNodes \ SignatureRoots : \E i \in DOMAIN inputOrder : inputOrder[i] = y
      BY <1>3, AllInSequence
    <3> QED  BY <1>3, <2>2, <3>1
  <2> QED  BY <2>1, <2>2
<1>6. \A j \in DOMAIN ins : IsInput(j) => M[ins[j]] \in Looked(j)
  BY <1>2
<1>7. Visits(fitting, t, M[t], inputOrder) = UNION {{ins[i]} \X Looked(i) : i \in seen}
  <2>1. Visits(fitting, t, M[t], inputOrder) =
          IF ~IsCandidate(t, M[t]) \/ (InOrder(t) /\ Len(ins) # Len(outs)) THEN {}
          ELSE UNION {{ins[i]} \X Looked(i) : i \in seen}
    BY DEF Visits
  <2>2. ~(InOrder(t) /\ Len(ins) # Len(outs))
    BY <1>2
  <2> HIDE DEF ins, outs, seen, Looked
  <2> QED  BY <1>2, <2>1, <2>2
<1> HIDE DEF ins, outs, Looked
<1>8. k \in seen
  <2>1. IsInput(k)
    BY <1>1, <1>5
  <2>2. ASSUME NEW j \in 1..(k - 1)
        PROVE  ~Fails(j)
    <3>1. j \in DOMAIN ins /\ ins[j] \in SignatureNodes
      BY <1>4
    <3>2. IsInput(j) => M[ins[j]] \in Looked(j) \cap fitting[ins[j]]
      BY <1>6, <3>1 DEF Among
    <3> QED  BY <3>2
  <2> QED  BY <2>1, <2>2
<1>9. <<s, M[s]>> \in {ins[k]} \X Looked(k)
  BY <1>5, <1>6, <1>8
<1> HIDE DEF seen
<1> QED  BY <1>7, <1>8, <1>9

LEMMA MatchCandidates ==
  ASSUME Given, NEW M \in Matches, NEW inputOrder \in SetToSeqs(SignatureNodes \ SignatureRoots)
  PROVE  Among(M, Candidates(Fitting, inputOrder))
<1>1. PICK v : v = Visited(Fitting, inputOrder)
  OBVIOUS
<1>2. /\ v \in Matrices
      /\ \A s \in SignatureRoots : v[s] = CodeNodes
      /\ \A s \in SignatureNodes : \A t \in OutputsIn(oSignatureGraph, s) :
           \A c \in CodeNodes : \A d \in v[t] :
             <<s, c>> \in Visits(Fitting, t, d, inputOrder) => c \in v[s]
  BY <1>1, VisitedFacts
<1>3. Among(M, Fitting) /\ Fitting \in Matrices
  BY MatchFitting, FittingFacts
<1> DEFINE missed == {s \in SignatureNodes : M[s] \notin v[s]}
<1>4. missed = {}
  <2> SUFFICES ASSUME missed # {}
               PROVE  FALSE
    OBVIOUS
  <2>1. PICK s \in missed : OutputsIn(oSignatureGraph, s) \cap missed = {}
    <3>1. missed \in SUBSET DOMAIN oSignatureGraph.type
      BY DEF SignatureNodes
    <3> HIDE DEF missed
    <3> QED  BY <3>1 DEF Given, IsVariantGraph
  <2>2. s \in SignatureNodes /\ M[s] \in CodeNodes /\ M[s] \notin v[s]
    BY MatchFacts
  <2>3. s \notin SignatureRoots
    BY <1>2, <2>2
  <2>4. PICK t \in OutputsIn(oSignatureGraph, s) : TRUE
    BY <2>2, <2>3 DEF SignatureRoots
  <2>5. t \in SignatureNodes /\ M[t] \in v[t]
    BY <2>1, <2>2, <2>4, InputFacts
  <2>6. <<s, M[s]>> \in Visits(Fitting, t, M[t], inputOrder)
    BY <1>3, <2>2, <2>4, MatchVisits
  <2> HIDE DEF missed
  <2> QED  BY <1>2, <2>2, <2>5, <2>6
<1>5. Candidates(Fitting, inputOrder) = [s \in SignatureNodes |-> Fitting[s] \cap v[s]]
  BY <1>1 DEF Candidates
<1> QED  BY <1>3, <1>4, <1>5 DEF Among

-----------------------------------------------------------------------------
(* The matrices of a search, and the matches that may still be found *)

PushesUpTo(h, i) == {j \in Pushes(h) : j <= i}

LEMMA PushesUpToFacts ==
  ASSUME NEW h \in Seq(Calls), NEW x \in Calls
  PROVE  /\ \A i \in DOMAIN h :
              /\ Cardinality(PushesUpTo(h, i)) \in 0..Cardinality(Pushes(h))
              /\ i \in Pushes(h) => Cardinality(PushesUpTo(h, i)) # 0
              /\ PushesUpTo(Append(h, x), i) = PushesUpTo(h, i)
         /\ PushesUpTo(Append(h, x), Len(h) + 1) = Pushes(Append(h, x))
         /\ \A i \in DOMAIN h : i \in Pushes(Append(h, x)) <=> i \in Pushes(h)
         /\ Len(h) + 1 \in Pushes(Append(h, x)) <=> x.each \/ x.ok
<1> DEFINE g == Append(h, x)
<1>1. /\ DOMAIN g = DOMAIN h \cup {Len(h) + 1} /\ DOMAIN h = 1..Len(h) /\ Len(h) \in Nat
      /\ (\A i \in DOMAIN h : g[i] = h[i]) /\ g[Len(h) + 1] = x
  BY Appended
<1> HIDE DEF g
<1>2. IsFiniteSet(Pushes(h)) /\ Pushes(h) \subseteq DOMAIN h
  <2>1. IsFiniteSet(DOMAIN h)
    BY <1>1, FS_Interval
  <2> QED  BY <2>1, FS_Subset DEF Pushes
<1>3. ASSUME NEW i \in DOMAIN h
      PROVE  /\ Cardinality(PushesUpTo(h, i)) \in 0..Cardinality(Pushes(h))
             /\ i \in Pushes(h) => Cardinality(PushesUpTo(h, i)) # 0
  <2>1. PushesUpTo(h, i) \subseteq Pushes(h) /\ i \in Int
    BY <1>1 DEF PushesUpTo
  <2>2. /\ Cardinality(PushesUpTo(h, i)) \in Nat /\ Cardinality(Pushes(h)) \in Nat
        /\ Cardinality(PushesUpTo(h, i)) <= Cardinality(Pushes(h)) /\ IsFiniteSet(PushesUpTo(h, i))
    BY <1>2, <2>1, FS_Subset, FS_CardinalityType
  <2>3. i \in Pushes(h) => i \in PushesUpTo(h, i)
    BY <2>1 DEF PushesUpTo
  <2>4. PushesUpTo(h, i) # {} => Cardinality(PushesUpTo(h, i)) # 0
    BY <2>2, FS_EmptySet
  <2> QED  BY <2>2, <2>3, <2>4
<1>4. Pushes(g) = {i \in DOMAIN h : i \in Pushes(h)} \cup (IF x.each \/ x.ok THEN {Len(h) + 1} ELSE {})
  BY <1>1 DEF Pushes
<1>5. \A i \in DOMAIN h : PushesUpTo(g, i) = PushesUpTo(h, i)
  BY <1>1, <1>2, <1>4 DEF PushesUpTo
<1>6. PushesUpTo(g, Len(h) + 1) = Pushes(g)
  BY <1>1, <1>4 DEF PushesUpTo
<1>7. Len(h) + 1 \notin DOMAIN h
  BY <1>1
<1> QED  BY <1>3, <1>4, <1>5, <1>6, <1>7 DEF g

(***************************************************************************)
(* ms are the matrices that the calls h have begun with, the last of them   *)
(* the one at hand; what a call has pushed is on the stack.  No candidate   *)
(* is ever added; a node that is settled, and had candidates in step at     *)
(* first, keeps the one.                                                    *)
(***************************************************************************)
FirstOf(m, stack) == IF stack = <<>> THEN m ELSE stack[1]

Traces(ms, h, m, stack) ==
  /\ ms \in Seq(Sound) /\ Len(ms) = Len(h) + 1 /\ ms[Len(h) + 1] = m
  /\ ms[1] = FirstOf(m, stack) /\ \A j \in DOMAIN ms : Below(ms[j], ms[1])
  /\ \A i \in DOMAIN h : IF h[i].each \/ h[i].ok
                         THEN stack[Cardinality(PushesUpTo(h, i))] = ms[i]
                         ELSE ms[i + 1] = ms[i]
  /\ \A i \in DOMAIN h : InStep(ms[1][order[i]]) =>
                         \A j \in (i + 1)..Len(ms) : ms[j][order[i]] = {h[i].it}

LEMMA TracesPushed ==
  ASSUME NEW h \in Seq(Calls), NEW x \in Calls, NEW ms, NEW m, NEW stack \in Seq(Full),
         Len(stack) = Cardinality(Pushes(h)), Traces(ms, h, m, stack),
         \A i \in 1..(Len(h) + 1) : order[i] \in SignatureNodes,
         NEW n \in Sound, Below(n, m),
         InStep(m[order[Len(h) + 1]]) => n[order[Len(h) + 1]] = {x.it},
         NEW after, IF x.each \/ x.ok THEN after = Append(stack, m) ELSE after = stack /\ n = m
  PROVE  Traces(Append(ms, n), Append(h, x), n, after)
<1> DEFINE g == Append(h, x)
           ns == Append(ms, n)
           L == Len(h)
<1>1. /\ ms \in Seq(Sound) /\ Len(ms) = L + 1 /\ ms[L + 1] = m
      /\ \A i \in DOMAIN h : IF h[i].each \/ h[i].ok
                             THEN stack[Cardinality(PushesUpTo(h, i))] = ms[i]
                             ELSE ms[i + 1] = ms[i]
      /\ ms[1] = FirstOf(m, stack) /\ \A j \in DOMAIN ms : Below(ms[j], ms[1])
      /\ \A i \in DOMAIN h : InStep(ms[1][order[i]]) =>
                             \A j \in (i + 1)..Len(ms) : ms[j][order[i]] = {h[i].it}
  BY DEF Traces
<1>2. /\ DOMAIN g = DOMAIN h \cup {L + 1} /\ DOMAIN h = 1..L /\ L \in Nat
      /\ (\A i \in DOMAIN h : g[i] = h[i]) /\ g[L + 1] = x /\ Len(g) = L + 1
  BY Appended
<1>3. /\ ns \in Seq(Sound) /\ Len(ns) = L + 2 /\ ns[L + 2] = n
      /\ \A i \in 1..(L + 1) : ns[i] = ms[i]
  <2>1. DOMAIN ms = 1..(L + 1) /\ L + 1 + 1 = L + 2
    BY <1>1, <1>2
  <2>2. ns \in Seq(Sound) /\ Len(ns) = Len(ms) + 1 /\ ns[Len(ms) + 1] = n /\ \A i \in DOMAIN ms : ns[i] = ms[i]
    BY <1>1, Appended
  <2> QED  BY <1>1, <2>1, <2>2
<1>4. \A i \in DOMAIN h : /\ Cardinality(PushesUpTo(h, i)) \in 0..Len(stack)
                          /\ h[i].each \/ h[i].ok => Cardinality(PushesUpTo(h, i)) # 0
                          /\ PushesUpTo(g, i) = PushesUpTo(h, i)
  BY PushesUpToFacts DEF Pushes
<1>5. x.each \/ x.ok => Cardinality(PushesUpTo(g, L + 1)) = Len(stack) + 1
  BY PushesUpToFacts, PushesChange
<1>6. \A i \in 1..Len(stack) : after[i] = stack[i]
  <2> SUFFICES ASSUME NEW i \in 1..Len(stack) PROVE after[i] = stack[i]
    OBVIOUS
  <2>1. m \in Full
    BY <1>1, <1>2 DEF Sound
  <2>2. Append(stack, m)[i] = stack[i]
    BY <2>1
  <2>3. after = Append(stack, m) \/ after = stack
    OBVIOUS
  <2> QED  BY <2>2, <2>3
<1>7. x.each \/ x.ok => after[Len(stack) + 1] = m
  <2>1. m \in Sound
    BY <1>1, <1>2
  <2>2. m \in Full
    BY <2>1 DEF Sound
  <2> QED  BY <2>2
<1> HIDE DEF g, ns, L
<1>8. ASSUME NEW i \in DOMAIN g
      PROVE  IF g[i].each \/ g[i].ok THEN after[Cardinality(PushesUpTo(g, i))] = ns[i]
                                     ELSE ns[i + 1] = ns[i]
  <2>1. CASE i \in DOMAIN h
    <3>1. /\ g[i] = h[i] /\ ns[i] = ms[i] /\ ns[i + 1] = ms[i + 1]
          /\ PushesUpTo(g, i) = PushesUpTo(h, i)
      <4>1. i \in 1..(L + 1) /\ i + 1 \in 1..(L + 1)
        BY <1>2, <2>1
      <4> QED  BY <1>2, <1>3, <1>4, <2>1, <4>1
    <3>2. h[i].each \/ h[i].ok => Cardinality(PushesUpTo(h, i)) \in 1..Len(stack)
      BY <1>4, <2>1
    <3> QED  BY <1>1, <1>6, <2>1, <3>1, <3>2
  <2>2. CASE i = L + 1
    <3>1. g[i] = x /\ ns[i] = m /\ ns[i + 1] = n
      BY <1>1, <1>2, <1>3, <2>2
    <3> QED  BY <1>5, <1>7, <2>2, <3>1
  <2> QED  BY <1>2, <2>1, <2>2
<1>9. ns[1] = ms[1] /\ Below(m, ms[1]) /\ \A j \in DOMAIN ns : Below(ns[j], ns[1])
  <2>1. 1 \in 1..(L + 1) /\ L + 1 \in DOMAIN ms
    BY <1>1, <1>2
  <2>2. ns[1] = ms[1] /\ Below(m, ms[1])
    BY <1>1, <1>3, <2>1
  <2>3. Below(n, ms[1])
    BY <2>2 DEF Below
  <2>4. \A j \in DOMAIN ns : (j \in DOMAIN ms /\ ns[j] = ms[j]) \/ ns[j] = n
    BY <1>1, <1>2, <1>3
  <2> QED  BY <1>1, <2>2, <2>3, <2>4
<1>10. ns[1] = FirstOf(n, after)
  <2>1. CASE x.each \/ x.ok
    <3>1. after # <<>> /\ (stack = <<>> => after[1] = m) /\ (stack # <<>> => after[1] = stack[1])
      <4>1. after = Append(stack, m) /\ Len(stack) \in Nat
        BY <2>1
      <4>2. stack # <<>> => 1 \in 1..Len(stack)
        OBVIOUS
      <4>3. stack = <<>> => Len(stack) + 1 = 1
        OBVIOUS
      <4> QED  BY <1>6, <1>7, <2>1, <4>1, <4>2, <4>3
    <3> QED  BY <1>1, <1>9, <3>1 DEF FirstOf
  <2>2. CASE ~(x.each \/ x.ok)
    BY <1>1, <1>9, <2>2 DEF FirstOf
  <2> QED  BY <2>1, <2>2
<1>11. ASSUME NEW i \in DOMAIN g, InStep(ns[1][order[i]]), NEW j \in (i + 1)..Len(ns)
      PROVE  ns[j][order[i]] = {g[i].it}
  <2>1. CASE i = L + 1
    <3>1. j = L + 2
      BY <1>2, <1>3, <2>1
    <3>2. order[L + 1] \in SignatureNodes
      <4>1. L + 1 \in 1..(Len(h) + 1)
        BY <1>2 DEF L
      <4> QED  BY <4>1
    <3>3. InStep(m[order[L + 1]])
      BY <1>9, <1>11, <2>1, <3>2 DEF InStep, Below
    <3> QED  BY <1>2, <1>3, <2>1, <3>1, <3>3 DEF L
  <2>2. CASE i \in DOMAIN h /\ j <= L + 1
    <3>1. ns[j] = ms[j] /\ g[i] = h[i] /\ j \in (i + 1)..Len(ms)
      BY <1>1, <1>2, <1>3, <2>2
    <3> QED  BY <1>1, <1>9, <1>11, <2>2, <3>1
  <2>3. CASE i \in DOMAIN h /\ j = L + 2
    <3>1. L + 1 \in (i + 1)..Len(ms)
      BY <1>1, <1>2, <2>3
    <3>2. m[order[i]] = {h[i].it}
      BY <1>1, <1>9, <1>11, <2>3, <3>1
    <3>3. order[i] \in SignatureNodes
      <4>1. i \in 1..(Len(h) + 1)
        BY <1>2, <2>3 DEF L
      <4> QED  BY <4>1
    <3>4. n[order[i]] \subseteq m[order[i]] /\ n[order[i]] # {}
      BY <3>3 DEF Below, Sound, Full
    <3>5. ns[j] = n /\ g[i] = h[i]
      BY <1>2, <1>3, <2>3
    <3> QED  BY <3>2, <3>4, <3>5
  <2> QED  BY <1>2, <1>3, <2>1, <2>2, <2>3
<1>12. Len(ns) = Len(g) + 1 /\ ns[Len(g) + 1] = n
  <2>1. Len(g) + 1 = L + 2
    BY <1>2
  <2> QED  BY <1>3, <2>1
<1> QED  BY <1>3, <1>8, <1>9, <1>10, <1>11, <1>12 DEF Traces, g, ns

\* The call that returns takes back what it pushed.
Pops(h, m, stack, n, after) ==
  IF Last(h).each \/ Last(h).ok
  THEN after = Front(stack) /\ n = Last(stack)
  ELSE after = stack /\ n = m

LEMMA TracesPopped ==
  ASSUME NEW h \in Seq(Calls), h # <<>>, NEW ms, NEW m, NEW stack \in Seq(Full),
         Len(stack) = Cardinality(Pushes(h)), Traces(ms, h, m, stack),
         NEW n, NEW after, Pops(h, m, stack, n, after)
  PROVE  /\ Traces(Front(ms), Front(h), n, after)
         /\ Len(Front(ms)) = Len(h) /\ n = Front(ms)[Len(h)]
         /\ \A i \in DOMAIN Front(ms) : i \in DOMAIN ms /\ Front(ms)[i] = ms[i]
<1> USE DEF Pops
<1> DEFINE g == Front(h)
           x == Last(h)
           ns == Front(ms)
           L == Len(h)
<1>1. /\ ms \in Seq(Sound) /\ Len(ms) = L + 1 /\ ms[L + 1] = m
      /\ \A i \in DOMAIN h : IF h[i].each \/ h[i].ok
                             THEN stack[Cardinality(PushesUpTo(h, i))] = ms[i]
                             ELSE ms[i + 1] = ms[i]
      /\ ms[1] = FirstOf(m, stack) /\ \A j \in DOMAIN ms : Below(ms[j], ms[1])
      /\ \A i \in DOMAIN h : InStep(ms[1][order[i]]) =>
                             \A j \in (i + 1)..Len(ms) : ms[j][order[i]] = {h[i].it}
  BY DEF Traces
<1>2. /\ g \in Seq(Calls) /\ Len(g) = L - 1 /\ L \in Nat /\ L \in DOMAIN h /\ x = h[L] /\ x \in Calls
      /\ DOMAIN h = DOMAIN g \cup {L} /\ DOMAIN g = 1..(L - 1)
      /\ (\A i \in DOMAIN g : g[i] = h[i]) /\ Append(g, x) = h
  BY Fronted, Popped
<1>3. /\ ns \in Seq(Sound) /\ Len(ns) = L /\ \A i \in 1..L : ns[i] = ms[i] /\ i \in DOMAIN ms
      /\ DOMAIN ns = 1..L
  <2>1. ms # <<>>
    BY <1>1, <1>2
  <2>2. /\ Front(ms) \in Seq(Sound) /\ Len(Front(ms)) = Len(ms) - 1
        /\ DOMAIN ms = DOMAIN Front(ms) \cup {Len(ms)} /\ DOMAIN Front(ms) = 1..(Len(ms) - 1)
        /\ \A i \in DOMAIN Front(ms) : Front(ms)[i] = ms[i]
    BY <1>1, <2>1, Fronted
  <2>3. Len(ms) - 1 = L
    BY <1>1, <1>2
  <2> QED  BY <2>2, <2>3
<1> HIDE DEF g, x, ns, L
<1>4. /\ \A i \in DOMAIN g : /\ Cardinality(PushesUpTo(g, i)) \in 0..Cardinality(Pushes(g))
                             /\ i \in Pushes(g) => Cardinality(PushesUpTo(g, i)) # 0
                             /\ PushesUpTo(h, i) = PushesUpTo(g, i)
      /\ PushesUpTo(h, L) = Pushes(h)
  <2>1. Len(g) + 1 = L /\ g \in Seq(Calls) /\ x \in Calls
    BY <1>2
  <2>2. /\ \A i \in DOMAIN g : /\ Cardinality(PushesUpTo(g, i)) \in 0..Cardinality(Pushes(g))
                               /\ i \in Pushes(g) => Cardinality(PushesUpTo(g, i)) # 0
                               /\ PushesUpTo(Append(g, x), i) = PushesUpTo(g, i)
        /\ PushesUpTo(Append(g, x), Len(g) + 1) = Pushes(Append(g, x))
    BY <2>1, PushesUpToFacts
  <2> QED  BY <1>2, <2>1, <2>2
<1>5. /\ Cardinality(Pushes(g)) \in Nat
      /\ Len(stack) = Cardinality(Pushes(g)) + (IF x.each \/ x.ok THEN 1 ELSE 0)
  BY <1>2, PushesChange
<1>6. n = ms[L] /\ \A i \in 1..Cardinality(Pushes(g)) : after[i] = stack[i]
  <2>1. CASE x.each \/ x.ok
    <3>1. after = Front(stack) /\ n = Last(stack) /\ Len(stack) = Cardinality(Pushes(g)) + 1
      BY <1>5, <2>1 DEF x
    <3>2. stack # <<>>
      BY <1>5, <3>1
    <3>3. /\ n = stack[Len(stack)] /\ DOMAIN after = 1..(Len(stack) - 1)
          /\ \A i \in DOMAIN after : after[i] = stack[i]
      <4>1. /\ Last(stack) = stack[Len(stack)] /\ DOMAIN Front(stack) = 1..(Len(stack) - 1)
            /\ \A i \in DOMAIN Front(stack) : Front(stack)[i] = stack[i]
        BY <3>2, Fronted
      <4> QED  BY <3>1, <4>1
    <3>4. ms[L] = stack[Len(stack)]
      <4>1. L \in DOMAIN h /\ (h[L].each \/ h[L].ok)
        BY <1>2, <2>1
      <4>2. stack[Cardinality(PushesUpTo(h, L))] = ms[L]
        BY <1>1, <4>1
      <4>3. Cardinality(PushesUpTo(h, L)) = Len(stack)
        <5>1. PushesUpTo(h, L) = Pushes(h)
          BY <1>4
        <5> QED  BY <5>1
      <4> QED  BY <4>2, <4>3
    <3>5. Len(stack) - 1 = Cardinality(Pushes(g))
      BY <1>5, <3>1
    <3> QED  BY <3>3, <3>4, <3>5
  <2>2. CASE ~(x.each \/ x.ok)
    BY <1>1, <1>2, <2>2 DEF x
  <2> QED  BY <2>1, <2>2
<1>7. ASSUME NEW i \in DOMAIN g
      PROVE  IF g[i].each \/ g[i].ok THEN after[Cardinality(PushesUpTo(g, i))] = ns[i]
                                     ELSE ns[i + 1] = ns[i]
  <2>1. g[i] = h[i] /\ ns[i] = ms[i] /\ ns[i + 1] = ms[i + 1] /\ i \in DOMAIN h
    BY <1>2, <1>3
  <2>2. g[i].each \/ g[i].ok => Cardinality(PushesUpTo(g, i)) \in 1..Cardinality(Pushes(g))
    BY <1>4 DEF Pushes
  <2> QED  BY <1>1, <1>4, <1>6, <2>1, <2>2
<1>8. ns[1] = ms[1] /\ \A j \in DOMAIN ns : Below(ns[j], ns[1])
  <2>1. 1 \in 1..L
    BY <1>2
  <2> QED  BY <1>1, <1>3, <2>1
<1>9. Len(ns) = Len(g) + 1 /\ ns[Len(g) + 1] = n
  <2>1. Len(g) + 1 = L /\ L \in 1..L
    BY <1>2
  <2> QED  BY <1>3, <1>6, <2>1
<1>10. n = ns[L] /\ L \in 1..L
  BY <1>2, <1>3, <1>6
<1>11. ASSUME NEW i \in DOMAIN g, InStep(ns[1][order[i]]), NEW j \in (i + 1)..Len(ns)
      PROVE  ns[j][order[i]] = {g[i].it}
  <2>1. g[i] = h[i] /\ ns[j] = ms[j] /\ i \in DOMAIN h /\ j \in (i + 1)..Len(ms)
    BY <1>1, <1>2, <1>3
  <2> QED  BY <1>1, <1>8, <1>11, <2>1
<1>12. ns[1] = FirstOf(n, after)
  <2>1. CASE x.each \/ x.ok
    <3>1. after = Front(stack) /\ n = Last(stack) /\ stack # <<>>
      <4>1. after = Front(stack) /\ n = Last(stack) /\ Len(stack) = Cardinality(Pushes(g)) + 1
        BY <1>5, <2>1 DEF x
      <4>2. stack # <<>>
        BY <1>5, <4>1
      <4> QED  BY <4>1, <4>2
    <3>2. /\ Last(stack) = stack[Len(stack)] /\ DOMAIN after = 1..(Len(stack) - 1) /\ Len(stack) \in Nat
          /\ after \in Seq(Full) /\ Len(after) = Len(stack) - 1
          /\ \A i \in DOMAIN after : after[i] = stack[i]
      <4>1. /\ Front(stack) \in Seq(Full) /\ Len(Front(stack)) = Len(stack) - 1
            /\ Last(stack) = stack[Len(stack)] /\ DOMAIN Front(stack) = 1..(Len(stack) - 1)
            /\ \A i \in DOMAIN Front(stack) : Front(stack)[i] = stack[i]
        BY <3>1, Fronted
      <4> QED  BY <3>1, <4>1
    <3>3. CASE Len(stack) = 1
      <4>1. after = <<>>
        <5>1. after \in Seq(Full) /\ Len(after) = 0
          BY <3>2, <3>3
        <5> QED  BY <5>1
      <4> QED  BY <1>1, <1>8, <3>1, <3>2, <3>3, <4>1 DEF FirstOf
    <3>4. CASE Len(stack) # 1
      <4>1. Len(stack) > 1
        BY <3>1, <3>2, <3>4
      <4>2. 1 \in DOMAIN after /\ after # <<>>
        BY <3>2, <4>1
      <4>3. after[1] = stack[1]
        BY <3>2, <4>2
      <4> QED  BY <1>1, <1>8, <3>1, <4>2, <4>3 DEF FirstOf
    <3> QED  BY <3>3, <3>4
  <2>2. CASE ~(x.each \/ x.ok)
    BY <1>1, <1>8, <2>2 DEF x, FirstOf
  <2> QED  BY <2>1, <2>2
<1> QED  BY <1>3, <1>7, <1>8, <1>9, <1>10, <1>11, <1>12 DEF Traces, g, ns, L

\* The calls 1..n of f have settled on what M has.
Agrees(M, f, n) == \A i \in 1..n : M[order[i]] = f[i].it

\* What stands for the node of call x in a match is yet to come.
Reaches(row, x, c) == IF x.each THEN Ahead(row, x.it, c) ELSE c = x.it

(***************************************************************************)
(* As long as the calls f agree with a match M it is among the candidates,  *)
(* and they come to what it has; when they return false, none does.         *)
(***************************************************************************)
Chances(M, ms, f, p) ==
  /\ \A i \in DOMAIN ms : Agrees(M, f, i - 1) => Among(M, ms[i])
  /\ \A i \in DOMAIN f : Agrees(M, f, i - 1) => Reaches(ms[i][order[i]], f[i], M[order[i]])
  /\ p = "back" => ~Agrees(M, f, Len(f))

\* Agreement when the last call is added.
LEMMA AgreesAppended ==
  ASSUME NEW M, NEW g \in Seq(Calls), NEW x \in Calls
  PROVE  /\ \A i \in 1..(Len(g) + 1) : Agrees(M, Append(g, x), i - 1) <=> Agrees(M, g, i - 1)
         /\ Agrees(M, Append(g, x), Len(g) + 1)
              <=> Agrees(M, g, Len(g)) /\ M[order[Len(g) + 1]] = x.it
<1> DEFINE f == Append(g, x)
           L == Len(g)
<1>1. /\ DOMAIN g = 1..L /\ L \in Nat /\ (\A i \in DOMAIN g : f[i] = g[i]) /\ f[L + 1] = x
  BY Appended
<1> HIDE DEF f, L
<1>2. \A i \in 1..(L + 1) : \A j \in 1..(i - 1) : f[j] = g[j]
  BY <1>1
<1>3. \A i \in 1..(L + 1) : Agrees(M, f, i - 1) <=> Agrees(M, g, i - 1)
  BY <1>2 DEF Agrees
<1>4. 1..(L + 1) = 1..L \cup {L + 1} /\ \A j \in 1..L : f[j] = g[j]
  BY <1>1
<1>5. Agrees(M, f, L + 1) <=> Agrees(M, g, L) /\ M[order[L + 1]] = x.it
  BY <1>1, <1>4 DEF Agrees
<1> QED  BY <1>3, <1>5 DEF f, L

\* A call begins a loop, or goes on with it.
LEMMA ChancesLoop ==
  ASSUME NEW M, NEW g \in Seq(Calls), NEW x \in Calls, NEW ms \in Seq(Sound), Len(ms) = Len(g) + 1,
         Chances(M, ms, g, "call"),
         Agrees(M, g, Len(g)) =>
           Reaches(ms[Len(g) + 1][order[Len(g) + 1]], x, M[order[Len(g) + 1]])
  PROVE  Chances(M, ms, Append(g, x), "try")
<1> DEFINE f == Append(g, x)
           L == Len(g)
<1>1. /\ DOMAIN f = DOMAIN g \cup {L + 1} /\ DOMAIN g = 1..L /\ L \in Nat /\ DOMAIN ms = 1..(L + 1)
      /\ (\A i \in DOMAIN g : f[i] = g[i]) /\ f[L + 1] = x
  BY Appended
<1>2. \A i \in 1..(L + 1) : Agrees(M, f, i - 1) <=> Agrees(M, g, i - 1)
  BY AgreesAppended
<1>3. L + 1 - 1 = L
  BY <1>1
<1> HIDE DEF f, L
<1>4. ASSUME NEW i \in DOMAIN f, Agrees(M, f, i - 1)
      PROVE  Reaches(ms[i][order[i]], f[i], M[order[i]])
  <2>1. CASE i \in DOMAIN g
    <3>1. Agrees(M, g, i - 1) /\ f[i] = g[i]
      BY <1>1, <1>2, <1>4, <2>1
    <3> QED  BY <2>1, <3>1 DEF Chances
  <2>2. CASE i = L + 1
    <3>1. Agrees(M, g, L)
      BY <1>1, <1>2, <1>3, <1>4, <2>2
    <3> QED  BY <1>1, <2>2, <3>1 DEF L
  <2> QED  BY <1>1, <2>1, <2>2
<1>5. \A i \in DOMAIN ms : Agrees(M, f, i - 1) => Among(M, ms[i])
  BY <1>1, <1>2 DEF Chances
<1> QED  BY <1>4, <1>5 DEF Chances, f

\* A call has settled on x.it, and goes deeper.
LEMMA ChancesPushed ==
  ASSUME NEW M, NEW g \in Seq(Calls), NEW x \in Calls, NEW ms \in Seq(Sound), Len(ms) = Len(g) + 1,
         Chances(M, ms, Append(g, x), "try"), NEW n \in Sound,
         Agrees(M, g, Len(g)) /\ M[order[Len(g) + 1]] = x.it => Among(M, n)
  PROVE  Chances(M, Append(ms, n), Append(g, x), "call")
<1> DEFINE f == Append(g, x)
           ns == Append(ms, n)
           L == Len(g)
<1>1. /\ DOMAIN f = DOMAIN g \cup {L + 1} /\ DOMAIN g = 1..L /\ L \in Nat
      /\ DOMAIN ms = 1..(L + 1) /\ DOMAIN ns = DOMAIN ms \cup {L + 2}
      /\ (\A i \in DOMAIN ms : ns[i] = ms[i]) /\ ns[L + 2] = n
  <2>1. Len(ms) + 1 = L + 2
    OBVIOUS
  <2> QED  BY <2>1, Appended
<1>2. Agrees(M, f, L + 1) <=> Agrees(M, g, L) /\ M[order[L + 1]] = x.it
  BY AgreesAppended
<1>3. L + 2 - 1 = L + 1
  BY <1>1
<1>4. Agrees(M, f, L + 1) => Among(M, n)
  BY <1>2
<1> HIDE DEF f, ns, L
<1>5. \A i \in DOMAIN ns : Agrees(M, f, i - 1) => Among(M, ns[i])
  BY <1>1, <1>3, <1>4 DEF Chances, f
<1>6. \A i \in DOMAIN f : i \in DOMAIN ms
  BY <1>1
<1> QED  BY <1>1, <1>5, <1>6 DEF Chances, f, ns

\* Matrices ns are the first of ms.
Begins(ns, ms) == \A i \in DOMAIN ns : i \in DOMAIN ms /\ ns[i] = ms[i]

\* What is left when the last call is taken away.
LEMMA ChancesPopped ==
  ASSUME NEW M, NEW g \in Seq(Calls), NEW x \in Calls, NEW ms, NEW p,
         Chances(M, ms, Append(g, x), p),
         NEW ns \in Seq(Sound), Len(ns) = Len(g) + 1, Begins(ns, ms)
  PROVE  /\ Chances(M, ns, g, "call")
         /\ Agrees(M, g, Len(g)) =>
              /\ Among(M, ns[Len(g) + 1])
              /\ Reaches(ns[Len(g) + 1][order[Len(g) + 1]], x, M[order[Len(g) + 1]])
         /\ p = "back" /\ Agrees(M, g, Len(g)) => M[order[Len(g) + 1]] # x.it
<1> DEFINE f == Append(g, x)
           L == Len(g)
<1>1. /\ DOMAIN f = DOMAIN g \cup {L + 1} /\ DOMAIN g = 1..L /\ L \in Nat
      /\ (\A i \in DOMAIN g : f[i] = g[i]) /\ f[L + 1] = x /\ Len(f) = L + 1
      /\ DOMAIN ns = 1..(L + 1)
  BY Appended
<1>2. /\ \A i \in 1..(L + 1) : Agrees(M, f, i - 1) <=> Agrees(M, g, i - 1)
      /\ Agrees(M, f, L + 1) <=> Agrees(M, g, L) /\ M[order[L + 1]] = x.it
  BY AgreesAppended
<1>3. L + 1 - 1 = L
  BY <1>1
<1> HIDE DEF f, L
<1>4. /\ \A i \in DOMAIN ms : Agrees(M, f, i - 1) => Among(M, ms[i])
      /\ \A i \in DOMAIN f : Agrees(M, f, i - 1) => Reaches(ms[i][order[i]], f[i], M[order[i]])
      /\ p = "back" => ~Agrees(M, f, Len(f))
  BY DEF Chances, f
<1>5. \A i \in DOMAIN ns : Agrees(M, g, i - 1) => Among(M, ns[i])
  BY <1>1, <1>2, <1>4 DEF Begins
<1>6. \A i \in DOMAIN f : Agrees(M, g, i - 1) => Reaches(ns[i][order[i]], f[i], M[order[i]])
  BY <1>1, <1>2, <1>4 DEF Begins
<1>7. Chances(M, ns, g, "call")
  <2>1. \A i \in DOMAIN g : Agrees(M, g, i - 1) => Reaches(ns[i][order[i]], g[i], M[order[i]])
    BY <1>1, <1>6
  <2> QED  BY <1>5, <2>1 DEF Chances
<1>8. Agrees(M, g, L) => /\ Among(M, ns[L + 1])
                         /\ Reaches(ns[L + 1][order[L + 1]], x, M[order[L + 1]])
  <2>1. L + 1 \in DOMAIN ns /\ L + 1 \in DOMAIN f
    BY <1>1
  <2> QED  BY <1>1, <1>3, <1>5, <1>6, <2>1
<1>9. p = "back" /\ Agrees(M, g, L) => M[order[L + 1]] # x.it
  BY <1>1, <1>2, <1>4
<1> QED  BY <1>7, <1>8, <1>9 DEF L

\* A call that has settled on what a match has does not keep it from its own.
LEMMA MatchNotRefused ==
  ASSUME SearchInv, Searching, Len(Holding) < Len(order), Holding \in Seq(Calls),
         NEW M \in Matches, Agrees(M, Holding, Len(Holding)),
         NEW s, s = order[Len(Holding) + 1]
  PROVE  ~Refused(s, M[s])
<1> DEFINE L == Len(Holding)
<1>1. /\ Given /\ FlagsOf(Holding, oFlagMap) /\ OpaqueOf(Holding, oOpaqueAssignment)
      /\ Len(order) \in Nat /\ \A i \in 1..Len(order) : order[i] \in SignatureNodes
      /\ \A i, j \in 1..Len(order) : order[i] = order[j] => i = j
  BY SearchFacts
<1>2. DOMAIN Holding = 1..L /\ L \in Nat
  OBVIOUS
<1> HIDE DEF L
<1>3. \A i \in DOMAIN Holding : order[i] \in SignatureNodes /\ order[i] # s /\ M[order[i]] = Holding[i].it
  <2>1. \A i \in 1..L : i \in 1..Len(order) /\ L + 1 \in 1..Len(order) /\ i # L + 1
    BY <1>1, <1>2 DEF L
  <2> QED  BY <1>1, <1>2, <2>1 DEF Agrees, L
<1>4. s \in SignatureNodes
  <2>1. L + 1 \in 1..Len(order)
    BY <1>1, <1>2 DEF L
  <2> QED  BY <1>1, <2>1 DEF L
<1>5. ~IsAssigned(M[s])
  <2> SUFFICES ASSUME IsAssigned(M[s])
               PROVE  FALSE
    OBVIOUS
  <2>1. M[s] \in CodeNodes /\ AssignedIn(oFlagMap, M[s])
    BY <1>1, <1>4, MatchFacts DEF IsAssigned, AssignedIn
  <2>2. PICK i \in DOMAIN Holding : Holding[i].it = M[s]
    BY <1>1, <2>1 DEF FlagsOf
  <2>3. M[order[i]] = M[s] /\ order[i] # s /\ order[i] \in SignatureNodes
    BY <1>3, <2>2
  <2> QED  BY <1>1, <1>4, <2>3, MatchFacts
<1>6. Assign(s, M[s]) # "NOK"
  <2> SUFFICES ASSUME Assign(s, M[s]) = "NOK"
               PROVE  FALSE
    OBVIOUS
  <2> DEFINE r == RefOf(s)
  <2>1. r # NoRef /\ oOpaqueAssignment[r] # Unknown /\ oOpaqueAssignment[r] # TypeSpec(M[s])
    BY DEF Assign
  <2>2. r \in Refs
    BY <1>1, <1>4, <2>1, GivenFacts
  <2>3. PICK i \in By(Holding, r) : oOpaqueAssignment[r] = TypeSpec(Holding[i].it)
    BY <1>1, <2>1, <2>2 DEF OpaqueOf
  <2>4. i \in DOMAIN Holding /\ RefOf(order[i]) = r
    BY DEF By
  <2> HIDE DEF r
  <2>5. TypeSpec(M[order[i]]) = TypeSpec(M[s])
    <3>1. order[i] \in SignatureNodes /\ RefOf(order[i]) = RefOf(s) /\ RefOf(order[i]) # NoRef
      BY <1>3, <2>1, <2>4 DEF r
    <3> QED  BY <1>1, <1>4, <3>1, MatchFacts
  <2> QED  BY <1>3, <2>1, <2>3, <2>4, <2>5
<1> QED  BY <1>5, <1>6 DEF Refused

-----------------------------------------------------------------------------
(* What is found, and what is not *)

(***************************************************************************)
(* While a variant is searched there are matrices that the calls under way  *)
(* have begun with, and no call has passed over what a match has; pass 1    *)
(* left every match among the candidates, and a search that is over and had *)
(* time has missed none.                                                    *)
(***************************************************************************)
MatchInv ==
  /\ Searching => \E ms : /\ Traces(ms, Holding, oMatrix, aStack)
                          /\ ~late => \A M \in Matches : Chances(M, ms, frames, pc)
  /\ pc = "pass2" => /\ oMatrix \in Sound
                     /\ ~late => \A M \in Matches : Among(M, oMatrix)
  /\ pc = "found" => Len(frames) = Len(order) /\ oMapping = Mapping
  /\ NoMatchMissed

\* The graphs decide what is sound and what is a match.
LEMMA SameMatches ==
  ASSUME oSignatureGraph' = oSignatureGraph, oCodeGraph' = oCodeGraph
  PROVE  /\ SignatureNodes' = SignatureNodes /\ CodeNodes' = CodeNodes /\ Matrices' = Matrices
         /\ Sound' = Sound /\ Matches' = Matches
<1>1. SignatureNodes' = SignatureNodes /\ CodeNodes' = CodeNodes
  BY DEF SignatureNodes, CodeNodes
<1>2. Matrices' = Matrices
  BY <1>1 DEF Matrices
<1>3. Full' = Full
  BY <1>1, <1>2 DEF Full
<1>4. /\ \A s : InOrder(s)' <=> InOrder(s)
      /\ \A s, c : IsCandidate(s, c)' <=> IsCandidate(s, c)
  BY DEF InOrder, IsCandidate, TypeSpec
<1>5. \A m, s, c : Supported(m, s, c)' <=> Supported(m, s, c)
  BY <1>4 DEF Supported
<1>6. Sound' = Sound
  BY <1>1, <1>3, <1>4, <1>5 DEF Sound, SelfSupporting
<1>7. \A M : IsMatch(oSignatureGraph, M)' <=> IsMatch(oSignatureGraph, M)
  BY DEF IsMatch, IsMatchOf, TypeSpec
<1>8. Matches' = Matches
  BY <1>1, <1>7 DEF Matches
<1> QED  BY <1>1, <1>2, <1>6, <1>8

LEMMA HasMatchStays ==
  ASSUME oCodeGraph' = oCodeGraph
  PROVE  \A g : HasMatch(g)' <=> HasMatch(g)
<1>1. \A g, M : IsMatch(g, M)' <=> IsMatch(g, M)
  BY DEF IsMatch, IsMatchOf, TypeSpec
<1> QED  BY <1>1 DEF HasMatch, CodeNodes

\* The variant that is being looked for has a match when there is one in Matches.
LEMMA MatchesOfVariant == HasMatch(oSignatureDefinition[itSig]) <=> \E M \in Matches : TRUE
  BY DEF HasMatch, Matches, SignatureNodes, oSignatureGraph

LEMMA MatchesSought ==
  ASSUME SearchInv, MatchInv, Searching, InSearch(pc'), UNCHANGED <<inputVars, itSig, order>>,
         late' = late
  PROVE  NoMatchMissed'
<1>1. /\ oSignatureDefinition' = oSignatureDefinition /\ oCodeGraph' = oCodeGraph
      /\ itSig' = itSig /\ late' = late /\ pc' # "failed"
  BY DEF inputVars, InSearch
<1>2. \A g : HasMatch(g)' <=> HasMatch(g)
  BY <1>1, HasMatchStays
<1> QED  BY <1>1, <1>2 DEF MatchInv, NoMatchMissed

\* A step of pass 2 that leaves the calls f, of which h hold a node, and has
\* gone through the matrices ms.
LEMMA MatchKeeps ==
  ASSUME SearchInv, MatchInv, Searching, InSearch(pc'), UNCHANGED <<inputVars, itSig, order>>,
         late' = late, NEW f, frames' = f, NEW h, h = IF pc' = "try" THEN Front(f) ELSE f,
         NEW m, oMatrix' = m, NEW stack, aStack' = stack,
         NEW ms, Traces(ms, h, m, stack), NEW p, pc' = p,
         ~late => \A M \in Matches : Chances(M, ms, f, p),
         p = "found" => Len(f) = Len(order) /\ oMapping' = Mapping'
  PROVE  MatchInv'
<1>1. SignatureNodes' = SignatureNodes /\ Sound' = Sound /\ Matches' = Matches
  BY SameMatches DEF inputVars, oSignatureGraph
<1>2. Holding' = h /\ order' = order /\ late' = late
  BY DEF Holding
<1>3. Traces(ms, Holding, oMatrix, aStack)'
  <2>1. \A i : PushesUpTo(Holding, i)' = PushesUpTo(h, i)
    BY <1>2 DEF PushesUpTo, Pushes
  <2> QED  BY <1>1, <1>2, <2>1 DEF Traces, Below
<1>4. (~late => \A M \in Matches : Chances(M, ms, frames, pc))'
  BY <1>1, <1>2 DEF Chances, Agrees, Among
<1>5. NoMatchMissed'
  BY MatchesSought
<1>6. pc' # "pass2"
  BY DEF InSearch
<1> QED  BY <1>2, <1>3, <1>4, <1>5, <1>6 DEF MatchInv

\* While the calls agree with a match it is among the candidates at hand.
LEMMA ChancesNow ==
  ASSUME NEW M, NEW g \in Seq(Calls), NEW ms \in Seq(Sound), Len(ms) = Len(g) + 1, NEW p,
         Chances(M, ms, g, p)
  PROVE  Chances(M, ms, g, "call") /\ (Agrees(M, g, Len(g)) => Among(M, ms[Len(g) + 1]))
<1>1. Len(g) + 1 \in DOMAIN ms /\ Len(g) + 1 - 1 = Len(g)
  OBVIOUS
<1> QED  BY <1>1 DEF Chances

\* A call settles on c for s, and leaves the matrix n.
LEMMA MatchSettles ==
  ASSUME SearchInv, MatchInv, Searching, UNCHANGED <<inputVars, itSig, order>>, late' = late,
         NEW h \in Seq(Calls), h = Holding, Len(h) < Len(order), NEW s, s = order[Len(h) + 1],
         NEW x \in Calls, frames' = Append(h, x), pc' = "call",
         NEW n \in Sound, Below(n, oMatrix), oMatrix' = n,
         InStep(oMatrix[s]) => n[s] = {x.it},
         NEW after, aStack' = after,
         IF x.each \/ x.ok THEN after = Append(aStack, oMatrix) ELSE after = aStack /\ n = oMatrix,
         NEW ms, Traces(ms, h, oMatrix, aStack),
         ~late => \A M \in Matches : Chances(M, ms, Append(h, x), "try"),
         \A M \in Matches : Among(M, oMatrix) /\ M[s] = x.it => Among(M, n)
  PROVE  MatchInv'
<1> DEFINE f == Append(h, x)
           ns == Append(ms, n)
<1>1. /\ aStack \in Seq(Full) /\ Len(aStack) = Cardinality(Pushes(h))
      /\ \A i \in 1..Len(order) : order[i] \in SignatureNodes
      /\ Len(order) \in Nat
  BY SearchFacts
<1>2. ms \in Seq(Sound) /\ Len(ms) = Len(h) + 1 /\ ms[Len(h) + 1] = oMatrix
  BY DEF Traces
<1>3. \A i \in 1..(Len(h) + 1) : order[i] \in SignatureNodes
  BY <1>1
<1>4. Traces(ns, f, n, after)
  BY <1>1, <1>3, TracesPushed
<1>5. ASSUME ~late, NEW M \in Matches
      PROVE  Chances(M, ns, f, "call")
  <2>1. Chances(M, ms, f, "try")
    BY <1>5
  <2>2. Agrees(M, h, Len(h)) => Among(M, oMatrix)
    <3>1. Begins(ms, ms)
      BY DEF Begins
    <3> QED  BY <1>2, <2>1, <3>1, ChancesPopped
  <2>3. Agrees(M, h, Len(h)) /\ M[order[Len(h) + 1]] = x.it => Among(M, n)
    BY <2>2
  <2> QED  BY <1>2, <2>1, <2>3, ChancesPushed
<1>6. InSearch(pc') /\ pc' # "try" /\ pc' # "found"
  BY DEF InSearch
<1> HIDE DEF f, ns
<1>7. frames' = f /\ pc' = "call"
  BY DEF f
<1> QED  BY <1>4, <1>5, <1>6, <1>7, MatchKeeps

\* The matrices that there are when the search is under way.
LEMMA MatchFrames ==
  ASSUME SearchInv, MatchInv, Searching
  PROVE  /\ oMatrix \in Sound /\ Holding \in Seq(Calls)
         /\ \E ms : /\ Traces(ms, Holding, oMatrix, aStack)
                    /\ ms \in Seq(Sound) /\ Len(ms) = Len(Holding) + 1
                    /\ ms[Len(Holding) + 1] = oMatrix
                    /\ ~late => \A M \in Matches : Chances(M, ms, frames, pc)
<1>1. PICK ms : /\ Traces(ms, Holding, oMatrix, aStack)
                /\ ~late => \A M \in Matches : Chances(M, ms, frames, pc)
  BY DEF MatchInv
<1>2. Holding \in Seq(Calls)
  <2>1. frames \in Seq(Calls) /\ (pc # "try" => Holding = frames)
        /\ (pc = "try" => frames # <<>> /\ Holding = Front(frames))
    BY SearchFacts
  <2>2. frames # <<>> => Front(frames) \in Seq(Calls)
    <3> HIDE DEF Calls
    <3> QED  BY <2>1, Fronted
  <2> QED  BY <2>1, <2>2
<1>3. ms \in Seq(Sound) /\ Len(ms) = Len(Holding) + 1 /\ ms[Len(Holding) + 1] = oMatrix
  BY <1>1 DEF Traces
<1>4. oMatrix \in Sound
  <2>1. Len(Holding) + 1 \in 1..Len(ms)
    BY <1>2, <1>3
  <2> QED  BY <1>3, <2>1
<1> QED  BY <1>1, <1>2, <1>3, <1>4

LEMMA MatchCallFails == SearchInv /\ MatchInv /\ CallFails => MatchInv'
<1> SUFFICES ASSUME SearchInv, MatchInv, CallFails
             PROVE  MatchInv'
  OBVIOUS
<1> DEFINE s == Node
           c == FirstCandidate(oMatrix, Node)
<1>1. /\ pc = "call" /\ pc' = "back" /\ Len(frames) < Len(order) /\ HasSingle(s) /\ frames' = frames
      /\ Refused(s, c) \/ (Assign(s, c) = "OK" /\ ~PruneFlagged(Claimed(oMatrix, s, c)))
      /\ UNCHANGED <<inputVars, itSig, order>> /\ late' = late /\ oMatrix' = oMatrix /\ aStack' = aStack
  BY DEF CallFails, KeptInPass2, searchVars
<1>2. Searching /\ InSearch(pc') /\ Holding = frames
  BY <1>1 DEF Searching, InSearch, Holding
<1>3. /\ Given /\ frames \in Seq(Calls) /\ Len(frames) \in Nat /\ Len(order) \in Nat
      /\ oMatrix \in Full /\ oMatrix \in Matrices /\ \A i \in 1..Len(order) : order[i] \in SignatureNodes
  BY <1>2, SearchFacts
<1>4. s = order[Len(frames) + 1] /\ s \in SignatureNodes
  <2>1. Len(frames) + 1 \in 1..Len(order)
    BY <1>1, <1>3
  <2> QED  BY <1>3, <2>1 DEF Node
<1>5. oMatrix[s] = {c}
  <2>1. oMatrix[s] \subseteq Nat /\ oMatrix[s] # {}
    BY <1>3, <1>4, RowFacts DEF Full
  <2>2. Lowest(After(oMatrix[s], Lowest(oMatrix[s]))) = None
    BY <1>1 DEF HasSingle, NextCandidate, FirstCandidate
  <2> HIDE DEF s
  <2>3. oMatrix[s] = {Lowest(oMatrix[s])}
    BY <2>1, <2>2, SingleCandidate
  <2> QED  BY <2>3 DEF FirstCandidate, s
<1>6. PICK ms : /\ Traces(ms, frames, oMatrix, aStack)
                /\ ms \in Seq(Sound) /\ Len(ms) = Len(frames) + 1 /\ ms[Len(frames) + 1] = oMatrix
                /\ ~late => \A M \in Matches : Chances(M, ms, frames, pc)
  BY <1>2, MatchFrames
<1> HIDE DEF s, c
<1>7. ASSUME ~late, NEW M \in Matches
      PROVE  Chances(M, ms, frames, "back")
  <2>1. Chances(M, ms, frames, "call") /\ (Agrees(M, frames, Len(frames)) => Among(M, oMatrix))
    BY <1>3, <1>6, <1>7, ChancesNow
  <2>2. ASSUME Agrees(M, frames, Len(frames))
        PROVE  FALSE
    <3>1. Among(M, oMatrix) /\ M[s] = c
      BY <1>4, <1>5, <2>1, <2>2 DEF Among
    <3>2. ~Refused(s, c)
      BY <1>1, <1>2, <1>3, <1>4, <2>2, <3>1, MatchNotRefused
    <3>3. Among(M, Claimed(oMatrix, s, c))
      BY <1>3, <1>4, <3>1, MatchClaimed
    <3>4. Claimed(oMatrix, s, c) \in Matrices
      <4>1. c \in CodeNodes
        BY <1>3, <1>4, <3>1, MatchFacts
      <4> QED  BY <1>3, <1>4, <4>1, ClaimedFacts
    <3>5. PruneFlagged(Claimed(oMatrix, s, c))
      BY <1>3, <1>7, <3>3, <3>4, MatchPruned
    <3> QED  BY <1>1, <3>2, <3>5
  <2> QED  BY <2>1, <2>2 DEF Chances
<1> QED
  <2>1. PICK f : f = frames
    OBVIOUS
  <2> QED  BY <1>1, <1>2, <1>6, <1>7, <2>1, MatchKeeps

LEMMA MatchCallSingle == SearchInv /\ MatchInv /\ CallSingle => MatchInv'
<1> SUFFICES ASSUME SearchInv, MatchInv, CallSingle
             PROVE  MatchInv'
  OBVIOUS
<1> DEFINE s == Node
           c == FirstCandidate(oMatrix, Node)
           x == Frame(FALSE, c, Assign(s, c))
           m == Claimed(oMatrix, s, c)
<1>1. /\ pc = "call" /\ pc' = "call" /\ Len(frames) < Len(order) /\ HasSingle(s)
      /\ UNCHANGED <<inputVars, itSig, order>> /\ late' = late
      /\ frames' = Append(frames, x)
      /\ IF Assign(s, c) = "OK"
         THEN PruneFlagged(m) /\ aStack' = Append(aStack, oMatrix) /\ oMatrix' = Pruned(m)
         ELSE aStack' = aStack /\ oMatrix' = oMatrix
  BY DEF CallSingle, KeptInPass2
<1>2. Searching /\ Holding = frames
  BY <1>1 DEF Searching, Holding
<1>3. /\ Given /\ frames \in Seq(Calls) /\ Len(frames) \in Nat /\ Len(order) \in Nat
      /\ oMatrix \in Full /\ oMatrix \in Matrices /\ \A i \in 1..Len(order) : order[i] \in SignatureNodes
  BY <1>2, SearchFacts
<1>4. s = order[Len(frames) + 1] /\ s \in SignatureNodes
  <2>1. Len(frames) + 1 \in 1..Len(order)
    BY <1>1, <1>3
  <2> QED  BY <1>3, <2>1 DEF Node
<1>5. oMatrix[s] = {c} /\ c \in CodeNodes
  <2>1. oMatrix[s] \subseteq Nat /\ oMatrix[s] # {} /\ oMatrix[s] \subseteq CodeNodes
    BY <1>3, <1>4, RowFacts DEF Full
  <2>2. Lowest(After(oMatrix[s], Lowest(oMatrix[s]))) = None
    BY <1>1 DEF HasSingle, NextCandidate, FirstCandidate
  <2> HIDE DEF s
  <2>3. oMatrix[s] = {Lowest(oMatrix[s])}
    BY <2>1, <2>2, SingleCandidate
  <2> QED  BY <2>1, <2>3 DEF FirstCandidate, s
<1>6. PICK ms : /\ Traces(ms, frames, oMatrix, aStack)
                /\ ms \in Seq(Sound) /\ Len(ms) = Len(frames) + 1 /\ ms[Len(frames) + 1] = oMatrix
                /\ ~late => \A M \in Matches : Chances(M, ms, frames, pc)
  BY <1>2, MatchFrames
<1>7. x \in Calls /\ ~x.each /\ x.it = c /\ (x.ok <=> Assign(s, c) = "OK")
  BY <1>5 DEF Frame, Calls
<1>8. m \in Matrices /\ Below(m, oMatrix)
  BY <1>3, <1>4, <1>5, ClaimedFacts
<1>9. oMatrix \in Sound
  BY <1>2, MatchFrames
<1> HIDE DEF s, c, x
<1>10. PICK n : n = oMatrix'
  OBVIOUS
<1>11. n \in Sound /\ Below(n, oMatrix)
  <2>1. CASE Assign(s, c) = "OK"
    <3> HIDE DEF m
    <3> QED  BY <1>1, <1>3, <1>8, <1>9, <1>10, <2>1, StillSound
  <2>2. CASE Assign(s, c) # "OK"
    BY <1>1, <1>9, <1>10, <2>2 DEF Below
  <2> QED  BY <2>1, <2>2
<1>12. n[s] = {x.it}
  <2>1. n[s] \subseteq oMatrix[s] /\ n[s] # {}
    BY <1>4, <1>11 DEF Below, Sound, Full
  <2> QED  BY <1>5, <1>7, <2>1
<1>13. \A M \in Matches : Among(M, oMatrix) /\ M[s] = x.it => Among(M, n)
  <2> SUFFICES ASSUME NEW M \in Matches, Among(M, oMatrix), M[s] = c
               PROVE  Among(M, n)
    BY <1>7
  <2>1. CASE Assign(s, c) = "OK"
    <3>1. Among(M, m)
      BY <1>3, <1>4, MatchClaimed
    <3> HIDE DEF m
    <3> QED  BY <1>1, <1>3, <1>8, <1>10, <2>1, <3>1, MatchPruned
  <2>2. CASE Assign(s, c) # "OK"
    BY <1>1, <1>10, <2>2
  <2> QED  BY <2>1, <2>2
<1>14. ASSUME ~late, NEW M \in Matches
       PROVE  Chances(M, ms, Append(frames, x), "try")
  <2>1. Chances(M, ms, frames, "call") /\ (Agrees(M, frames, Len(frames)) => Among(M, oMatrix))
    BY <1>3, <1>6, <1>14, ChancesNow
  <2>2. Agrees(M, frames, Len(frames)) =>
          Reaches(ms[Len(frames) + 1][order[Len(frames) + 1]], x, M[order[Len(frames) + 1]])
    BY <1>4, <1>5, <1>7, <2>1 DEF Among, Reaches
  <2> QED  BY <1>3, <1>6, <1>7, <2>1, <2>2, ChancesLoop
<1>15. PICK after : after = aStack'
  OBVIOUS
<1>16. IF x.each \/ x.ok THEN after = Append(aStack, oMatrix) ELSE after = aStack /\ n = oMatrix
  BY <1>1, <1>7, <1>10, <1>15
<1> QED  BY <1>1, <1>2, <1>3, <1>4, <1>6, <1>7, <1>10, <1>11, <1>12, <1>13, <1>14, <1>15, <1>16,
            MatchSettles

LEMMA MatchCallEach == SearchInv /\ MatchInv /\ CallEach => MatchInv'
<1> SUFFICES ASSUME SearchInv, MatchInv, CallEach
             PROVE  MatchInv'
  OBVIOUS
<1> DEFINE s == Node
           x == Frame(TRUE, FirstCandidate(oMatrix, s), "none")
           f == Append(frames, x)
<1>1. /\ pc = "call" /\ pc' = "try" /\ Len(frames) < Len(order) /\ frames' = f
      /\ UNCHANGED <<inputVars, itSig, order>> /\ late' = late /\ oMatrix' = oMatrix /\ aStack' = aStack
  BY DEF CallEach, KeptInPass2, searchVars
<1>2. Searching /\ InSearch(pc') /\ Holding = frames
  BY <1>1 DEF Searching, InSearch, Holding
<1>3. /\ Given /\ frames \in Seq(Calls) /\ Len(frames) \in Nat /\ Len(order) \in Nat
      /\ oMatrix \in Full /\ \A i \in 1..Len(order) : order[i] \in SignatureNodes
  BY <1>2, SearchFacts
<1>4. s = order[Len(frames) + 1] /\ s \in SignatureNodes
  <2>1. Len(frames) + 1 \in 1..Len(order)
    BY <1>1, <1>3
  <2> QED  BY <1>3, <2>1 DEF Node
<1>5. oMatrix[s] \subseteq Nat /\ FirstCandidate(oMatrix, s) \in CodeNodes
  BY <1>3, <1>4, RowFacts
<1>6. x.each /\ x.it = Lowest(oMatrix[s]) /\ x \in Calls
  BY <1>5 DEF Frame, Calls, FirstCandidate
<1>7. PICK ms : /\ Traces(ms, frames, oMatrix, aStack)
                /\ ms \in Seq(Sound) /\ Len(ms) = Len(frames) + 1 /\ ms[Len(frames) + 1] = oMatrix
                /\ ~late => \A M \in Matches : Chances(M, ms, frames, pc)
  BY <1>2, MatchFrames
<1> HIDE DEF s, x
<1>8. ASSUME ~late, NEW M \in Matches
      PROVE  Chances(M, ms, f, "try")
  <2>1. Chances(M, ms, frames, "call") /\ (Agrees(M, frames, Len(frames)) => Among(M, oMatrix))
    BY <1>3, <1>7, <1>8, ChancesNow
  <2>2. Among(M, oMatrix) => Ahead(oMatrix[s], x.it, M[s])
    <3>1. Among(M, oMatrix) => M[s] \in oMatrix[s]
      BY <1>4 DEF Among
    <3> QED  BY <1>5, <1>6, <3>1, LoopBegins
  <2>3. Agrees(M, frames, Len(frames)) =>
          Reaches(ms[Len(frames) + 1][order[Len(frames) + 1]], x, M[order[Len(frames) + 1]])
    BY <1>4, <1>6, <1>7, <2>1, <2>2 DEF Reaches
  <2> QED  BY <1>3, <1>6, <1>7, <2>1, <2>3, ChancesLoop
<1>9. Front(f) = frames
  BY <1>3, <1>6, Appended
<1> HIDE DEF f
<1> QED  BY <1>1, <1>2, <1>7, <1>8, <1>9, MatchKeeps

\* The calls of a loop, and the candidate that it has come to.
LEMMA LoopFacts ==
  ASSUME SearchInv, MatchInv, pc = "try"
  PROVE  /\ Holding = Front(frames) /\ Front(frames) \in Seq(Calls) /\ Top \in Calls /\ Top.each
         /\ Append(Front(frames), Top) = frames /\ Len(Front(frames)) < Len(order)
         /\ Len(Front(frames)) \in Nat /\ Top.it \in CodeNodes \cup {None}
         /\ TopNode = order[Len(Front(frames)) + 1] /\ TopNode \in SignatureNodes
         /\ \E ms : /\ Traces(ms, Front(frames), oMatrix, aStack)
                    /\ ms \in Seq(Sound) /\ Len(ms) = Len(Front(frames)) + 1
                    /\ ms[Len(Front(frames)) + 1] = oMatrix
                    /\ ~late => \A M \in Matches :
                         /\ Chances(M, ms, Front(frames), "call")
                         /\ Agrees(M, Front(frames), Len(Front(frames))) =>
                              /\ Among(M, oMatrix)
                              /\ Ahead(oMatrix[TopNode], Top.it, M[TopNode])
<1> DEFINE h == Front(frames)
<1>1. Searching
  BY DEF Searching
<1>2. /\ frames \in Seq(Calls) /\ frames # <<>> /\ Top.each /\ Holding = h /\ Top = Last(frames)
      /\ Top.it \in CodeNodes \cup {None} /\ TopNode = order[Len(h) + 1] /\ TopNode \in SignatureNodes
      /\ Len(frames) <= Len(order) /\ Len(order) \in Nat
  BY <1>1, SearchFacts
<1>3. h \in Seq(Calls) /\ Len(h) = Len(frames) - 1 /\ Len(frames) \in Nat /\ Top \in Calls
  BY <1>2, Fronted
<1>4. Append(h, Top) = frames
  BY <1>2, Popped
<1> HIDE DEF h
<1>5. Len(h) < Len(order) /\ Len(h) \in Nat
  BY <1>2, <1>3
<1>6. PICK ms : /\ Traces(ms, h, oMatrix, aStack)
                /\ ms \in Seq(Sound) /\ Len(ms) = Len(h) + 1 /\ ms[Len(h) + 1] = oMatrix
                /\ ~late => \A M \in Matches : Chances(M, ms, frames, pc)
  BY <1>1, <1>2, MatchFrames
<1>7. ASSUME ~late, NEW M \in Matches
      PROVE  /\ Chances(M, ms, h, "call")
             /\ Agrees(M, h, Len(h)) =>
                  /\ Among(M, oMatrix)
                  /\ Ahead(oMatrix[TopNode], Top.it, M[TopNode])
  <2>1. Chances(M, ms, Append(h, Top), pc)
    BY <1>4, <1>6, <1>7
  <2>2. Begins(ms, ms)
    BY DEF Begins
  <2>3. /\ Chances(M, ms, h, "call")
        /\ Agrees(M, h, Len(h)) => /\ Among(M, ms[Len(h) + 1])
                                   /\ Reaches(ms[Len(h) + 1][order[Len(h) + 1]], Top, M[order[Len(h) + 1]])
    BY <1>3, <1>6, <2>1, <2>2, ChancesPopped
  <2> QED  BY <1>2, <1>6, <2>3 DEF Reaches
<1> QED  BY <1>2, <1>3, <1>4, <1>5, <1>6, <1>7 DEF h

LEMMA MatchTryClaim == SearchInv /\ MatchInv /\ TryClaim => MatchInv'
<1> SUFFICES ASSUME SearchInv, MatchInv, TryClaim
             PROVE  MatchInv'
  OBVIOUS
<1> DEFINE s == TopNode
           c == Top.it
           h == Front(frames)
           x == Frame(TRUE, c, Assign(s, c))
           m == Settled(oMatrix, s, c)
<1>1. /\ pc = "try" /\ pc' = "call" /\ c # None /\ PruneFlagged(m)
      /\ UNCHANGED <<inputVars, itSig, order>> /\ late' = late
      /\ frames' = Append(h, x) /\ aStack' = Append(aStack, oMatrix) /\ oMatrix' = Pruned(m)
  BY DEF TryClaim, KeptInPass2, Try
<1>2. Searching
  BY <1>1 DEF Searching
<1>3. Given /\ oMatrix \in Matrices /\ oMatrix \in Sound
  BY <1>2, SearchFacts, MatchFrames
<1>4. PICK ms : /\ Traces(ms, h, oMatrix, aStack)
                /\ ms \in Seq(Sound) /\ Len(ms) = Len(h) + 1
                /\ ms[Len(h) + 1] = oMatrix
                /\ ~late => \A M \in Matches :
                     /\ Chances(M, ms, h, "call")
                     /\ Agrees(M, h, Len(h)) => /\ Among(M, oMatrix)
                                                /\ Ahead(oMatrix[s], c, M[s])
  BY <1>1, LoopFacts
<1>5. /\ Holding = h /\ h \in Seq(Calls) /\ Len(h) < Len(order) /\ s = order[Len(h) + 1]
      /\ s \in SignatureNodes /\ c \in CodeNodes
  BY <1>1, LoopFacts
<1> HIDE DEF s, c, h
<1>6. x \in Calls /\ x.each /\ x.it = c
  BY <1>5 DEF Frame, Calls
<1> HIDE DEF x
<1>7. m \in Matrices /\ Below(m, oMatrix)
  BY <1>3, <1>5, ClaimedFacts
<1>8. PICK n : n = oMatrix'
  OBVIOUS
<1>9. n \in Sound /\ Below(n, oMatrix) /\ Below(n, m)
  <2> HIDE DEF m
  <2> QED  BY <1>1, <1>3, <1>7, <1>8, StillSound, PrunedFacts
<1>10. InStep(oMatrix[s]) => n[s] = {x.it}
  <2> SUFFICES ASSUME InStep(oMatrix[s])
               PROVE  n[s] = {c}
    BY <1>6
  <2> DEFINE k == [oMatrix EXCEPT ![s] = Sweep(@, {c})]
  <2>1. oMatrix[s] \subseteq CodeNodes
    BY <1>3, <1>5 DEF Matrices
  <2>2. oMatrix[s] \subseteq Nat /\ IsFiniteSet(oMatrix[s])
    BY <1>3, <2>1, GivenFacts, FS_Subset
  <2>3. Sweep(oMatrix[s], {c}) = oMatrix[s] \cap {c}
    BY <2>2, SweepInStep
  <2>4. k \in Matrices /\ k[s] \subseteq {c}
    <3>1. Sweep(oMatrix[s], {c}) \subseteq CodeNodes
      BY <2>1, <2>3
    <3> QED  BY <1>3, <1>5, <2>3, <3>1 DEF Matrices
  <2>5. m = Claimed(k, s, c)
    BY DEF Settled
  <2> HIDE DEF k, m
  <2>6. Below(m, k)
    BY <1>3, <1>5, <2>4, <2>5, ClaimedFacts
  <2>7. n[s] \subseteq {c} /\ n[s] # {}
    BY <1>5, <1>9, <2>4, <2>6 DEF Below, Sound, Full
  <2> QED  BY <2>7
<1>11. \A M \in Matches : Among(M, oMatrix) /\ M[s] = x.it => Among(M, n)
  <2> SUFFICES ASSUME NEW M \in Matches, Among(M, oMatrix), M[s] = c
               PROVE  Among(M, n)
    BY <1>6
  <2>1. Among(M, m)
    BY <1>3, <1>5, MatchClaimed
  <2> HIDE DEF m
  <2> QED  BY <1>1, <1>3, <1>7, <1>8, <2>1, MatchPruned
<1>12. ASSUME ~late, NEW M \in Matches
       PROVE  Chances(M, ms, Append(h, x), "try")
  <2>1. /\ Chances(M, ms, h, "call")
        /\ Agrees(M, h, Len(h)) => Reaches(ms[Len(h) + 1][order[Len(h) + 1]], x, M[order[Len(h) + 1]])
    BY <1>4, <1>5, <1>6, <1>12 DEF Reaches
  <2> QED  BY <1>4, <1>5, <1>6, <2>1, ChancesLoop
<1>13. PICK after : after = aStack' /\ after = Append(aStack, oMatrix)
  BY <1>1
<1> HIDE DEF m
<1> QED  BY <1>1, <1>2, <1>4, <1>5, <1>6, <1>8, <1>9, <1>10, <1>11, <1>12, <1>13, MatchSettles

LEMMA MatchTrySkip == SearchInv /\ MatchInv /\ TrySkip => MatchInv'
<1> SUFFICES ASSUME SearchInv, MatchInv, TrySkip
             PROVE  MatchInv'
  OBVIOUS
<1> DEFINE s == TopNode
           c == Top.it
           h == Front(frames)
           next == NextInLoop(oMatrix, s, c)
           x == Frame(TRUE, next, "none")
           f == Append(h, x)
<1>1. /\ pc = "try" /\ pc' = "try" /\ c # None /\ ~Try(c) /\ frames' = f
      /\ UNCHANGED <<inputVars, itSig, order>> /\ late' = late /\ oMatrix' = oMatrix /\ aStack' = aStack
  BY DEF TrySkip, KeptInPass2, searchVars
<1>2. Searching /\ InSearch(pc')
  BY <1>1 DEF Searching, InSearch
<1>3. Given /\ oMatrix \in Matrices /\ oMatrix \in Full
  BY <1>2, SearchFacts
<1>4. PICK ms : /\ Traces(ms, h, oMatrix, aStack)
                /\ ms \in Seq(Sound) /\ Len(ms) = Len(h) + 1
                /\ ms[Len(h) + 1] = oMatrix
                /\ ~late => \A M \in Matches :
                     /\ Chances(M, ms, h, "call")
                     /\ Agrees(M, h, Len(h)) => /\ Among(M, oMatrix)
                                                /\ Ahead(oMatrix[s], c, M[s])
  BY <1>1, LoopFacts
<1>5. /\ Holding = h /\ h \in Seq(Calls) /\ Len(h) < Len(order) /\ s = order[Len(h) + 1]
      /\ s \in SignatureNodes /\ c \in CodeNodes
  BY <1>1, LoopFacts
<1>6. ~(~Refused(s, c) /\ PruneFlagged(Settled(oMatrix, s, c)))
  BY <1>1 DEF Try
<1> HIDE DEF s, c, h
<1>7. /\ next = Lowest(After(oMatrix[s], c)) /\ next \in CodeNodes \cup {None}
      /\ oMatrix[s] \subseteq Nat
  BY <1>3, <1>5, RowFacts DEF NextInLoop, NextCandidate
<1> HIDE DEF next
<1>8. x \in Calls /\ x.each /\ x.it = next
  BY <1>7 DEF Frame, Calls
<1> HIDE DEF x
<1>9. ASSUME ~late, NEW M \in Matches
      PROVE  Chances(M, ms, f, "try")
  <2>1. ASSUME Agrees(M, h, Len(h))
        PROVE  Ahead(oMatrix[s], next, M[s])
    <3>1. Among(M, oMatrix) /\ Ahead(oMatrix[s], c, M[s])
      BY <1>4, <1>9, <2>1
    <3>2. M[s] # c
      <4> SUFFICES ASSUME M[s] = c
                   PROVE  FALSE
        OBVIOUS
      <4>1. ~Refused(s, c)
        BY <1>2, <1>5, <2>1, MatchNotRefused
      <4>2. Among(M, Settled(oMatrix, s, c))
        BY <1>3, <1>5, <3>1, MatchClaimed
      <4>3. Settled(oMatrix, s, c) \in Matrices
        BY <1>3, <1>5, ClaimedFacts
      <4>4. PruneFlagged(Settled(oMatrix, s, c))
        BY <1>3, <1>9, <4>2, <4>3, MatchPruned
      <4> QED  BY <1>6, <4>1, <4>4
    <3> QED  BY <1>7, <3>1, <3>2, LoopGoesOn
  <2>2. Agrees(M, h, Len(h)) => Reaches(ms[Len(h) + 1][order[Len(h) + 1]], x, M[order[Len(h) + 1]])
    BY <1>4, <1>5, <1>8, <2>1 DEF Reaches
  <2>3. Chances(M, ms, h, "call")
    BY <1>4, <1>9
  <2> QED  BY <1>4, <1>5, <1>8, <2>2, <2>3, ChancesLoop
<1>10. Front(f) = h
  BY <1>5, <1>8, Appended
<1> HIDE DEF f
<1> QED  BY <1>1, <1>2, <1>4, <1>9, <1>10, MatchKeeps

LEMMA MatchTryNone == SearchInv /\ MatchInv /\ TryNone => MatchInv'
<1> SUFFICES ASSUME SearchInv, MatchInv, TryNone
             PROVE  MatchInv'
  OBVIOUS
<1> DEFINE h == Front(frames)
<1>1. /\ pc = "try" /\ pc' = "back" /\ (Top.it = None \/ late) /\ frames' = h
      /\ UNCHANGED <<inputVars, itSig, order>> /\ late' = late /\ oMatrix' = oMatrix /\ aStack' = aStack
  BY DEF TryNone, KeptInPass2, searchVars
<1>2. Searching /\ InSearch(pc')
  BY <1>1 DEF Searching, InSearch
<1>3. PICK ms : /\ Traces(ms, h, oMatrix, aStack)
                /\ ~late => \A M \in Matches :
                     /\ Chances(M, ms, h, "call")
                     /\ Agrees(M, h, Len(h)) => Ahead(oMatrix[TopNode], Top.it, M[TopNode])
  BY <1>1, LoopFacts
<1>4. ASSUME ~late, NEW M \in Matches
      PROVE  Chances(M, ms, h, "back")
  BY <1>1, <1>3, <1>4 DEF Ahead, Chances
<1> HIDE DEF h
<1> QED  BY <1>1, <1>2, <1>3, <1>4, MatchKeeps

LEMMA MatchCallAtEnd == SearchInv /\ MatchInv /\ CallAtEnd => MatchInv'
<1> SUFFICES ASSUME SearchInv, MatchInv, CallAtEnd
             PROVE  MatchInv'
  OBVIOUS
<1>1. /\ pc = "call" /\ Len(frames) = Len(order) /\ frames' = frames
      /\ UNCHANGED <<inputVars, itSig, order>> /\ late' = late /\ oMatrix' = oMatrix /\ aStack' = aStack
      /\ IF Isomorphic THEN oMapping' = Mapping /\ pc' = "found"
                       ELSE UNCHANGED oMapping /\ pc' = "back"
  BY DEF CallAtEnd, KeptInPass2, searchVars
<1>2. Searching /\ Holding = frames
  BY <1>1 DEF Searching, Holding
<1>3. Given /\ oMatrix \in Sound /\ frames \in Seq(Calls)
  BY <1>2, SearchFacts, MatchFrames
<1>4. Isomorphic
  <2> SUFFICES ASSUME NEW s \in SignatureNodes
               PROVE  /\ oMatrix[s] # {}
                      /\ LET ins == oSignatureGraph.inputs[s]
                             outs == oCodeGraph.inputs[FirstCandidate(oMatrix, s)]
                         IN IF InOrder(s)
                            THEN \A k \in DOMAIN ins : outs[k] \in oMatrix[ins[k]]
                            ELSE \A e \in ToSet(ins) : oMatrix[e] \cap ToSet(outs) # {}
    BY DEF Isomorphic
  <2>1. oMatrix \in Full
    BY <1>3 DEF Sound
  <2>2. FirstCandidate(oMatrix, s) \in oMatrix[s]
    BY <1>3, <2>1, RowFacts
  <2>3. Supported(oMatrix, s, FirstCandidate(oMatrix, s))
    BY <1>3, <2>2 DEF Sound, SelfSupporting
  <2> QED  BY <2>2, <2>3 DEF Supported
<1>5. /\ pc' = "found" /\ InSearch(pc') /\ oMapping' = Mapping
  BY <1>1, <1>4 DEF InSearch
<1>6. Mapping' = Mapping
  <2>1. oSignatureGraph' = oSignatureGraph /\ oMatrix' = oMatrix /\ order' = order
    BY <1>1 DEF inputVars, oSignatureGraph
  <2> QED  BY <2>1 DEF Mapping, FirstCandidate, SignatureNodes, SelectLastInSeq
<1>7. PICK ms : /\ Traces(ms, frames, oMatrix, aStack)
                /\ ~late => \A M \in Matches : Chances(M, ms, frames, pc)
  BY <1>2, MatchFrames
<1>8. ~late => \A M \in Matches : Chances(M, ms, frames, "found")
  BY <1>7 DEF Chances
<1>9. PICK f : f = frames
  OBVIOUS
<1> QED  BY <1>1, <1>2, <1>5, <1>6, <1>7, <1>8, <1>9, MatchKeeps

LEMMA MatchReturnFalse == SearchInv /\ MatchInv /\ ReturnFalse => MatchInv'
<1> SUFFICES ASSUME SearchInv, MatchInv, ReturnFalse
             PROVE  MatchInv'
  OBVIOUS
<1> DEFINE g == Front(frames)
           x == Last(frames)
           s == TopNode
<1>1. /\ pc = "back" /\ frames # <<>>
      /\ UNCHANGED <<inputVars, itSig, order>> /\ late' = late
      /\ IF x.each \/ x.ok THEN aStack' = Front(aStack) /\ oMatrix' = Last(aStack)
                           ELSE aStack' = aStack /\ oMatrix' = oMatrix
      /\ IF x.each
         THEN frames' = Append(g, Frame(TRUE, NextInLoop(oMatrix', s, x.it), "none")) /\ pc' = "try"
         ELSE frames' = g /\ pc' = pc
  BY DEF ReturnFalse, KeptInPass2, Top
<1>2. Searching /\ InSearch(pc') /\ Holding = frames
  BY <1>1 DEF Searching, InSearch, Holding
<1>3. /\ Given /\ frames \in Seq(Calls) /\ aStack \in Seq(Full)
      /\ Len(aStack) = Cardinality(Pushes(frames))
      /\ Len(frames) <= Len(order) /\ Len(order) \in Nat /\ \A i \in 1..Len(order) : order[i] \in SignatureNodes
  BY <1>2, SearchFacts
<1>4. /\ g \in Seq(Calls) /\ Len(g) = Len(frames) - 1 /\ Len(frames) \in Nat /\ x \in Calls
      /\ Append(g, x) = frames /\ Len(frames) \in DOMAIN frames
  BY <1>1, <1>3, Fronted, Popped
<1>5. PICK ms : /\ Traces(ms, frames, oMatrix, aStack)
                /\ ~late => \A M \in Matches : Chances(M, ms, frames, pc)
  BY <1>2, MatchFrames
<1>6. PICK n, after : n = oMatrix' /\ after = aStack'
  OBVIOUS
<1> DEFINE ns == Front(ms)
<1>7. /\ Traces(ns, g, n, after) /\ Len(ns) = Len(frames) /\ n = ns[Len(frames)]
      /\ \A i \in DOMAIN ns : i \in DOMAIN ms /\ ns[i] = ms[i]
  <2>1. Pops(frames, oMatrix, aStack, n, after)
    BY <1>1, <1>6 DEF Pops
  <2>2. /\ frames \in Seq(Calls) /\ frames # <<>> /\ aStack \in Seq(Full)
        /\ Len(aStack) = Cardinality(Pushes(frames)) /\ Traces(ms, frames, oMatrix, aStack)
    BY <1>1, <1>3, <1>5
  <2> QED  BY <2>1, <2>2, TracesPopped
<1>8. Len(frames) = Len(g) + 1 /\ s = order[Len(g) + 1] /\ s \in SignatureNodes
  <2>1. Len(frames) \in 1..Len(order) /\ Len(frames) = Len(g) + 1
    BY <1>3, <1>4
  <2>2. order[Len(frames)] \in SignatureNodes
    BY <1>3, <2>1
  <2>3. s = order[Len(frames)]
    BY DEF TopNode
  <2> QED  BY <2>1, <2>2, <2>3
<1> HIDE DEF g, x, s, ns
<1>9. ns \in Seq(Sound) /\ n \in Sound
  <2>1. ns \in Seq(Sound)
    BY <1>7 DEF Traces
  <2>2. Len(frames) \in 1..Len(ns)
    BY <1>4, <1>7
  <2> QED  BY <1>7, <2>1, <2>2
<1>10. ASSUME ~late, NEW M \in Matches
       PROVE  /\ Chances(M, ns, g, "call")
              /\ Agrees(M, g, Len(g)) => Reaches(n[s], x, M[s]) /\ M[s] # x.it
  <2>1. PICK p : p = "back" /\ Chances(M, ms, Append(g, x), p)
    BY <1>1, <1>4, <1>5, <1>10
  <2>2. Len(ns) = Len(g) + 1 /\ ns[Len(g) + 1] = n
    BY <1>7, <1>8
  <2>3. g \in Seq(Calls) /\ x \in Calls /\ ns \in Seq(Sound) /\ Begins(ns, ms)
    BY <1>4, <1>7, <1>9 DEF Begins
  <2>4. /\ Chances(M, ns, g, "call")
        /\ Agrees(M, g, Len(g)) =>
              /\ Among(M, ns[Len(g) + 1])
              /\ Reaches(ns[Len(g) + 1][order[Len(g) + 1]], x, M[order[Len(g) + 1]])
        /\ p = "back" /\ Agrees(M, g, Len(g)) => M[order[Len(g) + 1]] # x.it
    BY <2>1, <2>2, <2>3, ChancesPopped
  <2> QED  BY <1>8, <2>1, <2>2, <2>4
<1>11. n \in Full /\ n[s] \subseteq Nat
  <2>1. n \in Full
    BY <1>9 DEF Sound
  <2> QED  BY <1>3, <1>8, <2>1, RowFacts
<1>12. CASE x.each
  <2>1. PICK y : y = Frame(TRUE, NextInLoop(n, s, x.it), "none")
    OBVIOUS
  <2>2. y.each /\ y.it = Lowest(After(n[s], x.it)) /\ y \in Calls
    <3>1. NextCandidate(n, s, x.it) \in n[s] \cup {None} /\ n[s] \subseteq CodeNodes
      BY <1>3, <1>8, <1>11, RowFacts
    <3> QED  BY <2>1, <3>1 DEF Frame, NextInLoop, NextCandidate, Calls
  <2> DEFINE f == Append(g, y)
  <2>3. frames' = f /\ pc' = "try"
    BY <1>1, <1>6, <1>12, <2>1
  <2>4. ASSUME ~late, NEW M \in Matches
        PROVE  Chances(M, ns, f, "try")
    <3>1. Agrees(M, g, Len(g)) => Ahead(n[s], y.it, M[s])
      BY <1>10, <1>11, <1>12, <2>2, <2>4, LoopGoesOn DEF Reaches
    <3>2. Agrees(M, g, Len(g)) => Reaches(ns[Len(g) + 1][order[Len(g) + 1]], y, M[order[Len(g) + 1]])
      BY <1>7, <1>8, <2>2, <3>1 DEF Reaches
    <3>3. Chances(M, ns, g, "call") /\ Len(ns) = Len(g) + 1
      BY <1>7, <1>8, <1>10, <2>4
    <3> QED  BY <1>4, <1>9, <2>2, <3>2, <3>3, ChancesLoop
  <2>5. Front(f) = g
    BY <1>4, <2>2, Appended
  <2> HIDE DEF f
  <2> QED  BY <1>1, <1>2, <1>6, <1>7, <2>3, <2>4, <2>5, MatchKeeps
<1>13. CASE ~x.each
  <2>1. frames' = g /\ pc' = "back"
    BY <1>1, <1>13
  <2>2. ASSUME ~late, NEW M \in Matches
        PROVE  Chances(M, ns, g, "back")
    BY <1>10, <1>13, <2>2 DEF Reaches, Chances
  <2> QED  BY <1>1, <1>2, <1>6, <1>7, <2>1, <2>2, MatchKeeps
<1> QED  BY <1>12, <1>13

\* A variant is given up.
LEMMA MatchNextVariant ==
  ASSUME SearchInv, MatchInv, pc \in {"pass1", "back"}, NextVariant, ~late => Matches = {}
  PROVE  MatchInv'
<1>1. /\ UNCHANGED <<oSignatureDefinition, oCodeGraph>> /\ late' = late
      /\ IF HasNextVariant /\ ~late THEN itSig' = itSig + 1 /\ pc' = "pass1"
                                    ELSE itSig' = itSig /\ pc' = "failed"
  BY DEF NextVariant, inputVars
<1>2. /\ itSig \in 1..Len(oSignatureDefinition) /\ Len(oSignatureDefinition) \in Nat
      /\ DOMAIN oSignatureDefinition = 1..Len(oSignatureDefinition)
  BY DEF SearchInv, Inputs, IsEvaluable
<1>3. \A g : HasMatch(g)' <=> HasMatch(g)
  BY <1>1, HasMatchStays
<1>4. ~late => ~HasMatch(oSignatureDefinition[itSig])
  BY MatchesOfVariant
<1>5. ASSUME ~late', NEW i \in DOMAIN oSignatureDefinition', i < itSig' \/ pc' = "failed"
      PROVE  ~HasMatch(oSignatureDefinition[i])'
  <2>1. i \in 1..Len(oSignatureDefinition) /\ ~late
    BY <1>1, <1>2, <1>5
  <2>2. i < itSig \/ i = itSig
    BY <1>1, <1>2, <1>5, <2>1 DEF HasNextVariant
  <2>3. ~HasMatch(oSignatureDefinition[i])
    BY <1>2, <1>4, <2>1, <2>2 DEF MatchInv, NoMatchMissed
  <2> QED  BY <1>1, <1>3, <2>3
<1>6. NoMatchMissed'
  BY <1>5 DEF NoMatchMissed
<1>7. pc' \notin {"call", "try", "back", "found", "pass2"}
  BY <1>1
<1> QED  BY <1>6, <1>7 DEF MatchInv, Searching

LEMMA MatchGiveUp == SearchInv /\ MatchInv /\ GiveUp => MatchInv'
<1> SUFFICES ASSUME SearchInv, MatchInv, GiveUp
             PROVE  MatchInv'
  OBVIOUS
<1>1. pc = "back" /\ frames = <<>> /\ NextVariant
  BY DEF GiveUp
<1>2. Searching /\ Len(frames) = 0
  BY <1>1 DEF Searching
<1>3. ASSUME ~late, NEW M \in Matches
      PROVE  FALSE
  <2>1. PICK ms : Chances(M, ms, frames, "back")
    BY <1>1, <1>2, <1>3 DEF MatchInv
  <2>2. ~Agrees(M, frames, 0)
    BY <1>2, <2>1 DEF Chances
  <2> QED  BY <2>2 DEF Agrees
<1> QED  BY <1>1, <1>3, MatchNextVariant

LEMMA MatchPass1 == SearchInv /\ MatchInv /\ Pass1 => MatchInv'
<1> SUFFICES ASSUME SearchInv, MatchInv, Pass1
             PROVE  MatchInv'
  OBVIOUS
<1>1. PICK m \in {Candidates(fitting, inputOrder) : fitting \in {Fitting},
                           inputOrder \in SetToSeqs(SignatureNodes \ SignatureRoots)} :
        IF (\A s \in SignatureRoots : m[s] # {}) /\ PruneFlagged(m)
        THEN /\ oMatrix' = Pruned(m)
             /\ pc' = "pass2"
             /\ UNCHANGED <<inputVars, itSig, order, aStack, oFlagMap, oOpaqueAssignment,
                            frames, oMapping, late>>
        ELSE NextVariant
  BY DEF Pass1
<1>2. PICK inputOrder \in SetToSeqs(SignatureNodes \ SignatureRoots) :
        m = Candidates(Fitting, inputOrder)
  OBVIOUS
<1>3. pc = "pass1" /\ Given
  BY GivenInSearch DEF Pass1
<1>4. Fitting \in Matrices /\ m \in Matrices
  BY <1>2, <1>3, FittingFacts, CandidatesFacts
<1>5. \A s \in SignatureNodes : \A c \in m[s] : IsCandidate(s, c)
  <2>1. \A s \in SignatureNodes : m[s] \subseteq Fitting[s]
    BY <1>2 DEF Candidates
  <2> QED  BY <1>3, <2>1, FittingFacts
<1>6. \A M \in Matches : Among(M, m)
  BY <1>2, <1>3, MatchCandidates
<1>7. CASE (\A s \in SignatureRoots : m[s] # {}) /\ PruneFlagged(m)
  <2>1. /\ oMatrix' = Pruned(m) /\ pc' = "pass2"
        /\ UNCHANGED <<oSignatureDefinition, oCodeGraph, itSig, late>>
    BY <1>1, <1>7 DEF inputVars
  <2>2. Pruned(m) \in Sound
    BY <1>3, <1>4, <1>5, <1>7, PrunedSound
  <2>3. \A M \in Matches : Among(M, Pruned(m))
    BY <1>3, <1>4, <1>6, MatchPruned
  <2>4. SignatureNodes' = SignatureNodes /\ Sound' = Sound /\ Matches' = Matches
    BY <2>1, SameMatches DEF oSignatureGraph
  <2>5. oMatrix' \in Sound' /\ \A M \in Matches' : Among(M, oMatrix)'
    BY <2>1, <2>2, <2>3, <2>4 DEF Among
  <2>6. NoMatchMissed'
    <3>1. \A g : HasMatch(g)' <=> HasMatch(g)
      BY <2>1, HasMatchStays
    <3> QED  BY <2>1, <3>1 DEF MatchInv, NoMatchMissed
  <2> QED  BY <2>1, <2>5, <2>6 DEF MatchInv, Searching
<1>8. CASE ~((\A s \in SignatureRoots : m[s] # {}) /\ PruneFlagged(m))
  <2>1. NextVariant
    BY <1>1, <1>8
  <2>2. ASSUME ~late, NEW M \in Matches
        PROVE  FALSE
    <3>1. Among(M, m) /\ PruneFlagged(m)
      BY <1>3, <1>4, <1>6, <2>2, MatchPruned
    <3>2. \A s \in SignatureRoots : m[s] # {}
      BY <3>1 DEF Among, SignatureRoots
    <3> QED  BY <1>8, <3>1, <3>2
  <2> QED  BY <1>3, <2>1, <2>2, MatchNextVariant
<1> QED  BY <1>7, <1>8

LEMMA MatchPass2 == SearchInv /\ MatchInv /\ Pass2 => MatchInv'
<1> SUFFICES ASSUME SearchInv, MatchInv, Pass2
             PROVE  MatchInv'
  OBVIOUS
<1>1. /\ pc = "pass2" /\ pc' = "call"
      /\ UNCHANGED <<oSignatureDefinition, oCodeGraph, itSig, oMatrix, aStack, frames, late>>
  BY DEF Pass2, searchVars, inputVars
<1>2. frames = <<>> /\ oMatrix \in Sound /\ (~late => \A M \in Matches : Among(M, oMatrix))
  BY <1>1 DEF SearchInv, Fresh, Searching, MatchInv
<1>3. Sound' = Sound /\ Matches' = Matches /\ SignatureNodes' = SignatureNodes
  BY <1>1, SameMatches DEF oSignatureGraph
<1> DEFINE ms == <<oMatrix>>
<1>4. ms \in Seq(Sound) /\ Len(ms) = 1 /\ ms[1] = oMatrix /\ DOMAIN ms = {1}
  BY <1>2
<1> HIDE DEF ms
<1>5. PICK one : one = ms
  OBVIOUS
<1>6. Len(frames') = 0 /\ DOMAIN frames' = {} /\ Holding' = frames'
  BY <1>1, <1>2 DEF Holding
<1>7. Traces(one, Holding, oMatrix, aStack)'
  <2>1. aStack' = <<>>
    BY <1>1 DEF SearchInv, Fresh, Searching
  <2>2. one[1] = FirstOf(oMatrix, aStack)' /\ \A j \in DOMAIN one : Below(one[j], one[1])'
    BY <1>1, <1>4, <1>5, <2>1 DEF FirstOf, Below
  <2> QED  BY <1>1, <1>3, <1>4, <1>5, <1>6, <2>2 DEF Traces
<1>8. (~late => \A M \in Matches : Chances(M, one, frames, pc))'
  BY <1>1, <1>2, <1>3, <1>4, <1>5, <1>6 DEF Chances, Among
<1>9. NoMatchMissed'
  <2>1. \A g : HasMatch(g)' <=> HasMatch(g)
    BY <1>1, HasMatchStays
  <2> QED  BY <1>1, <2>1 DEF MatchInv, NoMatchMissed
<1> QED  BY <1>1, <1>7, <1>8, <1>9 DEF MatchInv

LEMMA MatchEvaluate ==
  ASSUME SearchInv, IsEvaluable(oSignatureDefinition', oCodeGraph'),
         Evaluate(oSignatureDefinition', oCodeGraph')
  PROVE  MatchInv'
<1>1. /\ pc' = IF oSignatureDefinition' = <<>> THEN "failed" ELSE "pass1"
      /\ itSig' = 1
  BY DEF Evaluate, SearchInv, Inputs
<1>2. \A i \in DOMAIN oSignatureDefinition' : i \in Nat /\ i >= 1
  BY DEF IsEvaluable
<1>3. NoMatchMissed'
  BY <1>1, <1>2 DEF NoMatchMissed
<1> QED  BY <1>1, <1>3 DEF MatchInv, Searching

LEMMA MatchUnchanged ==
  ASSUME MatchInv, UNCHANGED <<inputVars, itSig, order, searchVars, frames, oMapping, pc>>,
         late => late'
  PROVE  MatchInv'
<1>1. UNCHANGED <<oSignatureDefinition, oCodeGraph, itSig, order, oMatrix, aStack, frames, oMapping, pc>>
  BY DEF inputVars, searchVars
<1>2. /\ oSignatureGraph' = oSignatureGraph /\ SignatureNodes' = SignatureNodes /\ Sound' = Sound
      /\ Matches' = Matches
  BY <1>1, SameMatches DEF oSignatureGraph
<1>3. Holding' = Holding /\ (Searching' <=> Searching)
  BY <1>1 DEF Holding, Searching
<1>4. \A ms : Traces(ms, Holding, oMatrix, aStack)' <=> Traces(ms, Holding, oMatrix, aStack)
  <2>1. \A i : PushesUpTo(Holding, i)' = PushesUpTo(Holding, i)
    BY <1>3 DEF PushesUpTo, Pushes
  <2> QED  BY <1>1, <1>2, <1>3, <2>1 DEF Traces, FirstOf, Below
<1>5. \A M, ms : Chances(M, ms, frames, pc)' <=> Chances(M, ms, frames, pc)
  BY <1>1, <1>2 DEF Chances, Agrees, Among
<1>6. Mapping' = Mapping
  BY <1>1, <1>2 DEF Mapping, FirstCandidate, SignatureNodes, SelectLastInSeq
<1>7. NoMatchMissed'
  <2>1. \A g : HasMatch(g)' <=> HasMatch(g)
    BY <1>1, HasMatchStays
  <2> QED  BY <1>1, <2>1 DEF MatchInv, NoMatchMissed
<1>8. Searching' => \E ms : /\ Traces(ms, Holding, oMatrix, aStack)'
                            /\ ~late' => \A M \in Matches' : Chances(M, ms, frames, pc)'
  BY <1>2, <1>3, <1>4, <1>5 DEF MatchInv
<1>9. pc' = "pass2" => oMatrix' \in Sound' /\ (~late' => \A M \in Matches' : Among(M, oMatrix)')
  BY <1>1, <1>2 DEF MatchInv, Among
<1> QED  BY <1>1, <1>6, <1>7, <1>8, <1>9 DEF MatchInv

LEMMA MatchNext == SearchInv /\ MatchInv /\ [EvaluatorNext]_evaluatorVars => MatchInv'
<1> SUFFICES ASSUME SearchInv, MatchInv, [EvaluatorNext]_evaluatorVars
             PROVE  MatchInv'
  OBVIOUS
<1>1. CASE Step
  BY <1>1, MatchPass1, MatchPass2, MatchCallFails, MatchCallSingle, MatchCallEach, MatchCallAtEnd,
     MatchTryClaim, MatchTrySkip, MatchTryNone, MatchReturnFalse, MatchGiveUp DEF Step
<1>2. CASE TimeIsUp
  BY <1>2, MatchUnchanged DEF TimeIsUp
<1>3. CASE UNCHANGED evaluatorVars
  BY <1>3, MatchUnchanged DEF evaluatorVars
<1> QED  BY <1>1, <1>2, <1>3, MatchEvaluate DEF EvaluatorNext

LEMMA MatchInit == EvaluatorInit => MatchInv
  BY DEF EvaluatorInit, MatchInv, Searching, NoMatchMissed

(***************************************************************************)
(* The matrices that the calls under way have begun with hold every match   *)
(* that those calls may still come to.                                      *)
(***************************************************************************)
THEOREM MatchInvariant == EvaluatorSpec => []MatchInv
  BY MatchInit, MatchNext, SearchInvariant, PTL DEF EvaluatorSpec

(***************************************************************************)
(* No variant that is given up in time has a match, whatever the orders in  *)
(* which nodes and inputs are come to, and in however many words.           *)
(***************************************************************************)
THEOREM NeverMatchMissed == EvaluatorSpec => []NoMatchMissed
<1>1. MatchInv => NoMatchMissed
  BY DEF MatchInv
<1> QED  BY <1>1, MatchInvariant, PTL

-----------------------------------------------------------------------------
(***************************************************************************)
(* A match that is reported.  Every call of Pass2Recurse has settled on a   *)
(* node.  Where that node is the only candidate left, sound says of the     *)
(* match what it says of candidates; and only where candidates were passed  *)
(* over is another left.                                                    *)
(***************************************************************************)

\* The greatest of finitely many positions.
LEMMA GreatestPosition ==
  ASSUME NEW L \in Nat, NEW I, I \subseteq 1..L, I # {}
  PROVE  Max(I) \in I
<1> DEFINE T == {L - i : i \in I}
<1>1. T \subseteq Nat /\ T # {}
  OBVIOUS
<1>2. PICK x \in T : \A y \in T : x <= y
  BY <1>1, LeastNumber
<1>3. PICK i \in I : x = L - i
  BY <1>2
<1>4. ASSUME NEW j \in I
      PROVE  i >= j
  <2>1. i \in Int /\ j \in Int
    OBVIOUS
  <2>2. L - i <= L - j
    BY <1>2, <1>3
  <2> QED  BY <2>1, <2>2
<1>5. \E k \in I : \A j \in I : k >= j
  BY <1>3, <1>4
<1> QED  BY <1>5 DEF Max

\* A node that is mapped to stands for the node of the code that it is mapped from.
LEMMA MappedBack ==
  ASSUME SearchInv, Searching, NEW s \in SignatureNodes
  PROVE  Matched[Mapping[Matched[s]]] = Matched[s]
<1> DEFINE c == Matched[s]
           I == {i \in 1..Len(order) : FirstCandidate(oMatrix, order[i]) = c}
<1>1. \A t \in SignatureNodes : Matched[t] = FirstCandidate(oMatrix, t)
  BY DEF Matched
<1>2. /\ Len(order) \in Nat /\ \A i \in 1..Len(order) : order[i] \in SignatureNodes
      /\ \E i \in 1..Len(order) : order[i] = s
  BY SearchFacts
<1>3. I # {} /\ I \subseteq 1..Len(order)
  BY <1>1, <1>2
<1>4. Mapping[c] = order[Max(I)]
  <2>1. SelectLastInSeq(order, LAMBDA t : FirstCandidate(oMatrix, t) = c) = Max(I)
    BY <1>3 DEF SelectLastInSeq
  <2>2. c \in {FirstCandidate(oMatrix, t) : t \in SignatureNodes}
    BY <1>1
  <2> HIDE DEF c, I
  <2> QED  BY <2>1, <2>2 DEF Mapping
<1>5. Max(I) \in I
  <2> HIDE DEF I
  <2> QED  BY <1>2, <1>3, GreatestPosition
<1> QED  BY <1>1, <1>2, <1>4, <1>5

\* What the calls have settled on, when none is left to be made.
LEMMA SettledOn ==
  ASSUME SearchInv, Searching, NEW s \in Kept
  PROVE  \E i \in DOMAIN frames : /\ order[i] = s /\ frames[i].it = Matched[s]
                                  /\ oMatrix[s] = {Matched[s]}
<1>1. s \in SignatureNodes
  BY DEF Kept
<1>2. PICK i \in DOMAIN frames : order[i] = s /\ oMatrix[s] = {frames[i].it}
  BY DEF Kept
<1>3. Matched[s] = frames[i].it
  <2>1. FirstCandidate(oMatrix, s) \in oMatrix[s]
    BY <1>1, SearchFacts, RowFacts
  <2> QED  BY <1>1, <1>2, <2>1 DEF Matched
<1> QED  BY <1>2, <1>3

LEMMA InStepKept ==
  ASSUME SearchInv, MatchInv, pc = "found", NEW s \in SignatureNodes, InStep(Initial[s])
  PROVE  s \in Kept
<1>1. Searching /\ Holding = frames /\ Len(frames) = Len(order)
  BY DEF Searching, Holding, MatchInv
<1>2. /\ frames \in Seq(Calls) /\ Len(order) \in Nat
      /\ \E i \in 1..Len(order) : order[i] = s
  BY <1>1, SearchFacts
<1>3. PICK i \in DOMAIN frames : order[i] = s
  BY <1>1, <1>2
<1>4. PICK ms : Traces(ms, frames, oMatrix, aStack)
  BY <1>1, MatchFrames
<1>5. ms[1] = Initial
  BY <1>4 DEF Traces, FirstOf, Initial
<1>6. Len(ms) \in (i + 1)..Len(ms) /\ ms[Len(ms)] = oMatrix
  BY <1>2, <1>4 DEF Traces
<1>7. \A j \in (i + 1)..Len(ms) : ms[j][order[i]] = {frames[i].it}
  BY <1>3, <1>4, <1>5 DEF Traces
<1> QED  BY <1>3, <1>6, <1>7 DEF Kept

LEMMA FoundMatches ==
  ASSUME SearchInv, MatchInv, pc = "found"
  PROVE  IsMatchOf(Kept, oSignatureGraph, Matched)
<1> DEFINE g == oSignatureGraph
<1>1. Searching /\ Given /\ oMatrix \in Sound /\ Holding = frames
  <2>1. Searching /\ Holding = frames
    BY DEF Searching, Holding
  <2> QED  BY <2>1, SearchFacts, MatchFrames
<1>2. /\ \A s \in SignatureNodes : Matched[s] \in oMatrix[s] /\ Matched[s] \in CodeNodes
      /\ \A s \in Kept : s \in SignatureNodes /\ oMatrix[s] = {Matched[s]}
  <2>1. \A s \in SignatureNodes : Matched[s] \in oMatrix[s]
    <3> SUFFICES ASSUME NEW s \in SignatureNodes
                 PROVE  Matched[s] \in oMatrix[s]
      OBVIOUS
    <3>1. FirstCandidate(oMatrix, s) \in oMatrix[s]
      BY <1>1, SearchFacts, RowFacts
    <3> QED  BY <3>1 DEF Matched
  <2>2. \A s \in SignatureNodes : oMatrix[s] \subseteq CodeNodes
    BY <1>1 DEF Sound, Full, Matrices
  <2>3. \A s \in Kept : s \in SignatureNodes /\ oMatrix[s] = {Matched[s]}
    BY <1>1, SettledOn DEF Kept
  <2> QED  BY <2>1, <2>2, <2>3
<1>3. \A s \in SignatureNodes : IsCandidate(s, Matched[s]) /\ Supported(oMatrix, s, Matched[s])
  BY <1>1, <1>2 DEF Sound, SelfSupporting
<1>4. ASSUME NEW s \in SignatureNodes
      PROVE  \/ g.type[s] = "OPAQUE"
             \/ /\ g.type[s] = oCodeGraph.type[Matched[s]]
                /\ g.type[s] = "CONSTANT" => g.value[s] = oCodeGraph.value[Matched[s]]
  BY <1>3 DEF IsCandidate, TypeSpec
<1>5. ASSUME NEW s \in SignatureNodes
      PROVE  LET ins == g.inputs[s]
                 outs == oCodeGraph.inputs[Matched[s]]
             IN IF g.type[s] \in OrderSensitive
                THEN /\ Len(ins) = Len(outs)
                     /\ \A k \in DOMAIN ins : ins[k] \in Kept => outs[k] = Matched[ins[k]]
                ELSE \A e \in ToSet(ins) \cap Kept : Matched[e] \in ToSet(outs)
  <2> DEFINE ins == g.inputs[s]
             outs == oCodeGraph.inputs[Matched[s]]
  <2>1. IF InOrder(s) THEN Len(ins) = Len(outs) /\ \A k \in DOMAIN ins : outs[k] \in oMatrix[ins[k]]
                      ELSE \A e \in ToSet(ins) : oMatrix[e] \cap ToSet(outs) # {}
    BY <1>3 DEF Supported
  <2>2. InOrder(s) <=> g.type[s] \in OrderSensitive
    BY DEF InOrder
  <2> HIDE DEF ins, outs
  <2>3. CASE InOrder(s)
    BY <1>2, <2>1, <2>2, <2>3 DEF ins, outs
  <2>4. CASE ~InOrder(s)
    <3>1. \A e \in ToSet(ins) \cap Kept : Matched[e] \in ToSet(outs)
      BY <1>2, <2>1, <2>4
    <3> QED  BY <2>2, <2>4, <3>1 DEF ins, outs
  <2> QED  BY <2>3, <2>4
<1>6. ASSUME NEW s \in Kept, NEW t \in Kept,
             g.type[s] = "OPAQUE", g.type[t] = "OPAQUE", g.value[s] = g.value[t], g.value[s] # NoRef
      PROVE  TypeSpec(Matched[s]) = TypeSpec(Matched[t])
  <2>1. PICK r : r = RefOf(s) /\ r = RefOf(t) /\ r \in Refs
    BY <1>1, <1>2, <1>6, GivenFacts DEF RefOf
  <2>2. PICK i \in DOMAIN frames : order[i] = s /\ frames[i].it = Matched[s]
    BY <1>1, SettledOn
  <2>3. PICK j \in DOMAIN frames : order[j] = t /\ frames[j].it = Matched[t]
    BY <1>1, SettledOn
  <2>4. i \in By(frames, r) /\ j \in By(frames, r)
    BY <2>1, <2>2, <2>3 DEF By
  <2>5. \A k \in By(frames, r) : oOpaqueAssignment[r] = TypeSpec(frames[k].it)
    <3>1. OpaqueOf(frames, oOpaqueAssignment)
      BY <1>1, SearchFacts
    <3> QED  BY <2>1, <2>4, <3>1 DEF OpaqueOf
  <2> QED  BY <2>2, <2>3, <2>4, <2>5
<1>7. SignatureNodes = DOMAIN g.type
  BY DEF SignatureNodes
<1> HIDE DEF g
<1> QED  BY <1>4, <1>5, <1>6, <1>7 DEF IsMatchOf, g

(***************************************************************************)
(* For every definition and every graph, in however many words of any size: *)
(* a match that is reported is one of the nodes that were left the          *)
(* candidate they were settled on, no two of which have a node of the code  *)
(* whose flag can be told; only a node with candidates that can be passed   *)
(* over may be left another; and the node that a node of the code is marked *)
(* for is one that it stands for.                                           *)
(***************************************************************************)
THEOREM ReportsMatches == EvaluatorSpec => []FoundIsMatch
<1>1. SearchInv /\ MatchInv => FoundIsMatch
  <2> SUFFICES ASSUME SearchInv, MatchInv, pc = "found"
               PROVE  /\ IsMatchOf(Kept, oSignatureGraph, Matched)
                      /\ \A s, t \in Kept :
                           Matched[s] = Matched[t] /\ Matched[s] \in Readable => s = t
                      /\ \A s \in SignatureNodes :
                           /\ Matched[oMapping[Matched[s]]] = Matched[s]
                           /\ InStep(Initial[s]) => s \in Kept
    BY DEF FoundIsMatch
  <2>1. Searching /\ Holding = frames /\ oMapping = Mapping
    BY DEF Searching, Holding, MatchInv
  <2>2. ASSUME NEW s \in Kept, NEW t \in Kept,
               Matched[s] = Matched[t], Matched[s] \in Readable
        PROVE  s = t
    <3>1. PICK i \in DOMAIN frames : order[i] = s /\ frames[i].it = Matched[s]
      BY <2>1, SettledOn
    <3>2. PICK j \in DOMAIN frames : order[j] = t /\ frames[j].it = Matched[t]
      BY <2>1, SettledOn
    <3>3. FlagsOf(frames, oFlagMap) /\ Legible(Matched[s])
      BY <2>1, <2>2, SearchFacts DEF Readable, Legible
    <3> QED  BY <2>2, <3>1, <3>2, <3>3 DEF FlagsOf
  <2>3. \A s \in SignatureNodes : Matched[oMapping[Matched[s]]] = Matched[s]
    BY <2>1, MappedBack
  <2> QED  BY <2>2, <2>3, FoundMatches, InStepKept
<1> QED  BY <1>1, SearchInvariant, MatchInvariant, PTL

\* Of code in one word, as of any whose candidates are in step, what is
\* reported is a match.
COROLLARY InStepMatches ==
  EvaluatorSpec =>
    [](pc = "found" /\ (\A s \in SignatureNodes : InStep(Initial[s]))
       => IsMatch(oSignatureGraph, Matched))
<1>1. FoundIsMatch => (pc = "found" /\ (\A s \in SignatureNodes : InStep(Initial[s]))
                         => IsMatch(oSignatureGraph, Matched))
  <2> SUFFICES ASSUME FoundIsMatch, pc = "found", \A s \in SignatureNodes : InStep(Initial[s])
               PROVE  IsMatch(oSignatureGraph, Matched)
    OBVIOUS
  <2>1. Kept = DOMAIN oSignatureGraph.type
    BY DEF FoundIsMatch, Kept, SignatureNodes
  <2> QED  BY <2>1 DEF FoundIsMatch, IsMatch
<1> QED  BY <1>1, ReportsMatches, PTL
=============================================================================
