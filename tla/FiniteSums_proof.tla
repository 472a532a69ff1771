--------------------------- MODULE FiniteSums_proof ---------------------------
(***************************************************************************)
(* Lemmas about sums, for the proofs of the components that keep accounts: *)
(* what a sum is over nothing, one element or two disjoint sets, and how   *)
(* it changes when one value does.                                         *)
(***************************************************************************)
EXTENDS FiniteSums, FiniteSetTheorems, TLAPS

(* A summand: a function with natural values on a finite set. *)
Summable(f, S) == IsFiniteSet(S) /\ \A x \in S : f[x] \in Nat

LEMMA UnitsOf ==
  ASSUME NEW f, NEW S
  PROVE  \A u : u \in Units(f, S) <=> \E x \in S : u \in {x} \X (1 .. f[x])
  BY DEF Units

(* The units of one value are as many as the value says. *)
LEMMA UnitsOfOne ==
  ASSUME NEW x, NEW n \in Nat
  PROVE  IsFiniteSet({x} \X (1 .. n)) /\ Cardinality({x} \X (1 .. n)) = n
  <1>1. IsFiniteSet({x}) /\ Cardinality({x}) = 1
    BY FS_Singleton
  <1>2. IsFiniteSet(1 .. n) /\ Cardinality(1 .. n) = n
    BY FS_Interval
  <1>3. /\ IsFiniteSet({x} \X (1 .. n))
        /\ Cardinality({x} \X (1 .. n)) = Cardinality({x}) * Cardinality(1 .. n)
    BY <1>1, <1>2, FS_Product
  <1> QED  BY <1>1, <1>2, <1>3

LEMMA UnitsFinite ==
  ASSUME NEW f, NEW S, Summable(f, S)
  PROVE  IsFiniteSet(Units(f, S))
  <1> DEFINE T == {{x} \X (1 .. f[x]) : x \in S}
             g == [x \in S |-> {x} \X (1 .. f[x])]
  <1>1. g \in Surjection(S, T)
    BY DEF Surjection
  <1>2. IsFiniteSet(T)
    BY <1>1, FS_Surjection DEF Summable
  <1>3. ASSUME NEW U \in T PROVE IsFiniteSet(U)
    <2>1. PICK x \in S : U = {x} \X (1 .. f[x])
      OBVIOUS
    <2>2. f[x] \in Nat
      BY DEF Summable
    <2> QED  BY <2>1, <2>2, UnitsOfOne
  <1> QED  BY <1>2, <1>3, FS_UNION DEF Units

(* A sum of naturals is a natural. *)
LEMMA TotalNat ==
  ASSUME NEW f, NEW S, Summable(f, S)
  PROVE  Total(f, S) \in Nat
  BY UnitsFinite, FS_CardinalityType DEF Total

LEMMA TotalEmpty ==
  ASSUME NEW f
  PROVE  Total(f, {}) = 0
  <1>1. Units(f, {}) = {}
    BY DEF Units
  <1> QED  BY <1>1, FS_EmptySet DEF Total

LEMMA TotalOne ==
  ASSUME NEW f, NEW x, f[x] \in Nat
  PROVE  Total(f, {x}) = f[x]
  <1>1. Units(f, {x}) = {x} \X (1 .. f[x])
    BY DEF Units
  <1> QED  BY <1>1, UnitsOfOne DEF Total

(* A sum depends on the values in the set only. *)
LEMMA TotalSame ==
  ASSUME NEW f, NEW g, NEW S, \A x \in S : f[x] = g[x]
  PROVE  Total(f, S) = Total(g, S)
  <1>1. Units(f, S) = Units(g, S)
    BY DEF Units
  <1> QED  BY <1>1 DEF Total

(* The sum over two sets that have nothing in common. *)
LEMMA TotalUnion ==
  ASSUME NEW f, NEW S, NEW T, Summable(f, S), Summable(f, T), S \intersect T = {}
  PROVE  /\ Summable(f, S \union T)
         /\ Total(f, S \union T) = Total(f, S) + Total(f, T)
  <1>1. Units(f, S \union T) = Units(f, S) \union Units(f, T)
    BY DEF Units
  <1>2. Units(f, S) \intersect Units(f, T) = {}
    BY UnitsOf
  <1>3. IsFiniteSet(Units(f, S)) /\ IsFiniteSet(Units(f, T))
    BY UnitsFinite
  <1>4. Cardinality(Units(f, S) \intersect Units(f, T)) = 0
    BY <1>2, FS_EmptySet
  <1>5. Cardinality(Units(f, S \union T))
          = Cardinality(Units(f, S)) + Cardinality(Units(f, T)) - 0
    BY <1>1, <1>3, <1>4, FS_Union
  <1>6. Cardinality(Units(f, S)) \in Nat /\ Cardinality(Units(f, T)) \in Nat
    BY <1>3, FS_CardinalityType
  <1>7. Summable(f, S \union T)
    BY FS_Union DEF Summable
  <1> QED  BY <1>5, <1>6, <1>7 DEF Total

(* The sum over a set and one more element. *)
LEMMA TotalAdd ==
  ASSUME NEW f, NEW S, Summable(f, S), NEW x, x \notin S, f[x] \in Nat
  PROVE  /\ Summable(f, S \union {x})
         /\ Total(f, S \union {x}) = Total(f, S) + f[x]
  <1>1. Summable(f, {x}) /\ S \intersect {x} = {}
    BY FS_Singleton DEF Summable
  <1> QED  BY <1>1, TotalUnion, TotalOne

(* The sum over a set without one of its elements. *)
LEMMA TotalRemove ==
  ASSUME NEW f, NEW S, Summable(f, S), NEW x \in S
  PROVE  /\ Summable(f, S \ {x})
         /\ Total(f, S \ {x}) \in Nat
         /\ Total(f, S) = Total(f, S \ {x}) + f[x]
  <1>1. Summable(f, S \ {x}) /\ f[x] \in Nat
    BY FS_RemoveElement DEF Summable
  <1>2. S = (S \ {x}) \union {x}
    OBVIOUS
  <1>3. Total(f, (S \ {x}) \union {x}) = Total(f, S \ {x}) + f[x]
    BY <1>1, TotalAdd
  <1> QED  BY <1>1, <1>2, <1>3, TotalNat

(* f and g differ on S at x only. *)
DifferAt(f, g, S, x) == \A y \in S \ {x} : g[y] = f[y]

(* One value of the function changes: the sum changes by the difference. *)
LEMMA TotalChange ==
  ASSUME NEW f, NEW g, NEW S, Summable(f, S), NEW x \in S, g[x] \in Nat, DifferAt(f, g, S, x)
  PROVE  /\ Summable(g, S)
         /\ Total(g, S) + f[x] = Total(f, S) + g[x]
  <1>1. Summable(g, S)
    BY DEF Summable, DifferAt
  <1>2. /\ Total(f, S) = Total(f, S \ {x}) + f[x]
        /\ Total(g, S) = Total(g, S \ {x}) + g[x]
        /\ Total(f, S \ {x}) \in Nat
    BY <1>1, TotalRemove
  <1>3. Total(g, S \ {x}) = Total(f, S \ {x})
    BY TotalSame DEF DifferAt
  <1>4. f[x] \in Nat
    BY DEF Summable
  <1> QED  BY <1>1, <1>2, <1>3, <1>4

(* An amount is added to, or taken from, one value. *)
LEMMA TotalMore ==
  ASSUME NEW S, IsFiniteSet(S), NEW f \in [S -> Nat], NEW x \in S, NEW n \in Nat
  PROVE  Total([f EXCEPT ![x] = f[x] + n], S) = Total(f, S) + n
  <1> DEFINE g == [f EXCEPT ![x] = f[x] + n]
  <1>1. g[x] = f[x] + n /\ DifferAt(f, g, S, x)
    BY DEF DifferAt
  <1>2. f[x] \in Nat /\ g[x] \in Nat
    BY <1>1
  <1>3. Summable(f, S)
    BY DEF Summable
  <1> HIDE DEF g
  <1>4. Summable(g, S) /\ Total(g, S) + f[x] = Total(f, S) + g[x]
    BY <1>1, <1>2, <1>3, TotalChange
  <1>5. Total(f, S) \in Nat /\ Total(g, S) \in Nat
    BY <1>3, <1>4, TotalNat
  <1>6. Total(g, S) = Total(f, S) + n
    BY <1>1, <1>2, <1>4, <1>5
  <1> QED  BY <1>6 DEF g

LEMMA TotalLess ==
  ASSUME NEW S, IsFiniteSet(S), NEW f \in [S -> Nat], NEW x \in S, NEW n \in Nat, f[x] - n \in Nat
  PROVE  /\ Total([f EXCEPT ![x] = f[x] - n], S) \in Nat
         /\ Total(f, S) = Total([f EXCEPT ![x] = f[x] - n], S) + n
  <1> DEFINE g == [f EXCEPT ![x] = f[x] - n]
  <1>1. g[x] = f[x] - n /\ DifferAt(f, g, S, x)
    BY DEF DifferAt
  <1>2. f[x] \in Nat /\ g[x] \in Nat
    BY <1>1
  <1>3. Summable(f, S)
    BY DEF Summable
  <1> HIDE DEF g
  <1>4. Summable(g, S) /\ Total(g, S) + f[x] = Total(f, S) + g[x]
    BY <1>1, <1>2, <1>3, TotalChange
  <1>5. Total(f, S) \in Nat /\ Total(g, S) \in Nat
    BY <1>3, <1>4, TotalNat
  <1>6. Total(f, S) = Total(g, S) + n
    BY <1>1, <1>2, <1>4, <1>5
  <1> QED  BY <1>5, <1>6 DEF g

(* The same of a function that is less, or more, at one element.            *)
Less(f, g, x, n) == g = [f EXCEPT ![x] = f[x] - n]

More(f, g, x, n) == g = [f EXCEPT ![x] = f[x] + n]

LEMMA TotalOfLess ==
  ASSUME NEW S, IsFiniteSet(S), NEW f \in [S -> Nat], NEW x \in S, NEW n \in Nat, f[x] - n \in Nat,
         NEW g, Less(f, g, x, n)
  PROVE  g \in [S -> Nat] /\ Total(g, S) \in Nat /\ Total(f, S) = Total(g, S) + n
  <1>1. /\ Total([f EXCEPT ![x] = f[x] - n], S) \in Nat
        /\ Total(f, S) = Total([f EXCEPT ![x] = f[x] - n], S) + n
    BY TotalLess
  <1>2. g \in [S -> Nat]
    BY DEF Less
  <1> QED  BY <1>1, <1>2, Zenon DEF Less

LEMMA TotalOfMore ==
  ASSUME NEW S, IsFiniteSet(S), NEW f \in [S -> Nat], NEW x \in S, NEW n \in Nat,
         NEW g, More(f, g, x, n)
  PROVE  g \in [S -> Nat] /\ Total(g, S) = Total(f, S) + n
  <1>1. Total([f EXCEPT ![x] = f[x] + n], S) = Total(f, S) + n
    BY TotalMore
  <1>2. f[x] + n \in Nat
    OBVIOUS
  <1>3. g \in [S -> Nat]
    BY <1>2 DEF More
  <1> QED  BY <1>1, <1>3, Zenon DEF More

(* What moves from one element to another leaves the sum as it was.         *)
LEMMA TotalMoved ==
  ASSUME NEW S, IsFiniteSet(S), NEW f \in [S -> Nat], NEW x \in S, NEW y \in S, NEW n \in Nat,
         f[x] - n \in Nat,
         NEW g, Less(f, g, x, n), NEW h, More(g, h, y, n)
  PROVE  h \in [S -> Nat] /\ Total(h, S) = Total(f, S)
  <1>1. g \in [S -> Nat] /\ Total(f, S) = Total(g, S) + n
    BY TotalOfLess
  <1>2. h \in [S -> Nat] /\ Total(h, S) = Total(g, S) + n
    BY <1>1, TotalOfMore
  <1> QED  BY <1>1, <1>2

(* Part of a set has at most the sum of all of it. *)
LEMMA TotalPart ==
  ASSUME NEW f, NEW S, NEW T \in SUBSET S, Summable(f, S)
  PROVE  Summable(f, T) /\ Total(f, T) <= Total(f, S)
  <1>1. Units(f, T) \subseteq Units(f, S)
    BY DEF Units
  <1>2. Cardinality(Units(f, T)) <= Cardinality(Units(f, S))
    BY <1>1, UnitsFinite, FS_Subset
  <1>3. Summable(f, T)
    BY FS_Subset DEF Summable
  <1> QED  BY <1>2, <1>3 DEF Total
(* The sum of a value that all elements have.                               *)
LEMMA TotalConstant ==
  ASSUME NEW S, IsFiniteSet(S), NEW n \in Nat, NEW f \in [S -> Nat], \A x \in S : f[x] = n
  PROVE  Total(f, S) = n * Cardinality(S)
  <1>1. Units(f, S) = S \X (1 .. n)
    BY DEF Units
  <1>2. IsFiniteSet(1 .. n) /\ Cardinality(1 .. n) = n
    BY FS_Interval
  <1>3. Cardinality(S \X (1 .. n)) = Cardinality(S) * Cardinality(1 .. n)
    BY <1>2, FS_Product
  <1>4. Cardinality(S) \in Nat
    BY FS_CardinalityType
  <1> QED  BY <1>1, <1>2, <1>3, <1>4 DEF Total
=============================================================================
