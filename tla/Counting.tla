------------------------------ MODULE Counting ------------------------------
(***************************************************************************)
(* Facts about sums and counts over finite sets that the proofs of several *)
(* components need: induction, the sum that MapThenSumSet takes, and the   *)
(* size of a family of sets.                                               *)
(***************************************************************************)
EXTENDS Integers, FiniteSets, FiniteSetTheorems, WellFoundedInduction, TLAPS

----------------------------------------------------------------------------
(***************************************************************************)
(* Induction.                                                              *)
(***************************************************************************)

\* Induction over a set of numbers, from the well-foundedness of < on Nat.
LEMMA Induction ==
  ASSUME NEW P \in SUBSET Nat, NEW a \in Nat, NEW b \in Nat, a \in P,
         \A n \in a .. b - 1 : n \in P => n + 1 \in P
  PROVE  a .. b \subseteq P
<1> DEFINE C == {n \in a .. b : n \notin P}
<1> SUFFICES ASSUME C # {}
             PROVE  FALSE
  OBVIOUS
<1>1. C \subseteq Nat
  OBVIOUS
<1>2. PICK n \in C : \A m \in C : ~(<<m, n>> \in OpToRel(<, Nat))
  BY <1>1, NatLessThanWellFounded, WFMin
<1>3. n # a /\ n - 1 \in a .. b - 1 /\ n - 1 \in Nat /\ n - 1 < n
  OBVIOUS
<1>4. n - 1 \in P
  <2> SUFFICES ASSUME n - 1 \in C
               PROVE  FALSE
    BY <1>3
  <2>1. n - 1 \in Nat /\ n \in Nat
    BY <1>1, <1>3
  <2>2. ~(n - 1 < n)
    BY <1>2, <2>1, Zenon DEF OpToRel
  <2> QED
    BY <1>3, <2>2
<1> QED
  BY <1>3, <1>4
----------------------------------------------------------------------------
(***************************************************************************)
(* Adds.  A proof that a sum MapThenSumSet(LAMBDA x : e(x), S) is F[S] for *)
(* an F with Adds(F, [x \in S |-> e(x)], S) expands both.                  *)
(***************************************************************************)

\* MapThenSumSet takes the members of a set in the order CHOOSE picks them.
Choice(s) == CHOOSE x \in s : TRUE

\* Its recursion, for the sum of a function over a set and its subsets.
SumAt(it, f, s) == IF s = {} THEN 0 ELSE f[Choice(s)] + it[s \ {Choice(s)}]

\* The function that gives the sum of f over each subset of S.
Adds(it, f, S) == it = [s \in SUBSET S |-> SumAt(it, f, s)]

\* A set without one of its members is smaller by one.
LEMMA SmallerSet ==
  ASSUME NEW S, IsFiniteSet(S), NEW s \in SUBSET S, s # {}
  PROVE  /\ Choice(s) \in s
         /\ s \ {Choice(s)} \in SUBSET S
         /\ Cardinality(s) \in Nat
         /\ Cardinality(s \ {Choice(s)}) = Cardinality(s) - 1
<1>1. Choice(s) \in s
  BY DEF Choice
<1>2. IsFiniteSet(s)
  BY FS_Subset
<1> QED
  BY <1>1, <1>2, FS_RemoveElement, FS_CardinalityType

\* The recursion of MapThenSumSet has a solution: by induction one exists for
\* the subsets of every size.
LEMMA SumExists ==
  ASSUME NEW S, IsFiniteSet(S), NEW f
  PROVE  \E it : Adds(it, f, S)
<1> DEFINE Upto(it, n) == \A s \in SUBSET S :
                            Cardinality(s) <= n => it[s] = SumAt(it, f, s)
           P == {n \in Nat : \E it : Upto(it, n)}
           c == Cardinality(S)
<1>0. c \in Nat
  BY FS_CardinalityType
<1>1. ASSUME NEW s \in SUBSET S
      PROVE  /\ Cardinality(s) \in Nat /\ Cardinality(s) <= c
             /\ Cardinality(s) = 0 <=> s = {}
  BY FS_Subset, FS_CardinalityType, FS_EmptySet, Zenon
<1>2. 0 \in P
  <2>1. Upto([s \in SUBSET S |-> 0], 0)
    BY <1>1 DEF SumAt
  <2> QED
    BY <2>1
<1>3. ASSUME NEW n \in 0 .. c - 1, n \in P
      PROVE  n + 1 \in P
  <2>1. PICK it : Upto(it, n)
    BY <1>3
  <2> DEFINE next == [s \in SUBSET S |-> SumAt(it, f, s)]
  <2>2. ASSUME NEW s \in SUBSET S, Cardinality(s) <= n
        PROVE  next[s] = it[s]
    BY <2>1, <2>2
  <2>3. ASSUME NEW s \in SUBSET S, Cardinality(s) <= n + 1
        PROVE  next[s] = SumAt(next, f, s)
    <3>1. CASE s = {}
      BY <3>1 DEF SumAt
    <3>2. CASE s # {}
      <4> DEFINE t == s \ {Choice(s)}
      <4>1. t \in SUBSET S /\ Cardinality(t) <= n
        BY <2>3, <3>2, SmallerSet
      <4>2. next[t] = it[t]
        BY <2>2, <4>1
      <4>3. next[s] = SumAt(it, f, s)
        OBVIOUS
      <4> HIDE DEF next
      <4> QED
        BY <3>2, <4>2, <4>3 DEF SumAt
    <3> QED
      BY <3>1, <3>2
  <2>4. Upto(next, n + 1)
    BY <2>3
  <2> HIDE DEF next
  <2> QED
    BY <2>4
<1>4. 0 .. c \subseteq P
  <2>1. \A n \in 0 .. c - 1 : n \in P => n + 1 \in P
    BY <1>3
  <2> HIDE DEF P
  <2> QED
    BY <1>0, <1>2, <2>1, Induction DEF P
<1>5. PICK it : Upto(it, c)
  BY <1>0, <1>4
<1> DEFINE whole == [s \in SUBSET S |-> it[s]]
<1>6. ASSUME NEW s \in SUBSET S
      PROVE  it[s] = SumAt(whole, f, s)
  <2>1. it[s] = SumAt(it, f, s)
    BY <1>1, <1>5
  <2>2. s # {} => whole[s \ {Choice(s)}] = it[s \ {Choice(s)}]
    BY SmallerSet
  <2> HIDE DEF whole
  <2> QED
    BY <2>1, <2>2 DEF SumAt
<1>7. Adds(whole, f, S)
  BY <1>6 DEF Adds
<1> QED
  BY <1>7

\* A sum is no less than one whose terms are no greater.
LEMMA SumMonotone ==
  ASSUME NEW S, IsFiniteSet(S), NEW f \in [S -> Int], NEW g \in [S -> Int],
         \A x \in S : f[x] <= g[x],
         NEW F, Adds(F, f, S), NEW G, Adds(G, g, S)
  PROVE  F[S] \in Int /\ G[S] \in Int /\ F[S] <= G[S]
<1> DEFINE Good(s) == F[s] \in Int /\ G[s] \in Int /\ F[s] <= G[s]
           P == {n \in Nat : \A s \in SUBSET S : Cardinality(s) = n => Good(s)}
           c == Cardinality(S)
<1>1. c \in Nat
  BY FS_CardinalityType
<1>2. 0 \in P
  <2>1. ASSUME NEW s \in SUBSET S, Cardinality(s) = 0
        PROVE  Good(s)
    <3>1. s = {}
      BY <2>1, FS_Subset, FS_EmptySet
    <3>2. F[s] = 0 /\ G[s] = 0
      BY <3>1 DEF Adds, SumAt
    <3> QED
      BY <3>2
  <2> QED
    BY <2>1
<1>3. ASSUME NEW n \in 0 .. c - 1, n \in P
      PROVE  n + 1 \in P
  <2>1. ASSUME NEW s \in SUBSET S, Cardinality(s) = n + 1
        PROVE  Good(s)
    <3> DEFINE x == Choice(s)
               t == s \ {x}
    <3>1. s # {}
      BY <2>1, FS_EmptySet
    <3>2. x \in S /\ t \in SUBSET S /\ Cardinality(t) = n
      BY <2>1, <3>1, SmallerSet
    <3>3. F[s] = f[x] + F[t] /\ G[s] = g[x] + G[t]
      BY <3>1 DEF Adds, SumAt
    <3> HIDE DEF x, t
    <3>4. F[t] \in Int /\ G[t] \in Int /\ F[t] <= G[t]
      BY <1>3, <3>2
    <3>5. f[x] \in Int /\ g[x] \in Int /\ f[x] <= g[x]
      BY <3>2
    <3> QED
      BY <3>3, <3>4, <3>5
  <2> QED
    BY <2>1
<1>4. 0 .. c \subseteq P
  <2>1. \A n \in 0 .. c - 1 : n \in P => n + 1 \in P
    BY <1>3
  <2>2. P \in SUBSET Nat
    OBVIOUS
  <2> HIDE DEF P
  <2> QED
    BY <1>1, <1>2, <2>1, <2>2, Induction
<1>5. S \in SUBSET S /\ c \in P
  BY <1>1, <1>4
<1> QED
  BY <1>5

\* A sum of ones counts.
LEMMA SumOfOnes ==
  ASSUME NEW S, IsFiniteSet(S), NEW F, Adds(F, [x \in S |-> 1], S)
  PROVE  F[S] = Cardinality(S)
<1> DEFINE f == [x \in S |-> 1]
           P == {n \in Nat :
                   \A s \in SUBSET S : Cardinality(s) = n => F[s] = n}
           c == Cardinality(S)
<1>1. c \in Nat
  BY FS_CardinalityType
<1>2. 0 \in P
  <2>1. ASSUME NEW s \in SUBSET S, Cardinality(s) = 0
        PROVE  F[s] = 0
    <3>1. s = {}
      BY <2>1, FS_Subset, FS_EmptySet
    <3> QED
      BY <3>1 DEF Adds, SumAt
  <2> QED
    BY <2>1
<1>3. ASSUME NEW n \in 0 .. c - 1, n \in P
      PROVE  n + 1 \in P
  <2>1. ASSUME NEW s \in SUBSET S, Cardinality(s) = n + 1
        PROVE  F[s] = n + 1
    <3> DEFINE x == Choice(s)
               t == s \ {x}
    <3>1. s # {}
      BY <2>1, FS_EmptySet
    <3>2. x \in S /\ t \in SUBSET S /\ Cardinality(t) = n
      BY <2>1, <3>1, SmallerSet
    <3>3. F[s] = f[x] + F[t]
      BY <3>1 DEF Adds, SumAt
    <3>4. f[x] = 1
      BY <3>2
    <3> HIDE DEF x, t, f
    <3>5. F[t] = n
      BY <1>3, <3>2
    <3> QED
      BY <3>3, <3>4, <3>5
  <2> QED
    BY <2>1
<1>4. 0 .. c \subseteq P
  <2>1. \A n \in 0 .. c - 1 : n \in P => n + 1 \in P
    BY <1>3
  <2>2. P \in SUBSET Nat
    OBVIOUS
  <2> HIDE DEF P
  <2> QED
    BY <1>1, <1>2, <2>1, <2>2, Induction
<1>5. S \in SUBSET S /\ c \in P
  BY <1>1, <1>4
<1> QED
  BY <1>5
----------------------------------------------------------------------------
(***************************************************************************)
(* The sum over a set, whichever way its members are taken.                *)
(***************************************************************************)
SumIn(f, S) == (CHOOSE it : Adds(it, f, S))[S]

\* Induction over the subsets of a finite set.
LEMMA SubsetInduction ==
  ASSUME NEW S, IsFiniteSet(S), NEW G, {} \in G,
         \A s \in SUBSET S : s # {} /\ (\A x \in s : s \ {x} \in G) => s \in G
  PROVE  SUBSET S \subseteq G
<1> DEFINE P == {n \in Nat : \A s \in SUBSET S : Cardinality(s) = n => s \in G}
           c == Cardinality(S)
<1>1. c \in Nat
  BY FS_CardinalityType
<1>2. \A s \in SUBSET S : /\ IsFiniteSet(s)
                          /\ Cardinality(s) \in Nat
                          /\ Cardinality(s) <= c
                          /\ Cardinality(s) = 0 <=> s = {}
  BY FS_Subset, FS_CardinalityType, FS_EmptySet, Zenon
<1>3. 0 \in P
  BY <1>2
<1>4. ASSUME NEW n \in 0 .. c - 1, n \in P
      PROVE  n + 1 \in P
  <2>1. ASSUME NEW s \in SUBSET S, Cardinality(s) = n + 1
        PROVE  s \in G
    <3>1. s # {}
      BY <2>1, FS_EmptySet
    <3>2. ASSUME NEW x \in s
          PROVE  s \ {x} \in G
      <4>1. s \ {x} \in SUBSET S
        OBVIOUS
      <4>2. Cardinality(s \ {x}) = n
        BY <1>2, <2>1, FS_RemoveElement
      <4> QED
        BY <1>4, <4>1, <4>2
    <3> QED
      BY <3>1, <3>2
  <2> QED
    BY <2>1
<1>5. 0 .. c \subseteq P
  <2>1. \A n \in 0 .. c - 1 : n \in P => n + 1 \in P
    BY <1>4
  <2>2. P \in SUBSET Nat
    OBVIOUS
  <2> HIDE DEF P
  <2> QED
    BY <1>1, <1>3, <2>1, <2>2, Induction
<1>6. ASSUME NEW s \in SUBSET S
      PROVE  s \in G
  <2>1. Cardinality(s) \in P
    BY <1>1, <1>2, <1>5
  <2> QED
    BY <2>1
<1> QED
  BY <1>6

\* Two solutions of the recursion agree where both are defined.
LEMMA SumsAgree ==
  ASSUME NEW S, NEW R, IsFiniteSet(S), NEW s \in SUBSET S, s \in SUBSET R,
         IsFiniteSet(R), NEW f, NEW F, Adds(F, f, S), NEW H, Adds(H, f, R)
  PROVE  F[s] = H[s]
<1> DEFINE G == {t \in SUBSET s : F[t] = H[t]}
<1>1. IsFiniteSet(s)
  BY FS_Subset
<1>2. {} \in G
  BY DEF Adds, SumAt
<1>3. ASSUME NEW t \in SUBSET s, t # {}, \A x \in t : t \ {x} \in G
      PROVE  t \in G
  <2>1. Choice(t) \in t
    BY <1>3 DEF Choice
  <2>2. F[t \ {Choice(t)}] = H[t \ {Choice(t)}]
    BY <1>3, <2>1
  <2>3. t \in SUBSET S /\ t \in SUBSET R
    OBVIOUS
  <2>4. /\ F[t] = f[Choice(t)] + F[t \ {Choice(t)}]
        /\ H[t] = f[Choice(t)] + H[t \ {Choice(t)}]
    BY <1>3, <2>3 DEF Adds, SumAt
  <2> QED
    BY <2>2, <2>4
<1>4. SUBSET s \subseteq G
  <2>1. \A t \in SUBSET s : t # {} /\ (\A x \in t : t \ {x} \in G) => t \in G
    BY <1>3
  <2> HIDE DEF G
  <2> QED
    BY <1>1, <1>2, <2>1, SubsetInduction
<1> QED
  BY <1>4

\* So the sum is what any solution says.
LEMMA SumOverIs ==
  ASSUME NEW S, IsFiniteSet(S), NEW s \in SUBSET S, NEW f,
         NEW F, Adds(F, f, S)
  PROVE  F[s] = SumIn(f, s)
<1>1. IsFiniteSet(s)
  BY FS_Subset
<1>2. \E it : Adds(it, f, s)
  BY <1>1, SumExists
<1>3. PICK H : H = CHOOSE it : Adds(it, f, s)
  OBVIOUS
<1>4. Adds(H, f, s)
  BY <1>2, <1>3
<1>5. F[s] = H[s]
  BY <1>1, <1>4, SumsAgree
<1> QED
  BY <1>3, <1>5 DEF SumIn

LEMMA SumOfNone ==
  ASSUME NEW f
  PROVE  SumIn(f, {}) = 0
<1>1. IsFiniteSet({})
  BY FS_EmptySet
<1>2. PICK F : Adds(F, f, {})
  BY <1>1, SumExists
<1>3. F[{}] = 0
  BY <1>2 DEF Adds, SumAt
<1> QED
  BY <1>1, <1>2, <1>3, SumOverIs

\* The member that is taken first.
LEMMA SumOfFirst ==
  ASSUME NEW S, IsFiniteSet(S), S # {}, NEW f
  PROVE  /\ Choice(S) \in S
         /\ SumIn(f, S) = f[Choice(S)] + SumIn(f, S \ {Choice(S)})
<1>1. Choice(S) \in S
  BY DEF Choice
<1>2. PICK F : Adds(F, f, S)
  BY SumExists
<1>3. F[S] = f[Choice(S)] + F[S \ {Choice(S)}]
  BY <1>2 DEF Adds, SumAt
<1>4. S \in SUBSET S /\ S \ {Choice(S)} \in SUBSET S
  OBVIOUS
<1>5. F[S] = SumIn(f, S)
  BY <1>2, <1>4, SumOverIs
<1>6. F[S \ {Choice(S)}] = SumIn(f, S \ {Choice(S)})
  BY <1>2, <1>4, SumOverIs
<1> QED
  BY <1>1, <1>3, <1>5, <1>6

\* A sum of integers is one.
LEMMA SumType ==
  ASSUME NEW S, IsFiniteSet(S), NEW f, \A x \in S : f[x] \in Int
  PROVE  SumIn(f, S) \in Int
<1> DEFINE G == {s \in SUBSET S : SumIn(f, s) \in Int}
<1>1. {} \in G
  BY SumOfNone
<1>2. ASSUME NEW s \in SUBSET S, s # {}, \A x \in s : s \ {x} \in G
      PROVE  s \in G
  <2>1. IsFiniteSet(s)
    BY FS_Subset
  <2>2. /\ Choice(s) \in s
        /\ SumIn(f, s) = f[Choice(s)] + SumIn(f, s \ {Choice(s)})
    BY <1>2, <2>1, SumOfFirst
  <2>3. f[Choice(s)] \in Int /\ SumIn(f, s \ {Choice(s)}) \in Int
    BY <1>2, <2>2
  <2> QED
    BY <2>2, <2>3
<1>3. SUBSET S \subseteq G
  <2>1. \A s \in SUBSET S : s # {} /\ (\A x \in s : s \ {x} \in G) => s \in G
    BY <1>2
  <2> HIDE DEF G
  <2> QED
    BY <1>1, <2>1, SubsetInduction
<1> QED
  BY <1>3

\* Any member may be taken first.
LEMMA SumOfAny ==
  ASSUME NEW S, IsFiniteSet(S), NEW f, \A x \in S : f[x] \in Int,
         NEW x \in S
  PROVE  SumIn(f, S) = f[x] + SumIn(f, S \ {x})
<1> DEFINE Splits(s) == \A y \in s :
                          SumIn(f, s) = f[y] + SumIn(f, s \ {y})
           G == {s \in SUBSET S : Splits(s)}
<1>1. {} \in G
  OBVIOUS
<1>2. ASSUME NEW s \in SUBSET S, s # {}, \A y \in s : s \ {y} \in G
      PROVE  s \in G
  <2> SUFFICES ASSUME NEW y \in s
               PROVE  SumIn(f, s) = f[y] + SumIn(f, s \ {y})
    OBVIOUS
  <2> DEFINE c == Choice(s)
             t == s \ {c, y}
  <2>1. IsFiniteSet(s) /\ IsFiniteSet(t)
    BY FS_Subset
  <2>2. c \in s /\ SumIn(f, s) = f[c] + SumIn(f, s \ {c})
    BY <1>2, <2>1, SumOfFirst
  <2>3. CASE y = c
    BY <2>2, <2>3
  <2>4. CASE y # c
    <3>1. (s \ {c}) \ {y} = t /\ (s \ {y}) \ {c} = t
      OBVIOUS
    <3>2. /\ SumIn(f, s \ {c}) = f[y] + SumIn(f, t)
          /\ SumIn(f, s \ {y}) = f[c] + SumIn(f, t)
      <4>1. /\ SumIn(f, s \ {c}) = f[y] + SumIn(f, (s \ {c}) \ {y})
            /\ SumIn(f, s \ {y}) = f[c] + SumIn(f, (s \ {y}) \ {c})
        BY <1>2, <2>2, <2>4
      <4> HIDE DEF c, t
      <4> QED
        BY <3>1, <4>1
    <3>3. f[c] \in Int /\ f[y] \in Int
      BY <2>2
    <3>4. \A z \in t : f[z] \in Int
      OBVIOUS
    <3> HIDE DEF c, t
    <3>5. SumIn(f, t) \in Int
      BY <2>1, <3>4, SumType
    <3>6. f[c] + (f[y] + SumIn(f, t)) = f[y] + (f[c] + SumIn(f, t))
      BY <3>3, <3>5
    <3> QED
      BY <2>2, <3>2, <3>6
  <2> QED
    BY <2>3, <2>4
<1>3. SUBSET S \subseteq G
  <2>1. \A s \in SUBSET S : s # {} /\ (\A y \in s : s \ {y} \in G) => s \in G
    BY <1>2
  <2> HIDE DEF G
  <2> QED
    BY <1>1, <2>1, SubsetInduction
<1>4. S \in G
  BY <1>3
<1> QED
  BY <1>4

\* The same terms have the same sum.
LEMMA SumOfSame ==
  ASSUME NEW S, IsFiniteSet(S), NEW f, NEW g, \A x \in S : f[x] = g[x]
  PROVE  SumIn(f, S) = SumIn(g, S)
<1> DEFINE G == {s \in SUBSET S : SumIn(f, s) = SumIn(g, s)}
<1>1. {} \in G
  BY SumOfNone
<1>2. ASSUME NEW s \in SUBSET S, s # {}, \A x \in s : s \ {x} \in G
      PROVE  s \in G
  <2>1. IsFiniteSet(s)
    BY FS_Subset
  <2>2. /\ Choice(s) \in s
        /\ SumIn(f, s) = f[Choice(s)] + SumIn(f, s \ {Choice(s)})
    BY <1>2, <2>1, SumOfFirst
  <2>3. SumIn(g, s) = g[Choice(s)] + SumIn(g, s \ {Choice(s)})
    BY <1>2, <2>1, SumOfFirst
  <2>4. /\ f[Choice(s)] = g[Choice(s)]
        /\ SumIn(f, s \ {Choice(s)}) = SumIn(g, s \ {Choice(s)})
    BY <1>2, <2>2
  <2> QED
    BY <2>2, <2>3, <2>4
<1>3. SUBSET S \subseteq G
  <2>1. \A s \in SUBSET S : s # {} /\ (\A x \in s : s \ {x} \in G) => s \in G
    BY <1>2
  <2> HIDE DEF G
  <2> QED
    BY <1>1, <2>1, SubsetInduction
<1> QED
  BY <1>3

\* The sum over a part and the sum over the rest make up the whole.
LEMMA SumOfParts ==
  ASSUME NEW S, IsFiniteSet(S), NEW f, \A x \in S : f[x] \in Int,
         NEW A \in SUBSET S
  PROVE  SumIn(f, S) = SumIn(f, A) + SumIn(f, S \ A)
<1> DEFINE G == {s \in SUBSET S :
                   SumIn(f, s) = SumIn(f, s \intersect A)
                                     + SumIn(f, s \ A)}
<1>1. {} \in G
  <2>1. {} \intersect A = {} /\ {} \ A = {}
    OBVIOUS
  <2> QED
    BY <2>1, SumOfNone
<1>2. ASSUME NEW s \in SUBSET S, s # {}, \A x \in s : s \ {x} \in G
      PROVE  s \in G
  <2>1. PICK x : x \in s
    BY <1>2
  <2> DEFINE t == s \ {x}
             p == s \intersect A
             q == s \ A
  <2>2. /\ IsFiniteSet(s) /\ IsFiniteSet(t) /\ IsFiniteSet(p) /\ IsFiniteSet(q)
        /\ \A y \in s : f[y] \in Int
    BY FS_Subset
  <2>3. SumIn(f, s) = f[x] + SumIn(f, t)
    BY <2>1, <2>2, SumOfAny
  <2>4. SumIn(f, t) = SumIn(f, t \intersect A) + SumIn(f, t \ A)
    BY <1>2, <2>1
  <2>5. f[x] \in Int
    BY <2>1, <2>2
  <2>6. SumIn(f, p) \in Int /\ SumIn(f, q) \in Int
    BY <2>2, SumType
  <2>7. CASE x \in A
    <3>1. t \intersect A = p \ {x} /\ t \ A = q /\ x \in p
      BY <2>1, <2>7
    <3>2. \A y \in p : f[y] \in Int
      BY <2>2
    <3> HIDE DEF p, q, t
    <3>3. SumIn(f, p) = f[x] + SumIn(f, p \ {x})
      BY <2>2, <3>1, <3>2, SumOfAny
    <3>4. SumIn(f, p \ {x}) \in Int
      BY <2>2, <3>2, SumType, FS_Subset
    <3>5. SumIn(f, t) = SumIn(f, p \ {x}) + SumIn(f, q)
      BY <2>4, <3>1
    <3>6. SumIn(f, s) = SumIn(f, p) + SumIn(f, q)
      BY <2>3, <2>5, <2>6, <3>3, <3>4, <3>5
    <3> QED
      BY <3>6 DEF p, q
  <2>8. CASE x \notin A
    <3>1. t \intersect A = p /\ t \ A = q \ {x} /\ x \in q
      BY <2>1, <2>8
    <3>2. \A y \in q : f[y] \in Int
      BY <2>2
    <3> HIDE DEF p, q, t
    <3>3. SumIn(f, q) = f[x] + SumIn(f, q \ {x})
      BY <2>2, <3>1, <3>2, SumOfAny
    <3>4. SumIn(f, q \ {x}) \in Int
      BY <2>2, <3>2, SumType, FS_Subset
    <3>5. SumIn(f, t) = SumIn(f, p) + SumIn(f, q \ {x})
      BY <2>4, <3>1
    <3>6. SumIn(f, s) = SumIn(f, p) + SumIn(f, q)
      BY <2>3, <2>5, <2>6, <3>3, <3>4, <3>5
    <3> QED
      BY <3>6 DEF p, q
  <2> QED
    BY <2>7, <2>8
<1>3. SUBSET S \subseteq G
  <2>1. \A s \in SUBSET S : s # {} /\ (\A x \in s : s \ {x} \in G) => s \in G
    BY <1>2
  <2> HIDE DEF G
  <2> QED
    BY <1>1, <2>1, SubsetInduction
<1>4. S \in G
  BY <1>3
<1>5. S \intersect A = A
  OBVIOUS
<1> QED
  BY <1>4, <1>5

\* One more for some members is as much more as they are many.
LEMMA SumOfOneMore ==
  ASSUME NEW S, IsFiniteSet(S), NEW f, NEW g, NEW D \in SUBSET S,
         \A x \in S : f[x] \in Int,
         \A x \in S : g[x] = IF x \in D THEN f[x] + 1 ELSE f[x]
  PROVE  SumIn(g, S) = SumIn(f, S) + Cardinality(D)
<1> DEFINE G == {s \in SUBSET S :
                   SumIn(g, s) = SumIn(f, s)
                                     + Cardinality(s \intersect D)}
<1>1. {} \in G
  <2>1. {} \intersect D = {}
    OBVIOUS
  <2> QED
    BY <2>1, SumOfNone, FS_EmptySet
<1>2. ASSUME NEW s \in SUBSET S, s # {}, \A x \in s : s \ {x} \in G
      PROVE  s \in G
  <2> DEFINE x == Choice(s)
             t == s \ {x}
             d == s \intersect D
             e == t \intersect D
  <2>1. IsFiniteSet(s) /\ IsFiniteSet(t) /\ IsFiniteSet(d) /\ IsFiniteSet(e)
    BY FS_Subset
  <2>2. x \in s /\ SumIn(f, s) = f[x] + SumIn(f, t)
    BY <1>2, <2>1, SumOfFirst
  <2>3. SumIn(g, s) = g[x] + SumIn(g, t)
    BY <1>2, <2>1, SumOfFirst
  <2>4. SumIn(g, t) = SumIn(f, t) + Cardinality(e)
    BY <1>2, <2>2
  <2>5. /\ f[x] \in Int /\ SumIn(f, t) \in Int
        /\ g[x] = IF x \in D THEN f[x] + 1 ELSE f[x]
    BY <2>1, <2>2, SumType
  <2>6. Cardinality(d) \in Nat /\ Cardinality(e) \in Nat
    BY <2>1, FS_CardinalityType
  <2>7. Cardinality(d) = IF x \in D THEN Cardinality(e) + 1 ELSE Cardinality(e)
    <3>1. CASE x \in D
      <4>1. e = d \ {x} /\ x \in d
        BY <2>2, <3>1
      <4>2. Cardinality(d \ {x}) = Cardinality(d) - 1
        BY <2>1, <4>1, FS_RemoveElement
      <4>3. Cardinality(e) = Cardinality(d) - 1
        BY <4>1, <4>2
      <4> HIDE DEF x, t, d, e
      <4> QED
        BY <2>6, <3>1, <4>3
    <3>2. CASE x \notin D
      <4>1. e = d
        BY <2>2, <3>2
      <4> QED
        BY <3>2, <4>1
    <3> QED
      BY <3>1, <3>2
  <2> HIDE DEF x, t, d, e
  <2>8. SumIn(g, s) = SumIn(f, s) + Cardinality(d)
    BY <2>2, <2>3, <2>4, <2>5, <2>6, <2>7
  <2> QED
    BY <2>8 DEF d
<1>3. SUBSET S \subseteq G
  <2>1. \A s \in SUBSET S : s # {} /\ (\A x \in s : s \ {x} \in G) => s \in G
    BY <1>2
  <2> HIDE DEF G
  <2> QED
    BY <1>1, <2>1, SubsetInduction
<1>4. S \in G
  BY <1>3
<1>5. S \intersect D = D
  OBVIOUS
<1> QED
  BY <1>4, <1>5
----------------------------------------------------------------------------
(***************************************************************************)
(* Families of sets.                                                       *)
(***************************************************************************)

\* The members of the first n sets of R, each with the number of its set.
Places(R, n, U) == {p \in (0 .. n - 1) \X U : p[2] \in R[p[1]]}

\* Each of the first n sets of R has c members.
EachHas(R, n, c) == \A b \in 0 .. n - 1 : Cardinality(R[b]) = c

\* The next set adds its members.
LEMMA PlacesOfNext ==
  ASSUME NEW n \in Nat, NEW U, IsFiniteSet(U), NEW k \in 0 .. n - 1,
         NEW R \in [0 .. n - 1 -> SUBSET U]
  PROVE  /\ IsFiniteSet(Places(R, k, U))
         /\ Cardinality(Places(R, k + 1, U))
              = Cardinality(Places(R, k, U)) + Cardinality(R[k])
<1> DEFINE before == Places(R, k, U)
           here == {k} \X R[k]
<1>1. IsFiniteSet(before)
  <2>1. k \in Int /\ k - 1 \in Int
    OBVIOUS
  <2>2. IsFiniteSet(0 .. k - 1)
    BY <2>1, FS_Interval
  <2>3. IsFiniteSet((0 .. k - 1) \X U)
    BY <2>2, FS_Product
  <2>4. before \in SUBSET ((0 .. k - 1) \X U)
    BY DEF Places
  <2> QED
    BY <2>3, <2>4, FS_Subset
<1>2. IsFiniteSet(here) /\ Cardinality(here) = Cardinality(R[k])
  <2>1. IsFiniteSet(R[k])
    BY FS_Subset
  <2>2. IsFiniteSet({k}) /\ Cardinality({k}) = 1
    BY FS_Singleton
  <2>3. Cardinality(R[k]) \in Nat
    BY <2>1, FS_CardinalityType
  <2> QED
    BY <2>1, <2>2, <2>3, FS_Product
<1>3. Places(R, k + 1, U) = before \union here
  <2>1. 0 .. (k + 1) - 1 = (0 .. k - 1) \union {k}
    OBVIOUS
  <2>2. R[k] \subseteq U
    OBVIOUS
  <2> QED
    BY <2>1, <2>2 DEF Places
<1>4. before \intersect here = {}
  BY DEF Places
<1> HIDE DEF before, here
<1>5. Cardinality(before \union here)
        = Cardinality(before) + Cardinality(here) - 0
  BY <1>1, <1>2, <1>4, FS_Union, FS_EmptySet
<1>6. Cardinality(before) \in Nat /\ Cardinality(here) \in Nat
  BY <1>1, <1>2, FS_CardinalityType
<1>7. Cardinality(before \union here)
        = Cardinality(before) + Cardinality(here)
  BY <1>5, <1>6
<1>8. Cardinality(Places(R, k + 1, U))
        = Cardinality(before) + Cardinality(R[k])
  BY <1>2, <1>3, <1>7, Zenon
<1> QED
  BY <1>1, <1>8 DEF before

\* Sets of at most c members have together n * c members only if each has c.
LEMMA PlacesBound ==
  ASSUME NEW n \in Nat, NEW U, IsFiniteSet(U), NEW c \in Nat,
         NEW R \in [0 .. n - 1 -> SUBSET U],
         \A b \in 0 .. n - 1 : Cardinality(R[b]) <= c
  PROVE  /\ Cardinality(Places(R, n, U)) \in Nat
         /\ Cardinality(Places(R, n, U)) <= n * c
         /\ Cardinality(Places(R, n, U)) = n * c <=> EachHas(R, n, c)
<1> DEFINE size(k) == Cardinality(Places(R, k, U))
           Good(k) == /\ size(k) \in Nat
                      /\ size(k) <= k * c
                      /\ size(k) = k * c
                           <=> EachHas(R, k, c)
           P == {k \in Nat : Good(k)}
<1>1. 0 \in P
  <2>1. Places(R, 0, U) = {}
    BY DEF Places
  <2>2. size(0) = 0 /\ EachHas(R, 0, c)
    BY <2>1, FS_EmptySet DEF EachHas
  <2> HIDE DEF size
  <2> QED
    BY <2>2
<1>2. ASSUME NEW k \in 0 .. n - 1, k \in P
      PROVE  k + 1 \in P
  <2>1. size(k + 1) = size(k) + Cardinality(R[k])
    BY PlacesOfNext
  <2>2. Cardinality(R[k]) \in Nat /\ Cardinality(R[k]) <= c
    BY FS_Subset, FS_CardinalityType
  <2>3. (k + 1) * c = k * c + c /\ k * c \in Nat
    OBVIOUS
  <2>4. Good(k)
    BY <1>2
  <2>5. EachHas(R, k + 1, c) <=> EachHas(R, k, c) /\ Cardinality(R[k]) = c
    <3>1. 0 .. (k + 1) - 1 = (0 .. k - 1) \union {k}
      OBVIOUS
    <3> QED
      BY <3>1 DEF EachHas
  <2> HIDE DEF size
  <2>6. /\ size(k + 1) \in Nat
        /\ size(k + 1) <= (k + 1) * c
        /\ size(k + 1) = (k + 1) * c
             <=> size(k) = k * c /\ Cardinality(R[k]) = c
    BY <2>1, <2>2, <2>3, <2>4
  <2> QED
    BY <2>4, <2>5, <2>6
<1>3. 0 .. n \subseteq P
  <2>1. \A k \in 0 .. n - 1 : k \in P => k + 1 \in P
    BY <1>2
  <2>2. P \in SUBSET Nat
    OBVIOUS
  <2> HIDE DEF P
  <2> QED
    BY <1>1, <2>1, <2>2, Induction
<1>4. n \in P
  BY <1>3
<1> QED
  BY <1>4
=============================================================================
