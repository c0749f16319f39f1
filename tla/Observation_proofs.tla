-------------------------- MODULE Observation_proofs --------------------------
(***************************************************************************)
(* Proofs about what watches over the sync.  Much of it is about numbers   *)
(* that are counted one by one and read together: the module begins with   *)
(* what folds over sets and sequences compute, by induction over finite    *)
(* sets, and goes on with the parts that Observation composes.  They share *)
(* no state, so that what is proved of a part holds of Observation.        *)
(***************************************************************************)
EXTENDS Observation, TLAPS, WellFoundedInduction, FiniteSetTheorems

-----------------------------------------------------------------------------
(* Induction over numbers and over finite sets.                            *)

(* Induction over the numbers that belong to a set.                        *)
LEMMA NatSetInduction ==
    ASSUME NEW S, 0 \in S, \A n \in Nat : n \in S => n + 1 \in S
    PROVE  \A n \in Nat : n \in S
  <1> DEFINE T == Nat \ S
  <1>1. SUFFICES ASSUME T # {} PROVE FALSE
    OBVIOUS
  <1>2. IsWellFoundedOn(OpToRel(<, Nat), Nat)
    BY NatLessThanWellFounded
  <1>3. PICK x \in T : \A y \in T : ~ (<<y, x>> \in OpToRel(<, Nat))
    BY <1>1, <1>2, WFMin, Zenon
  <1>4. \A y \in T : ~ (y < x)
    BY <1>3 DEF OpToRel
  <1>5. x # 0 /\ x - 1 \in Nat /\ x - 1 \in S
    BY <1>4
  <1> QED
    BY <1>5

(* Induction over the subsets of a finite set that belong to T: one element*)
(* more at a time.                                                         *)
LEMMA SubsetInduction ==
    ASSUME NEW S, IsFiniteSet(S), NEW T, {} \in T,
           \A s \in SUBSET S : \A x \in S \ s : s \in T => s \cup {x} \in T
    PROVE  \A s \in SUBSET S : s \in T
  <1> DEFINE N == {n \in Nat : \A s \in SUBSET S : Cardinality(s) = n => s \in T}
  <1>1. 0 \in N
    <2>1. ASSUME NEW s \in SUBSET S, Cardinality(s) = 0
          PROVE  s \in T
      <3>1. IsFiniteSet(s)
        BY FS_Subset
      <3>2. s = {}
        BY <2>1, <3>1, FS_EmptySet
      <3> QED
        BY <3>2
    <2> QED
      BY <2>1
  <1>2. ASSUME NEW n \in Nat, n \in N
        PROVE  n + 1 \in N
    <2>1. ASSUME NEW s \in SUBSET S, Cardinality(s) = n + 1
          PROVE  s \in T
      <3>1. IsFiniteSet(s)
        BY FS_Subset
      <3>2. s # {}
        BY <2>1, <3>1, FS_EmptySet
      <3>3. PICK x \in s : TRUE
        BY <3>2
      <3>4. Cardinality(s \ {x}) = n
        <4>1. Cardinality(s \ {x}) = Cardinality(s) - 1
          BY <3>1, <3>3, FS_RemoveElement
        <4> QED
          BY <2>1, <4>1
      <3>5. s \ {x} \in T
        BY <1>2, <3>4
      <3>6. (s \ {x}) \cup {x} \in T
        BY <3>3, <3>5
      <3>7. (s \ {x}) \cup {x} = s
        BY <3>3
      <3> QED
        BY <3>6, <3>7
    <2> QED
      BY <2>1
  <1>3. \A n \in Nat : n \in N
    <2> HIDE DEF N
    <2> QED
      BY <1>1, <1>2, NatSetInduction
  <1>4. ASSUME NEW s \in SUBSET S
        PROVE  s \in T
    <2>1. Cardinality(s) \in Nat
      BY FS_Subset, FS_CardinalityType
    <2> QED
      BY <1>3, <2>1
  <1> QED
    BY <1>4

(* A finite set of integers has a greatest element.                        *)
LEMMA MaxIsMax ==
    ASSUME NEW S \in SUBSET Int, IsFiniteSet(S), S # {}
    PROVE  Max(S) \in S /\ \A x \in S : x <= Max(S)
  <1> DEFINE T == {s \in SUBSET S : s # {} => \E x \in s : \A y \in s : x >= y}
  <1>1. {} \in T
    OBVIOUS
  <1>2. ASSUME NEW s \in SUBSET S, NEW z \in S \ s, s \in T
        PROVE  s \cup {z} \in T
    <2>1. z \in Int /\ s \subseteq Int
      OBVIOUS
    <2>2. CASE s = {}
      BY <2>1, <2>2
    <2>3. CASE s # {}
      <3>1. PICK x \in s : \A y \in s : x >= y
        BY <1>2, <2>3
      <3>2. CASE x >= z
        BY <2>1, <3>1, <3>2
      <3>3. CASE ~(x >= z)
        <4>1. \A y \in s \cup {z} : z >= y
          BY <2>1, <3>1, <3>3
        <4> QED
          BY <4>1
      <3> QED
        BY <3>2, <3>3
    <2> QED
      BY <2>2, <2>3
  <1>3. S \in T
    <2> HIDE DEF T
    <2> QED
      BY <1>1, <1>2, SubsetInduction
  <1>4. \E x \in S : \A y \in S : x >= y
    BY <1>3
  <1> QED
    BY <1>4 DEF Max

-----------------------------------------------------------------------------
(* Sums.  A fold that adds the w[x] of the elements of S to 0 takes them   *)
(* in some order, and computes what does not depend on it.                 *)

\* g[s] is the sum of w over s.
IsSum(g, S, w) ==
    /\ g \in [SUBSET S -> Int] /\ g[{}] = 0
    /\ \A s \in SUBSET S : \A x \in s : g[s] = w[x] + g[s \ {x}]

(* There are sums: one element more adds its weight.                       *)
LEMMA SumExists ==
    ASSUME NEW S, IsFiniteSet(S), NEW w \in [S -> Int]
    PROVE  \E g : IsSum(g, S, w)
  <1> DEFINE T == {s \in SUBSET S : \E g : IsSum(g, s, w)}
  <1>1. {} \in T
    <2> DEFINE g == [s \in SUBSET {} |-> 0]
    <2>1. g \in [SUBSET {} -> Int] /\ g[{}] = 0
      OBVIOUS
    <2>2. \A s \in SUBSET {} : \A x \in s : FALSE
      OBVIOUS
    <2>3. IsSum(g, {}, w)
      BY <2>1, <2>2 DEF IsSum
    <2> QED
      BY <2>3
  <1>2. ASSUME NEW s \in SUBSET S, NEW x \in S \ s, s \in T
        PROVE  s \cup {x} \in T
    <2>1. PICK g : IsSum(g, s, w)
      BY <1>2
    <2> DEFINE h == [t \in SUBSET (s \cup {x}) |-> IF x \in t THEN w[x] + g[t \ {x}] ELSE g[t]]
    <2>2. \A t \in SUBSET (s \cup {x}) :
              t \ {x} \in SUBSET s /\ g[t \ {x}] \in Int /\ (x \notin t => t \in SUBSET s)
      BY <2>1 DEF IsSum
    <2>3. h \in [SUBSET (s \cup {x}) -> Int]
      BY <2>1, <2>2 DEF IsSum
    <2>4. h[{}] = 0
      BY <2>1 DEF IsSum
    <2>5. ASSUME NEW t \in SUBSET (s \cup {x}), NEW y \in t
          PROVE  h[t] = w[y] + h[t \ {y}]
      <3>1. CASE x \notin t
        BY <2>1, <2>2, <3>1 DEF IsSum
      <3>2. CASE y = x
        BY <2>2, <3>2
      <3>3. CASE x \in t /\ y # x
        <4>1. y \in t \ {x} /\ y \in S /\ x \in t \ {y}
          BY <3>3
        <4> DEFINE r == (t \ {x}) \ {y}
        <4>2. r = (t \ {y}) \ {x} /\ g[r] \in Int
          BY <2>2
        <4>3. g[t \ {x}] = w[y] + g[r]
          BY <2>1, <2>2, <4>1 DEF IsSum
        <4>4. h[t] = w[x] + g[t \ {x}]
          BY <3>3
        <4>5. h[t \ {y}] = w[x] + g[r]
          BY <4>1, <4>2
        <4>6. w[x] \in Int /\ w[y] \in Int
          BY <4>1
        <4> HIDE DEF h, r
        <4> QED
          BY <4>2, <4>3, <4>4, <4>5, <4>6
      <3> QED
        BY <3>1, <3>2, <3>3
    <2> HIDE DEF h
    <2>6. IsSum(h, s \cup {x}, w)
      BY <2>3, <2>4, <2>5 DEF IsSum
    <2> QED
      BY <2>6
  <1>3. S \in T
    <2> HIDE DEF T
    <2> QED
      BY <1>1, <1>2, SubsetInduction
  <1> QED
    BY <1>3

(* The sum of a function is a sum.                                         *)
LEMMA SumFunctionIsSum ==
    ASSUME NEW S, IsFiniteSet(S), NEW w \in [S -> Int]
    PROVE  \E g : IsSum(g, S, w) /\ SumFunction(w) = g[S]
  <1> DEFINE p(s) == CHOOSE x \in s : TRUE
             Adds(iter) == iter = [s \in SUBSET S |->
                              IF s = {} THEN 0 ELSE w[p(s)] + iter[s \ {p(s)}]]
             sums == CHOOSE iter : Adds(iter)
  <1>1. SumFunction(w) = sums[S]
    BY DEF SumFunction, SumFunctionOnSet, FoldFunctionOnSet, MapThenFoldSet
  <1>2. \A s \in SUBSET S : s # {} => p(s) \in s /\ p(s) \in S
    OBVIOUS
  <1>3. PICK g : IsSum(g, S, w)
    BY SumExists
  <1> HIDE DEF p
  <1>4. Adds(g)
    <2> DEFINE f == [s \in SUBSET S |-> IF s = {} THEN 0 ELSE w[p(s)] + g[s \ {p(s)}]]
    <2>1. \A s \in SUBSET S : g[s] = f[s]
      BY <1>2, <1>3 DEF IsSum
    <2>2. g = f
      BY <1>3, <2>1 DEF IsSum
    <2> QED
      BY <2>2
  <1>5. Adds(sums)
    <2> HIDE DEF Adds
    <2> QED
      BY <1>4
  <1> HIDE DEF sums
  <1>6. sums = g
    <2> DEFINE N == {n \in Nat : \A s \in SUBSET S : Cardinality(s) = n => sums[s] = g[s]}
    <2>1. \A s \in SUBSET S :
              sums[s] = IF s = {} THEN 0 ELSE w[p(s)] + sums[s \ {p(s)}]
      BY <1>5
    <2>2. 0 \in N
      <3>1. ASSUME NEW s \in SUBSET S, Cardinality(s) = 0
            PROVE  sums[s] = g[s]
        <4>1. IsFiniteSet(s)
          BY FS_Subset
        <4>2. s = {}
          BY <3>1, <4>1, FS_EmptySet
        <4> QED
          BY <1>3, <2>1, <4>2 DEF IsSum
      <3> QED
        BY <3>1
    <2>3. ASSUME NEW n \in Nat, n \in N
          PROVE  n + 1 \in N
      <3>1. ASSUME NEW s \in SUBSET S, Cardinality(s) = n + 1
            PROVE  sums[s] = g[s]
        <4>1. s # {} /\ IsFiniteSet(s)
          BY <3>1, FS_EmptySet, FS_Subset
        <4>2. p(s) \in s
          BY <1>2, <4>1
        <4>3. Cardinality(s \ {p(s)}) = n
          <5>1. PICK x \in s : x = p(s)
            BY <4>2
          <5>2. Cardinality(s \ {x}) = Cardinality(s) - 1
            BY <4>1, <5>1, FS_RemoveElement
          <5> QED
            BY <3>1, <5>1, <5>2
        <4>4. sums[s \ {p(s)}] = g[s \ {p(s)}]
          BY <2>3, <4>3
        <4>5. g[s] = w[p(s)] + g[s \ {p(s)}]
          BY <1>3, <4>2 DEF IsSum
        <4> QED
          BY <2>1, <4>1, <4>4, <4>5
      <3> QED
        BY <3>1
    <2>4. \A n \in Nat : n \in N
      <3> HIDE DEF N
      <3> QED
        BY <2>2, <2>3, NatSetInduction
    <2>5. \A s \in SUBSET S : sums[s] = g[s]
      <3> TAKE s \in SUBSET S
      <3>1. Cardinality(s) \in Nat
        BY FS_Subset, FS_CardinalityType
      <3> QED
        BY <2>4, <3>1
    <2>6. g = [s \in SUBSET S |-> g[s]]
      BY <1>3 DEF IsSum
    <2>7. sums = [s \in SUBSET S |-> sums[s]]
      BY <1>5
    <2> QED
      BY <2>5, <2>6, <2>7
  <1> QED
    BY <1>1, <1>3, <1>6

\* g grows with the set, by the weight of what is added.
Grows(g, S, w) ==
    /\ g \in [SUBSET S -> Int] /\ g[{}] = 0
    /\ \A s \in SUBSET S : \A x \in S \ s : g[s \cup {x}] = w[x] + g[s]

(* So does the sum.                                                        *)
LEMMA SumFunctionGrows ==
    ASSUME NEW S, IsFiniteSet(S), NEW w \in [S -> Int]
    PROVE  \E g : Grows(g, S, w) /\ SumFunction(w) = g[S]
  <1>1. PICK g : IsSum(g, S, w) /\ SumFunction(w) = g[S]
    BY SumFunctionIsSum
  <1>2. \A t \in SUBSET S : \A y \in t : g[t] = w[y] + g[t \ {y}]
    BY <1>1, Zenon DEF IsSum
  <1>3. ASSUME NEW s \in SUBSET S, NEW x \in S \ s
        PROVE  g[s \cup {x}] = w[x] + g[s]
    <2>1. (s \cup {x}) \ {x} = s /\ s \cup {x} \in SUBSET S /\ x \in s \cup {x}
      OBVIOUS
    <2>2. g[s \cup {x}] = w[x] + g[(s \cup {x}) \ {x}]
      BY <1>2, <2>1, Zenon
    <2> QED
      BY <2>1, <2>2, Zenon
  <1>4. g \in [SUBSET S -> Int] /\ g[{}] = 0
    BY <1>1, Zenon DEF IsSum
  <1>5. Grows(g, S, w)
    BY <1>3, <1>4, Zenon DEF Grows
  <1> QED
    BY <1>1, <1>5, Zenon

(* More of each makes more of all.                                         *)
LEMMA SumMonotone ==
    ASSUME NEW S, IsFiniteSet(S), NEW v \in [S -> Int], NEW w \in [S -> Int],
           \A x \in S : v[x] <= w[x]
    PROVE  SumFunction(v) \in Int /\ SumFunction(w) \in Int /\ SumFunction(v) <= SumFunction(w)
  <1>1. PICK f : Grows(f, S, v) /\ SumFunction(v) = f[S]
    BY SumFunctionGrows
  <1>2. PICK g : Grows(g, S, w) /\ SumFunction(w) = g[S]
    BY SumFunctionGrows
  <1> DEFINE T == {s \in SUBSET S : f[s] <= g[s]}
  <1>3. {} \in T
    BY <1>1, <1>2 DEF Grows
  <1>4. ASSUME NEW s \in SUBSET S, NEW x \in S \ s, s \in T
        PROVE  s \cup {x} \in T
    <2>1. (s \cup {x}) \ {x} = s /\ s \cup {x} \in SUBSET S /\ x \in s \cup {x}
      OBVIOUS
    <2>2. f[s \cup {x}] = v[x] + f[s]
      BY <1>1, Zenon DEF Grows
    <2>3. g[s \cup {x}] = w[x] + g[s]
      BY <1>2, Zenon DEF Grows
    <2>4. f[s] \in Int /\ g[s] \in Int /\ f[s] <= g[s] /\ v[x] \in Int /\ w[x] \in Int
      BY <1>1, <1>2, <1>4 DEF Grows
    <2> QED
      BY <2>1, <2>2, <2>3, <2>4
  <1>5. S \in T
    <2> HIDE DEF T
    <2> QED
      BY <1>3, <1>4, SubsetInduction
  <1> QED
    BY <1>1, <1>2, <1>5 DEF Grows

(* The sum of sums.                                                        *)
LEMMA SumAdds ==
    ASSUME NEW S, IsFiniteSet(S), NEW u \in [S -> Int], NEW v \in [S -> Int],
           NEW w \in [S -> Int], \A x \in S : w[x] = u[x] + v[x]
    PROVE  SumFunction(w) = SumFunction(u) + SumFunction(v)
  <1>1. PICK e : Grows(e, S, u) /\ SumFunction(u) = e[S]
    BY SumFunctionGrows
  <1>2. PICK f : Grows(f, S, v) /\ SumFunction(v) = f[S]
    BY SumFunctionGrows
  <1>3. PICK g : Grows(g, S, w) /\ SumFunction(w) = g[S]
    BY SumFunctionGrows
  <1> DEFINE T == {s \in SUBSET S : g[s] = e[s] + f[s]}
  <1>4. {} \in T
    BY <1>1, <1>2, <1>3 DEF Grows
  <1>5. ASSUME NEW s \in SUBSET S, NEW x \in S \ s, s \in T
        PROVE  s \cup {x} \in T
    <2>1. (s \cup {x}) \ {x} = s /\ s \cup {x} \in SUBSET S /\ x \in s \cup {x}
      OBVIOUS
    <2>2. /\ e[s \cup {x}] = u[x] + e[s] /\ f[s \cup {x}] = v[x] + f[s]
          /\ g[s \cup {x}] = w[x] + g[s]
      <3>1. e[s \cup {x}] = u[x] + e[s]
        BY <1>1, Zenon DEF Grows
      <3>2. f[s \cup {x}] = v[x] + f[s]
        BY <1>2, Zenon DEF Grows
      <3>3. g[s \cup {x}] = w[x] + g[s]
        BY <1>3, Zenon DEF Grows
      <3> QED
        BY <3>1, <3>2, <3>3
    <2>3. /\ e[s] \in Int /\ f[s] \in Int /\ g[s] \in Int /\ g[s] = e[s] + f[s]
          /\ u[x] \in Int /\ v[x] \in Int /\ w[x] = u[x] + v[x]
      BY <1>1, <1>2, <1>3, <1>5 DEF Grows
    <2> QED
      BY <2>1, <2>2, <2>3
  <1>6. S \in T
    <2> HIDE DEF T
    <2> QED
      BY <1>4, <1>5, SubsetInduction
  <1> QED
    BY <1>1, <1>2, <1>3, <1>6

(* Where there is nothing to add, nothing is added.                        *)
LEMMA SumExtends ==
    ASSUME NEW S, IsFiniteSet(S), NEW R \in SUBSET S, NEW v \in [R -> Int],
           NEW w \in [S -> Int], \A x \in S : w[x] = IF x \in R THEN v[x] ELSE 0
    PROVE  SumFunction(w) = SumFunction(v)
  <1>0. IsFiniteSet(R)
    BY FS_Subset
  <1>1. PICK f : IsSum(f, R, v) /\ SumFunction(v) = f[R]
    BY <1>0, SumFunctionIsSum
  <1>2. PICK g : IsSum(g, S, w) /\ SumFunction(w) = g[S]
    BY SumFunctionIsSum
  <1> DEFINE T == {s \in SUBSET S : g[s] = f[s \cap R]}
  <1>3. {} \in T
    BY <1>1, <1>2 DEF IsSum
  <1>4. ASSUME NEW s \in SUBSET S, NEW x \in S \ s, s \in T
        PROVE  s \cup {x} \in T
    <2> DEFINE t == s \cup {x}
               r == s \cap R
    <2>1. t \ {x} = s /\ t \in SUBSET S /\ x \in t /\ r \in SUBSET R /\ t \cap R \in SUBSET R
      OBVIOUS
    <2>2. g[t] = w[x] + g[s] /\ g[s] \in Int
      <3> HIDE DEF t
      <3> QED
        BY <1>2, <2>1 DEF IsSum
    <2>3. CASE x \in R
      <3>1. (t \cap R) \ {x} = r /\ x \in t \cap R
        BY <2>3
      <3>2. f[t \cap R] = v[x] + f[r]
        <4> DEFINE q == t \cap R
        <4>1. q \in SUBSET R /\ x \in q /\ q \ {x} = r
          BY <2>1, <3>1
        <4> HIDE DEF q, r, t
        <4>2. f[q] = v[x] + f[r]
          BY <1>1, <4>1 DEF IsSum
        <4> QED
          BY <4>2 DEF q
      <3> QED
        BY <1>4, <2>1, <2>2, <2>3, <3>2
    <2>4. CASE x \notin R
      <3>1. t \cap R = r
        BY <2>4
      <3> QED
        BY <1>4, <2>1, <2>2, <2>4, <3>1
    <2> QED
      BY <2>3, <2>4
  <1>5. S \in T
    <2> HIDE DEF T
    <2> QED
      BY <1>3, <1>4, SubsetInduction
  <1>6. S \cap R = R
    OBVIOUS
  <1> QED
    BY <1>1, <1>2, <1>5, <1>6

-----------------------------------------------------------------------------
(* The runtime monitor, for any types of events, weights and limits.       *)

Event == [type : Types, old : BOOLEAN]

\* How many events of type t there are among s.
Counted(s, t) == Cardinality({i \in DOMAIN s : s[i].type = t})

(* Events are counted one by one.                                          *)
LEMMA CountedAppend ==
    ASSUME NEW s \in Seq(Event), NEW e \in Event, NEW t
    PROVE  /\ Counted(s, t) \in Nat
           /\ Counted(Append(s, e), t) = Counted(s, t) + IF e.type = t THEN 1 ELSE 0
  <1> DEFINE I == {i \in DOMAIN s : s[i].type = t}
             J == {i \in DOMAIN Append(s, e) : Append(s, e)[i].type = t}
             n == Len(s) + 1
  <1>1. IsFiniteSet(I) /\ n \notin I
    <2>1. IsFiniteSet(1..Len(s)) /\ I \in SUBSET (1..Len(s))
      BY FS_Interval
    <2> QED
      BY <2>1, FS_Subset
  <1>2. Counted(s, t) = Cardinality(I) /\ Counted(Append(s, e), t) = Cardinality(J)
    BY DEF Counted
  <1>3. Cardinality(I) \in Nat
    <2> HIDE DEF I
    <2> QED
      BY <1>1, FS_CardinalityType
  <1>4. CASE e.type = t
    <2>1. J = I \cup {n}
      BY <1>4
    <2> HIDE DEF I, J, n
    <2>2. Cardinality(J) = Cardinality(I) + 1
      BY <1>1, <2>1, FS_AddElement
    <2> QED
      BY <1>2, <1>3, <1>4, <2>2
  <1>5. CASE e.type # t
    <2>1. J = I
      BY <1>5
    <2> HIDE DEF I, J, n
    <2> QED
      BY <1>2, <1>3, <1>5, <2>1
  <1> QED
    BY <1>4, <1>5

(* There are no more of a type in the end of a sequence than in all of it. *)
LEMMA CountedLastOf ==
    ASSUME NEW s \in Seq(Event), NEW n \in Nat \ {0}, NEW t
    PROVE  LastOf(s, n) \in Seq(Event) /\ Counted(LastOf(s, n), t) <= Counted(s, t)
  <1>1. Counted(s, t) \in Nat /\ IsFiniteSet({i \in DOMAIN s : s[i].type = t})
    <2> DEFINE I == {i \in DOMAIN s : s[i].type = t}
    <2>1. IsFiniteSet(1..Len(s)) /\ I \in SUBSET (1..Len(s))
      BY FS_Interval
    <2>2. IsFiniteSet(I)
      BY <2>1, FS_Subset
    <2> QED
      BY <2>2, FS_CardinalityType DEF Counted
  <1>2. CASE Len(s) <= n
    BY <1>1, <1>2 DEF LastOf
  <1>3. CASE Len(s) > n
    <2> DEFINE k == Len(s) - n
               r == SubSeq(s, Len(s) - n + 1, Len(s))
               I == {i \in DOMAIN r : r[i].type = t}
               J == {i \in DOMAIN s : s[i].type = t}
               f == [i \in I |-> i + k]
    <2>1. /\ r = LastOf(s, n) /\ r \in Seq(Event) /\ DOMAIN r = 1..n
          /\ \A i \in 1..n : r[i] = s[i + k] /\ i + k \in DOMAIN s
      BY <1>3 DEF LastOf
    <2>2. f \in [I -> J] /\ \A i, j \in I : f[i] = f[j] => i = j
      BY <1>3, <2>1
    <2>3. f \in Injection(I, J)
      <3> HIDE DEF f, I, J
      <3> QED
        BY <2>2 DEF Injection, IsInjective
    <2>4. Cardinality(I) <= Cardinality(J)
      <3> HIDE DEF f, I
      <3> QED
        BY <1>1, <2>3, FS_Injection
    <2> QED
      BY <2>1, <2>4 DEF Counted
  <1> QED
    BY <1>2, <1>3

\* What Recent(s) is made from.
Filtered(iter, s) ==
    iter = [u \in SUBSET DOMAIN s |->
               IF u = {} THEN <<>>
               ELSE IF s[Max(u)].old THEN iter[u \ {Max(u)}]
                    ELSE Append(iter[u \ {Max(u)}], s[Max(u)])]

(* The positions up to n, and the last of them.                            *)
LEMMA LastPosition ==
    ASSUME NEW n \in Nat, NEW u \in SUBSET (1..(n + 1)), n + 1 \in u
    PROVE  Max(u) = n + 1
  <1>1. u \in SUBSET Int /\ u # {}
    OBVIOUS
  <1>2. IsFiniteSet(u)
    <2> DEFINE T == 1..(n + 1)
    <2>1. u \in SUBSET T
      OBVIOUS
    <2>2. IsFiniteSet(T)
      BY FS_Interval
    <2> HIDE DEF T
    <2> QED
      BY <2>1, <2>2, FS_Subset
  <1>3. Max(u) \in u /\ \A x \in u : x <= Max(u)
    BY <1>1, <1>2, MaxIsMax
  <1> DEFINE m == Max(u)
  <1>4. m \in u /\ n + 1 <= m
    BY <1>3
  <1> HIDE DEF m
  <1>5. m \in Int /\ m <= n + 1
    BY <1>4
  <1>6. m = n + 1
    BY <1>4, <1>5
  <1> QED
    BY <1>6 DEF m

\* What the recursion of Recent makes of the events up to n.
FilteredUpto(g, s, n) ==
    /\ g \in [SUBSET (1..n) -> Seq(Event)]
    /\ \A u \in SUBSET (1..n) :
          g[u] = IF u = {} THEN <<>>
                 ELSE IF s[Max(u)].old THEN g[u \ {Max(u)}]
                      ELSE Append(g[u \ {Max(u)}], s[Max(u)])

(* One event more.                                                         *)
LEMMA FilteredGrows ==
    ASSUME NEW s \in Seq(Event), NEW n \in Nat, n + 1 <= Len(s),
           NEW g, FilteredUpto(g, s, n)
    PROVE  \E h : FilteredUpto(h, s, n + 1)
  <1> DEFINE m == n + 1
             h == [u \in SUBSET (1..m) |->
                      IF m \notin u THEN g[u]
                      ELSE IF s[m].old THEN g[u \ {m}] ELSE Append(g[u \ {m}], s[m])]
  <1>1. \A u \in SUBSET (1..m) :
            u \ {m} \in SUBSET (1..n) /\ (m \notin u => u \in SUBSET (1..n))
    OBVIOUS
  <1>2. s[m] \in Event
    OBVIOUS
  <1>3. \A u \in SUBSET (1..n) : g[u] \in Seq(Event)
    BY DEF FilteredUpto
  <1>4. h \in [SUBSET (1..m) -> Seq(Event)]
    <2> SUFFICES ASSUME NEW u \in SUBSET (1..m)
                 PROVE  h[u] \in Seq(Event)
      OBVIOUS
    <2>1. CASE m \notin u
      BY <1>1, <1>3, <2>1
    <2>2. CASE m \in u
      <3>1. g[u \ {m}] \in Seq(Event)
        BY <1>1, <1>3
      <3>2. Append(g[u \ {m}], s[m]) \in Seq(Event)
        BY <1>2, <3>1
      <3>3. h[u] = IF s[m].old THEN g[u \ {m}] ELSE Append(g[u \ {m}], s[m])
        BY <2>2
      <3> HIDE DEF h, m
      <3> QED
        BY <3>1, <3>2, <3>3
    <2> QED
      BY <2>1, <2>2
  <1>5. ASSUME NEW u \in SUBSET (1..m)
        PROVE  h[u] = IF u = {} THEN <<>>
                      ELSE IF s[Max(u)].old THEN h[u \ {Max(u)}]
                           ELSE Append(h[u \ {Max(u)}], s[Max(u)])
    <2>1. CASE m \in u
      <3>1. Max(u) = m
        BY <2>1, LastPosition
      <3>2. u \ {m} \in SUBSET (1..m) /\ m \notin u \ {m}
        OBVIOUS
      <3>3. h[u \ {m}] = g[u \ {m}]
        BY <3>2
      <3>4. h[u] = IF s[m].old THEN g[u \ {m}] ELSE Append(g[u \ {m}], s[m])
        BY <2>1
      <3>5. u # {}
        BY <2>1
      <3> HIDE DEF h, m
      <3> QED
        BY <3>1, <3>3, <3>4, <3>5
    <2>2. CASE m \notin u
      <3> DEFINE r == u \ {Max(u)}
      <3>1. u \in SUBSET (1..n) /\ r \in SUBSET (1..m) /\ m \notin r
        BY <1>1, <2>2
      <3>2. h[u] = g[u] /\ h[r] = g[r]
        BY <2>2, <3>1
      <3>3. g[u] = IF u = {} THEN <<>>
                   ELSE IF s[Max(u)].old THEN g[r] ELSE Append(g[r], s[Max(u)])
        BY <3>1 DEF FilteredUpto
      <3> HIDE DEF h, m
      <3> QED
        BY <3>2, <3>3
    <2> QED
      BY <2>1, <2>2
  <1> HIDE DEF h
  <1>6. FilteredUpto(h, s, m)
    BY <1>4, <1>5 DEF FilteredUpto
  <1> QED
    BY <1>6

(* The recursion of Recent has a solution.                                 *)
LEMMA FilteredExists ==
    ASSUME NEW s \in Seq(Event)
    PROVE  \E iter : Filtered(iter, s)
  <1> DEFINE T == {n \in Nat : n <= Len(s) => \E g : FilteredUpto(g, s, n)}
  <1>1. 0 \in T
    <2> DEFINE g == [u \in SUBSET (1..0) |-> <<>>]
    <2>1. <<>> \in Seq(Event)
      OBVIOUS
    <2>2. \A u \in SUBSET (1..0) : u = {}
      OBVIOUS
    <2>3. g \in [SUBSET (1..0) -> Seq(Event)] /\ \A u \in SUBSET (1..0) : g[u] = <<>>
      BY <2>1
    <2> HIDE DEF g
    <2>4. FilteredUpto(g, s, 0)
      BY <2>2, <2>3 DEF FilteredUpto
    <2> QED
      BY <2>4
  <1>2. \A n \in Nat : n \in T => n + 1 \in T
    <2> TAKE n \in Nat
    <2>1. ASSUME n \in T, n + 1 <= Len(s)
          PROVE  \E g : FilteredUpto(g, s, n + 1)
      <3>1. n <= Len(s)
        BY <2>1
      <3>2. PICK g : FilteredUpto(g, s, n)
        BY <2>1, <3>1
      <3> QED
        BY <2>1, <3>2, FilteredGrows
    <2> QED
      BY <2>1
  <1>3. Len(s) \in T
    <2> HIDE DEF T
    <2>1. Len(s) \in Nat
      OBVIOUS
    <2> QED
      BY <1>1, <1>2, <2>1, NatSetInduction
  <1>4. PICK g : FilteredUpto(g, s, Len(s))
    BY <1>3
  <1>5. Filtered(g, s)
    <2> DEFINE f == [u \in SUBSET DOMAIN s |->
                        IF u = {} THEN <<>>
                        ELSE IF s[Max(u)].old THEN g[u \ {Max(u)}]
                             ELSE Append(g[u \ {Max(u)}], s[Max(u)])]
    <2>1. DOMAIN s = 1..Len(s)
      OBVIOUS
    <2>2. \A u \in SUBSET DOMAIN s : g[u] = f[u]
      BY <1>4, <2>1 DEF FilteredUpto
    <2>3. g = [u \in SUBSET DOMAIN s |-> g[u]]
      BY <1>4, <2>1 DEF FilteredUpto
    <2>4. f = [u \in SUBSET DOMAIN s |-> f[u]]
      OBVIOUS
    <2>5. g = f
      <3> HIDE DEF f
      <3> QED
        BY <2>2, <2>3, <2>4
    <2> QED
      BY <2>5 DEF Filtered
  <1> QED
    BY <1>5

(* Dropping old events drops some of each type, and changes none.          *)
LEMMA CountedRecent ==
    ASSUME NEW s \in Seq(Event)
    PROVE  Recent(s) \in Seq(Event) /\ \A t : Counted(Recent(s), t) <= Counted(s, t)
  <1> DEFINE iter == CHOOSE g : Filtered(g, s)
             T == {n \in Nat : n <= Len(s) =>
                      /\ iter[1..n] \in Seq(Event)
                      /\ \A t : Counted(iter[1..n], t) <= Counted(SubSeq(s, 1, n), t)}
  <1>1. Recent(s) = (CHOOSE g : g = [u \in SUBSET DOMAIN s |->
               IF u = {} THEN <<>>
               ELSE IF s[Max(u)].old THEN g[u \ {Max(u)}]
                    ELSE Append(g[u \ {Max(u)}], s[Max(u)])])[DOMAIN s]
    BY DEF Recent, FoldLeft, MapThenFoldSet
  <1>2. Recent(s) = iter[DOMAIN s]
    BY <1>1 DEF Filtered
  <1>3. Filtered(iter, s)
    BY FilteredExists
  <1>4. \A u \in SUBSET DOMAIN s :
            iter[u] = IF u = {} THEN <<>>
                      ELSE IF s[Max(u)].old THEN iter[u \ {Max(u)}]
                           ELSE Append(iter[u \ {Max(u)}], s[Max(u)])
    BY <1>3 DEF Filtered
  <1> HIDE DEF iter
  <1>5. 0 \in T
    <2>1. 1..0 = {} /\ 1..0 \in SUBSET DOMAIN s
      OBVIOUS
    <2>2. iter[1..0] = <<>>
      BY <1>4, <2>1
    <2>3. SubSeq(s, 1, 0) = <<>> /\ <<>> \in Seq(Event)
      OBVIOUS
    <2>4. ASSUME NEW t
          PROVE  Counted(<<>>, t) <= Counted(<<>>, t)
      <3>1. {i \in DOMAIN <<>> : <<>>[i].type = t} = {}
        OBVIOUS
      <3>2. Counted(<<>>, t) = 0
        BY <3>1, FS_EmptySet DEF Counted
      <3> QED
        BY <3>2
    <2> QED
      BY <2>2, <2>3, <2>4
  <1>6. \A n \in Nat : n \in T => n + 1 \in T
    <2> TAKE n \in Nat
    <2>0. ASSUME n \in T, n + 1 <= Len(s)
          PROVE  /\ iter[1..(n + 1)] \in Seq(Event)
                 /\ \A t : Counted(iter[1..(n + 1)], t) <= Counted(SubSeq(s, 1, n + 1), t)
      <3> DEFINE e == s[n + 1]
                 r == SubSeq(s, 1, n)
                 before == iter[1..n]
      <3>0. /\ n <= Len(s) /\ before \in Seq(Event)
            /\ \A t : Counted(before, t) <= Counted(r, t)
        BY <2>0
      <3>1. Max(1..(n + 1)) = n + 1
        <4> DEFINE u == 1..(n + 1)
        <4>1. u \in SUBSET (1..(n + 1)) /\ n + 1 \in u
          OBVIOUS
        <4> HIDE DEF u
        <4>2. Max(u) = n + 1
          BY <4>1, LastPosition
        <4> QED
          BY <4>2 DEF u
      <3>2. (1..(n + 1)) \ {n + 1} = 1..n
        OBVIOUS
      <3>3. 1..(n + 1) \in SUBSET DOMAIN s
        BY <2>0
      <3>4. 1..(n + 1) # {}
        <4>1. n + 1 \in 1..(n + 1)
          OBVIOUS
        <4> QED
          BY <4>1
      <3>5. iter[1..(n + 1)] = IF e.old THEN before ELSE Append(before, e)
        BY <1>4, <3>1, <3>2, <3>3, <3>4
      <3>6. e \in Event /\ r \in Seq(Event)
        BY <2>0
      <3>7. SubSeq(s, 1, n + 1) = Append(r, e)
        BY <2>0
      <3> HIDE DEF e, r, before
      <3>8. ASSUME NEW t
            PROVE  Counted(iter[1..(n + 1)], t) <= Counted(SubSeq(s, 1, n + 1), t)
        <4>1. Counted(before, t) <= Counted(r, t)
          BY <3>0
        <4> DEFINE one == IF e.type = t THEN 1 ELSE 0
        <4>2. /\ Counted(r, t) \in Nat
              /\ Counted(Append(r, e), t) = Counted(r, t) + one
          BY <3>6, CountedAppend
        <4>3. /\ Counted(before, t) \in Nat
              /\ Counted(Append(before, e), t) = Counted(before, t) + one
          BY <3>0, <3>6, CountedAppend
        <4>6. one \in Nat
          OBVIOUS
        <4> HIDE DEF one
        <4>4. CASE e.old
          <5>1. Counted(iter[1..(n + 1)], t) = Counted(before, t)
            BY <3>5, <4>4
          <5>2. Counted(SubSeq(s, 1, n + 1), t) = Counted(r, t) + one
            BY <3>7, <4>2
          <5> QED
            BY <4>1, <4>2, <4>3, <4>6, <5>1, <5>2
        <4>5. CASE ~e.old
          <5>1. Counted(iter[1..(n + 1)], t) = Counted(before, t) + one
            BY <3>5, <4>3, <4>5
          <5>2. Counted(SubSeq(s, 1, n + 1), t) = Counted(r, t) + one
            BY <3>7, <4>2
          <5> QED
            BY <4>1, <4>2, <4>3, <4>6, <5>1, <5>2
        <4> QED
          BY <4>4, <4>5
      <3>9. Append(before, e) \in Seq(Event)
        BY <3>0, <3>6
      <3> QED
        BY <3>0, <3>5, <3>8, <3>9
    <2> QED
      BY <2>0
  <1>7. Len(s) \in T
    <2> HIDE DEF T
    <2>1. Len(s) \in Nat
      OBVIOUS
    <2> QED
      BY <1>5, <1>6, <2>1, NatSetInduction
  <1>8. SubSeq(s, 1, Len(s)) = s /\ DOMAIN s = 1..Len(s) /\ Len(s) \in Nat
    OBVIOUS
  <1>9. iter[1..Len(s)] \in Seq(Event)
    BY <1>7, <1>8
  <1>10. \A t : Counted(iter[1..Len(s)], t) <= Counted(SubSeq(s, 1, Len(s)), t)
    BY <1>7, <1>8
  <1> HIDE DEF T
  <1> QED
    BY <1>2, <1>8, <1>9, <1>10

(* Aging changes the type of no event.                                     *)
LEMMA CountedAged ==
    ASSUME NEW s \in Seq(Event),
           NEW r, r = [i \in DOMAIN s |-> [s[i] EXCEPT !.old = TRUE]]
    PROVE  r \in Seq(Event) /\ \A t : Counted(r, t) = Counted(s, t)
  <1>1. DOMAIN r = DOMAIN s /\ \A i \in DOMAIN s : r[i] \in Event /\ r[i].type = s[i].type
    <2>1. ASSUME NEW i \in DOMAIN s
          PROVE  r[i] \in Event /\ r[i].type = s[i].type
      <3>1. s[i] \in Event /\ r[i] = [s[i] EXCEPT !.old = TRUE]
        OBVIOUS
      <3> QED
        BY <3>1 DEF Event
    <2> QED
      BY <2>1
  <1>2. r \in Seq(Event)
    BY <1>1
  <1>3. ASSUME NEW t
        PROVE  Counted(r, t) = Counted(s, t)
    <2>1. {i \in DOMAIN r : r[i].type = t} = {i \in DOMAIN s : s[i].type = t}
      BY <1>1
    <2> QED
      BY <2>1 DEF Counted
  <1> QED
    BY <1>2, <1>3

\* What the events of type t take off the score.
Penalties(counts) == [t \in Types |-> Weights[t] * Bounded(counts[t], 0, Caps[t])]

(* There is a penalty for each type.                                       *)
LEMMA PenaltiesType ==
    ASSUME NEW c \in [Types -> Nat]
    PROVE  /\ Penalties(c) \in [Types -> Int]
           /\ GetSecurityScore(c) = Bounded(1000 - SumFunction(Penalties(c)), 0, 1000)
  <1>1. ASSUME NEW t \in Types
        PROVE  Weights[t] * Bounded(c[t], 0, Caps[t]) \in Int
    <2>1. Weights[t] \in Int /\ Caps[t] \in Int /\ c[t] \in Int
      BY RuntimeAssumption
    <2>2. Bounded(c[t], 0, Caps[t]) \in Int
      BY <2>1 DEF Bounded
    <2> QED
      BY <2>1, <2>2
  <1> QED
    BY <1>1 DEF Penalties, GetSecurityScore

(* More events, no better a score.                                         *)
LEMMA ScoreFalls ==
    ASSUME NEW c \in [Types -> Nat], NEW d \in [Types -> Nat],
           \A t \in Types : c[t] <= d[t]
    PROVE  GetSecurityScore(d) \in Int /\ GetSecurityScore(d) <= GetSecurityScore(c)
  <1>1. Penalties(c) \in [Types -> Int] /\ Penalties(d) \in [Types -> Int]
    BY PenaltiesType
  <1>2. /\ GetSecurityScore(c) = Bounded(1000 - SumFunction(Penalties(c)), 0, 1000)
        /\ GetSecurityScore(d) = Bounded(1000 - SumFunction(Penalties(d)), 0, 1000)
    BY PenaltiesType
  <1>3. \A t \in Types : Penalties(c)[t] <= Penalties(d)[t]
    <2> TAKE t \in Types
    <2>1. Weights[t] \in Nat /\ Caps[t] \in Nat /\ c[t] \in Nat /\ d[t] \in Nat /\ c[t] <= d[t]
      BY RuntimeAssumption
    <2> DEFINE a == Bounded(c[t], 0, Caps[t])
               b == Bounded(d[t], 0, Caps[t])
    <2>2. a \in Nat /\ b \in Nat /\ a <= b
      BY <2>1 DEF Bounded
    <2>3. Penalties(c)[t] = Weights[t] * a /\ Penalties(d)[t] = Weights[t] * b
      BY DEF Penalties
    <2> HIDE DEF a, b
    <2>4. Weights[t] * a <= Weights[t] * b
      BY <2>1, <2>2
    <2> QED
      BY <2>3, <2>4
  <1> DEFINE a == SumFunction(Penalties(c))
             b == SumFunction(Penalties(d))
  <1>4. a \in Int /\ b \in Int /\ a <= b
    BY <1>1, <1>3, SumMonotone, RuntimeAssumption
  <1> HIDE DEF a, b
  <1> QED
    BY <1>2, <1>4 DEF Bounded, a, b

\* What happens to the events: none is kept or told of that is not counted.
RuntimeTypeOK ==
    /\ metrics \in [Types -> Nat]
    /\ eventBuffer \in Seq(Event)
    /\ check.recent \in Seq(Event) /\ DOMAIN check = {"at", "memory", "recent"}
    /\ security \in [at : {"none", "events", "score", "done"}, metrics : [Types -> Nat],
                     events : Seq(Event), score : Int]

AllCounted ==
    \A t \in Types : /\ Counted(eventBuffer, t) <= metrics[t]
                     /\ Counted(check.recent, t) <= metrics[t]
                     /\ Counted(security.events, t) <= metrics[t]
                     /\ security.metrics[t] <= metrics[t]

ScoreIsNoBetter ==
    security.at = "done" =>
        /\ security.score <= GetSecurityScore(security.metrics)
        /\ security.score <= GetSecurityScore([t \in Types |-> Counted(security.events, t)])

RuntimeInv == RuntimeTypeOK /\ AllCounted /\ ScoreIsNoBetter

(* Nothing is counted of nothing.                                          *)
LEMMA CountedNone == <<>> \in Seq(Event) /\ \A t : Counted(<<>>, t) = 0
  <1>1. ASSUME NEW t
        PROVE  Counted(<<>>, t) = 0
    <2>1. {i \in DOMAIN <<>> : <<>>[i].type = t} = {}
      OBVIOUS
    <2> QED
      BY <2>1, FS_EmptySet DEF Counted
  <1> QED
    BY <1>1

(* At first nothing is counted and nothing is there to count.              *)
LEMMA RuntimeInvInit == RuntimeInit => RuntimeInv
  <1> SUFFICES ASSUME RuntimeInit PROVE RuntimeInv
    OBVIOUS
  <1>1. RuntimeTypeOK
    BY CountedNone DEF RuntimeInit, NoCheck, NoSecurityReport, RuntimeTypeOK
  <1>2. AllCounted
    BY CountedNone DEF RuntimeInit, NoCheck, NoSecurityReport, AllCounted
  <1>3. ScoreIsNoBetter
    BY DEF RuntimeInit, NoSecurityReport, ScoreIsNoBetter
  <1> QED
    BY <1>1, <1>2, <1>3 DEF RuntimeInv

(* An event is recorded: it is counted, and the oldest leave the buffer.   *)
LEMMA EventRecorded ==
    ASSUME RuntimeInv, NEW type \in Types, RecordEvent(type), UNCHANGED security,
           check'.recent = check.recent, DOMAIN check' = DOMAIN check
    PROVE  RuntimeInv'
  <1> DEFINE e == [type |-> type, old |-> FALSE]
             kept == Append(eventBuffer, e)
  <1>1. metrics \in [Types -> Nat] /\ eventBuffer \in Seq(Event) /\ Kept \in Nat \ {0}
    BY RuntimeAssumption DEF RuntimeInv, RuntimeTypeOK
  <1>2. e \in Event /\ kept \in Seq(Event)
    BY <1>1 DEF Event
  <1>3. metrics' \in [Types -> Nat]
    BY <1>1 DEF RecordEvent
  <1>4. \A t \in Types : metrics'[t] = metrics[t] + IF e.type = t THEN 1 ELSE 0
    BY <1>1 DEF RecordEvent
  <1>5. eventBuffer' = LastOf(kept, Kept)
    BY DEF RecordEvent
  <1> HIDE DEF e
  <1>6. eventBuffer' \in Seq(Event)
    <2> HIDE DEF kept
    <2> QED
      BY <1>1, <1>2, <1>5, CountedLastOf
  <1>7. RuntimeTypeOK'
    BY <1>3, <1>6 DEF RuntimeInv, RuntimeTypeOK
  <1>8. ASSUME NEW t \in Types
        PROVE  /\ Counted(eventBuffer', t) <= metrics'[t]
               /\ metrics[t] <= metrics'[t]
    <2> DEFINE one == IF e.type = t THEN 1 ELSE 0
    <2>1. Counted(eventBuffer, t) \in Nat /\ Counted(kept, t) = Counted(eventBuffer, t) + one
      BY <1>1, <1>2, CountedAppend
    <2>2. Counted(eventBuffer', t) <= Counted(kept, t)
      <3> HIDE DEF kept
      <3> QED
        BY <1>1, <1>2, <1>5, CountedLastOf
    <2>3. Counted(eventBuffer', t) \in Nat
      BY <1>2, <1>6, CountedAppend
    <2>4. Counted(eventBuffer, t) <= metrics[t] /\ metrics[t] \in Nat
      BY <1>1 DEF RuntimeInv, AllCounted
    <2>5. metrics'[t] = metrics[t] + one /\ one \in Nat
      BY <1>4
    <2> HIDE DEF kept, one
    <2> QED
      BY <2>1, <2>2, <2>3, <2>4, <2>5
  <1>9. AllCounted'
    <2> SUFFICES ASSUME NEW t \in Types
                 PROVE  /\ Counted(eventBuffer', t) <= metrics'[t]
                        /\ Counted(check'.recent, t) <= metrics'[t]
                        /\ Counted(security'.events, t) <= metrics'[t]
                        /\ security'.metrics[t] <= metrics'[t]
      BY DEF AllCounted
    <2>1. /\ Counted(check.recent, t) <= metrics[t]
          /\ Counted(security.events, t) <= metrics[t]
          /\ security.metrics[t] <= metrics[t]
      BY DEF RuntimeInv, AllCounted
    <2>2. check.recent \in Seq(Event) /\ security.events \in Seq(Event)
          /\ security.metrics \in [Types -> Nat]
      BY DEF RuntimeInv, RuntimeTypeOK
    <2>3. Counted(check.recent, t) \in Nat /\ Counted(security.events, t) \in Nat
      BY <1>2, <2>2, CountedAppend
    <2>4. security.metrics[t] \in Nat /\ metrics[t] \in Nat /\ metrics'[t] \in Nat
      BY <1>1, <1>3, <2>2
    <2>5. metrics[t] <= metrics'[t] /\ Counted(eventBuffer', t) <= metrics'[t]
      BY <1>8
    <2>6. Counted(check.recent, t) <= metrics'[t] /\ Counted(security.events, t) <= metrics'[t]
      BY <2>1, <2>3, <2>4, <2>5
    <2>7. security.metrics[t] <= metrics'[t]
      BY <2>1, <2>4, <2>5
    <2> QED
      BY <2>5, <2>6, <2>7
  <1>10. ScoreIsNoBetter'
    BY DEF RuntimeInv, ScoreIsNoBetter
  <1> QED
    BY <1>7, <1>9, <1>10 DEF RuntimeInv

(* Nothing is recorded: what is kept and what is told of may get less.     *)
LEMMA NothingRecorded ==
    ASSUME RuntimeInv, UNCHANGED <<metrics, security>>,
           eventBuffer' \in Seq(Event), check'.recent \in Seq(Event),
           DOMAIN check' = {"at", "memory", "recent"},
           \A t \in Types : Counted(eventBuffer', t) <= metrics[t],
           \A t \in Types : Counted(check'.recent, t) <= metrics[t]
    PROVE  RuntimeInv'
  <1>1. RuntimeTypeOK'
    BY DEF RuntimeInv, RuntimeTypeOK
  <1>2. AllCounted'
    BY DEF RuntimeInv, AllCounted
  <1>3. ScoreIsNoBetter'
    BY DEF RuntimeInv, ScoreIsNoBetter
  <1> QED
    BY <1>1, <1>2, <1>3 DEF RuntimeInv

(* What the invariant says of the buffer and of what a cleanup has kept.   *)
LEMMA NowCounted ==
    ASSUME RuntimeInv
    PROVE  /\ eventBuffer \in Seq(Event) /\ check.recent \in Seq(Event)
           /\ DOMAIN check = {"at", "memory", "recent"}
           /\ \A t \in Types : Counted(eventBuffer, t) <= metrics[t]
           /\ \A t \in Types : Counted(check.recent, t) <= metrics[t]
           /\ \A t \in Types : Counted(<<>>, t) <= metrics[t]
  <1>1. metrics \in [Types -> Nat]
    BY DEF RuntimeInv, RuntimeTypeOK
  <1>2. \A t \in Types : Counted(<<>>, t) <= metrics[t]
    BY <1>1, CountedNone
  <1> QED
    BY <1>2 DEF RuntimeInv, RuntimeTypeOK, AllCounted

(* The loop looks at something, and may record what it finds.              *)
LEMMA CheckStepKeeps ==
    ASSUME RuntimeInv, NEW from, NEW to, NEW finds, NEW type \in Types,
           CheckStep(from, to, finds, type)
    PROVE  RuntimeInv'
  <1>1. check' = [check EXCEPT !.at = to] /\ UNCHANGED security
    BY DEF CheckStep, Then
  <1>2. check'.recent = check.recent /\ DOMAIN check' = DOMAIN check
    BY <1>1, NowCounted
  <1>3. CASE finds
    <2>1. RecordEvent(type)
      BY <1>3 DEF CheckStep
    <2> QED
      BY <1>1, <1>2, <2>1, EventRecorded
  <1>4. CASE ~finds
    <2>1. UNCHANGED <<metrics, eventBuffer>>
      BY <1>4 DEF CheckStep
    <2> QED
      BY <1>1, <1>2, <2>1, NowCounted, NothingRecorded
  <1> QED
    BY <1>3, <1>4

(* An hour passes for the events that are kept, wherever they are kept.    *)
LEMMA AnHourKeeps ==
    ASSUME RuntimeInv, AnHourPasses
    PROVE  RuntimeInv'
  <1> DEFINE Aged(s) == [i \in DOMAIN s |-> [s[i] EXCEPT !.old = TRUE]]
  <1>1. eventBuffer' = Aged(eventBuffer) /\ UNCHANGED <<metrics, security>>
    BY DEF AnHourPasses
  <1>2. check' = [check EXCEPT !.recent = Aged(check.recent)]
    BY NowCounted DEF AnHourPasses
  <1>3. check'.recent = Aged(check.recent) /\ DOMAIN check' = {"at", "memory", "recent"}
    BY <1>2, NowCounted
  <1>4. /\ eventBuffer' \in Seq(Event)
        /\ \A t : Counted(eventBuffer', t) = Counted(eventBuffer, t)
    BY <1>1, NowCounted, CountedAged
  <1>5. /\ check'.recent \in Seq(Event)
        /\ \A t : Counted(check'.recent, t) = Counted(check.recent, t)
    BY <1>3, NowCounted, CountedAged
  <1> QED
    BY <1>1, <1>3, <1>4, <1>5, NowCounted, NothingRecorded

(* A cleanup reads the buffer and, later, writes what it has kept of it.   *)
LEMMA CleanupKeeps ==
    ASSUME RuntimeInv, ReadBuffer \/ ReplaceBuffer
    PROVE  RuntimeInv'
  <1>1. CASE ReadBuffer
    <2>1. /\ check' = [check EXCEPT !.at = "replace", !.recent = Recent(eventBuffer)]
          /\ UNCHANGED <<metrics, eventBuffer, security>>
      BY <1>1 DEF ReadBuffer
    <2>2. check'.recent = Recent(eventBuffer) /\ DOMAIN check' = {"at", "memory", "recent"}
      BY <2>1, NowCounted
    <2>3. /\ check'.recent \in Seq(Event)
          /\ \A t : Counted(check'.recent, t) <= Counted(eventBuffer, t)
      BY <2>2, NowCounted, CountedRecent
    <2>4. ASSUME NEW t \in Types
          PROVE  Counted(check'.recent, t) <= metrics[t]
      <3>1. Counted(check'.recent, t) <= Counted(eventBuffer, t)
            /\ Counted(eventBuffer, t) <= metrics[t]
        BY <2>3, NowCounted
      <3>2. <<>> \in Seq(Event) /\ [type |-> t, old |-> FALSE] \in Event
        BY DEF Event
      <3>3. Counted(check'.recent, t) \in Nat /\ Counted(eventBuffer, t) \in Nat
        BY <2>3, <3>2, NowCounted, CountedAppend
      <3>4. metrics[t] \in Nat
        BY DEF RuntimeInv, RuntimeTypeOK
      <3> QED
        BY <3>1, <3>3, <3>4
    <2> QED
      BY <2>1, <2>2, <2>3, <2>4, NowCounted, NothingRecorded
  <1>2. CASE ReplaceBuffer
    <2>1. /\ eventBuffer' = check.recent /\ check' = [NoCheck EXCEPT !.at = "select"]
          /\ UNCHANGED <<metrics, security>>
      BY <1>2 DEF ReplaceBuffer
    <2>2. check'.recent = <<>> /\ DOMAIN check' = {"at", "memory", "recent"}
      BY <2>1 DEF NoCheck
    <2> QED
      BY <2>1, <2>2, NowCounted, CountedNone, NothingRecorded
  <1> QED
    BY <1>1, <1>2

(* Start, Stop and the loop's other steps record and keep nothing.         *)
LEMMA WatchingKeeps ==
    ASSUME RuntimeInv,
           \/ StartWatching \/ EndWatching
           \/ \E c \in Callers : BeginStopWatching(c) \/ CloseStop(c) \/ StopWatching(c)
           \/ \E memory \in Memory : BeginCheck(memory)
           \/ CompareUsage
    PROVE  RuntimeInv'
  <1>1. UNCHANGED <<metrics, eventBuffer, security>>
    BY DEF StartWatching, EndWatching, BeginStopWatching, CloseStop, StopWatching,
           BeginCheck, CompareUsage
  <1>2. check'.recent \in {check.recent, <<>>} /\ DOMAIN check' = {"at", "memory", "recent"}
    <2>1. CASE StartWatching \/ EndWatching
      BY <2>1 DEF StartWatching, EndWatching, NoCheck
    <2>2. CASE \E c \in Callers : BeginStopWatching(c) \/ CloseStop(c) \/ StopWatching(c)
      BY <2>2, NowCounted DEF BeginStopWatching, CloseStop, StopWatching
    <2>3. CASE \E memory \in Memory : BeginCheck(memory)
      BY <2>3, NowCounted DEF BeginCheck
    <2>4. CASE CompareUsage
      <3>1. PICK at : check' = [check EXCEPT !.at = at]
        BY <2>4 DEF CompareUsage, Then
      <3> QED
        BY <3>1, NowCounted
    <2> QED
      BY <2>1, <2>2, <2>3, <2>4
  <1> QED
    BY <1>1, <1>2, NowCounted, CountedNone, NothingRecorded

(* A report is read in three pieces.                                       *)
LEMMA ReportKeeps ==
    ASSUME RuntimeInv, GetMetrics \/ GetRecentEvents \/ CalculateSummary
    PROVE  RuntimeInv'
  <1>1. UNCHANGED <<check, metrics, eventBuffer>>
    BY DEF GetMetrics, GetRecentEvents, CalculateSummary, Keeps
  <1>2. /\ metrics \in [Types -> Nat] /\ eventBuffer \in Seq(Event)
        /\ security \in [at : {"none", "events", "score", "done"},
                         metrics : [Types -> Nat], events : Seq(Event), score : Int]
    BY DEF RuntimeInv, RuntimeTypeOK
  <1>3. CASE GetMetrics
    <2>1. security' = [at |-> "events", metrics |-> metrics, events |-> <<>>, score |-> 0]
      BY <1>3 DEF GetMetrics, NoSecurityReport
    <2>2. RuntimeTypeOK'
      BY <1>1, <1>2, <2>1, CountedNone DEF RuntimeInv, RuntimeTypeOK
    <2>3. AllCounted'
      BY <1>1, <1>2, <2>1, NowCounted DEF AllCounted
    <2>4. ScoreIsNoBetter'
      BY <2>1 DEF ScoreIsNoBetter
    <2> QED
      BY <2>2, <2>3, <2>4 DEF RuntimeInv
  <1>4. CASE GetRecentEvents
    <2> DEFINE listed == LastOf(eventBuffer, Listed)
    <2>1. security' = [security EXCEPT !.at = "score", !.events = listed]
      BY <1>4 DEF GetRecentEvents
    <2>2. listed \in Seq(Event) /\ \A t : Counted(listed, t) <= Counted(eventBuffer, t)
      BY <1>2, RuntimeAssumption, CountedLastOf
    <2> HIDE DEF listed
    <2>3. RuntimeTypeOK'
      <3>1. security' \in [at : {"none", "events", "score", "done"},
                           metrics : [Types -> Nat], events : Seq(Event), score : Int]
        BY <1>2, <2>1, <2>2
      <3> QED
        BY <1>1, <3>1 DEF RuntimeInv, RuntimeTypeOK
    <2>4. security'.metrics = security.metrics /\ security'.events = listed
          /\ security'.at = "score"
      BY <1>2, <2>1
    <2>5. ASSUME NEW t \in Types
          PROVE  Counted(listed, t) <= metrics[t] /\ security.metrics[t] <= metrics[t]
      <3>1. [type |-> t, old |-> FALSE] \in Event
        BY DEF Event
      <3>2. Counted(listed, t) \in Nat /\ Counted(eventBuffer, t) \in Nat
        BY <1>2, <2>2, <3>1, CountedAppend
      <3>3. Counted(listed, t) <= Counted(eventBuffer, t)
            /\ Counted(eventBuffer, t) <= metrics[t]
        BY <2>2, NowCounted
      <3> QED
        BY <1>2, <3>2, <3>3 DEF RuntimeInv, AllCounted
    <2>6. AllCounted'
      BY <1>1, <2>4, <2>5, NowCounted DEF AllCounted
    <2>7. ScoreIsNoBetter'
      BY <2>4 DEF ScoreIsNoBetter
    <2> QED
      BY <2>3, <2>6, <2>7 DEF RuntimeInv
  <1>5. CASE CalculateSummary
    <2> DEFINE score == GetSecurityScore(metrics)
               listed == [t \in Types |-> Counted(security.events, t)]
    <2>1. security' = [security EXCEPT !.at = "done", !.score = score]
      BY <1>5 DEF CalculateSummary
    <2>2. score \in Int
      <3>1. \A t \in Types : metrics[t] <= metrics[t]
        BY <1>2
      <3> QED
        BY <1>2, <3>1, ScoreFalls
    <2>3. score <= GetSecurityScore(security.metrics)
      BY <1>2, ScoreFalls DEF RuntimeInv, AllCounted
    <2>4. listed \in [Types -> Nat] /\ \A t \in Types : listed[t] <= metrics[t]
      <3>1. ASSUME NEW t \in Types
            PROVE  Counted(security.events, t) \in Nat
        <4>1. [type |-> t, old |-> FALSE] \in Event
          BY DEF Event
        <4> QED
          BY <1>2, <4>1, CountedAppend
      <3> QED
        BY <3>1 DEF RuntimeInv, AllCounted
    <2>5. score <= GetSecurityScore(listed)
      <3> HIDE DEF listed
      <3> QED
        BY <1>2, <2>4, ScoreFalls
    <2> HIDE DEF score
    <2>6. security'.metrics = security.metrics /\ security'.events = security.events
          /\ security'.score = score
      BY <1>2, <2>1
    <2>7. RuntimeTypeOK'
      <3>1. security' \in [at : {"none", "events", "score", "done"},
                           metrics : [Types -> Nat], events : Seq(Event), score : Int]
        BY <1>2, <2>1, <2>2
      <3> QED
        BY <1>1, <3>1 DEF RuntimeInv, RuntimeTypeOK
    <2>8. AllCounted'
      BY <1>1, <2>6 DEF RuntimeInv, AllCounted
    <2>9. ScoreIsNoBetter'
      BY <2>3, <2>5, <2>6 DEF ScoreIsNoBetter
    <2> QED
      BY <2>7, <2>8, <2>9 DEF RuntimeInv
  <1> QED
    BY <1>3, <1>4, <1>5

(* Every step of the monitor keeps the invariant.                          *)
LEMMA RuntimeInvNext == RuntimeInv /\ RuntimeNext => RuntimeInv'
  <1> SUFFICES ASSUME RuntimeInv, RuntimeNext PROVE RuntimeInv'
    OBVIOUS
  <1>1. "memory_anomaly" \in Types /\ "process_anomaly" \in Types
    BY RuntimeAssumption
  <1>2. ASSUME NEW type \in Types, CallerRecords(type)
        PROVE  RuntimeInv'
    BY <1>2, EventRecorded DEF CallerRecords
  <1>3. CASE CheckMemory \/ RecordGrowth
    BY <1>1, <1>3, CheckStepKeeps DEF CheckMemory, RecordGrowth
  <1>4. CASE CheckProcess
    BY <1>1, <1>4, CheckStepKeeps DEF CheckProcess
  <1> QED
    BY <1>2, <1>3, <1>4, WatchingKeeps, CleanupKeeps, AnHourKeeps, ReportKeeps
       DEF RuntimeNext

(* A report never flatters: although its three pieces are read one after   *)
(* the other, its score is no better than the metrics in it, nor than the  *)
(* events it lists, and every event it lists has been counted.             *)
THEOREM ReportsNeverFlatter == Spec => []ReportNeverFlatters
  <1>1. Init => RuntimeInv
    BY RuntimeInvInit DEF Init
  <1>2. RuntimeInv /\ [Next]_vars => RuntimeInv'
    <2> SUFFICES ASSUME RuntimeInv, [Next]_vars PROVE RuntimeInv'
      OBVIOUS
    <2>1. CASE RuntimeStep
      BY <2>1, RuntimeInvNext DEF RuntimeStep
    <2>2. CASE UNCHANGED runtimeVars
      BY <2>2, NowCounted, NothingRecorded DEF runtimeVars
    <2> QED
      BY <2>1, <2>2 DEF Next, vars, MonitorStep, ValidationStep, ProfilerStep,
                        DriftStep, RetryStep
  <1>3. RuntimeInv => ReportNeverFlatters
    BY DEF RuntimeInv, AllCounted, ScoreIsNoBetter, ReportNeverFlatters, Counted
  <1> QED
    BY <1>1, <1>2, <1>3, PTL DEF Spec

-----------------------------------------------------------------------------
(* The metrics of retries, for any executors, names and limits.            *)

Counters == [attempts : Nat, successes : Nat, failures : Nat, max : Int]

Execution == [at : {"idle", "trying", "retrying", "waiting", "succeeded", "failed"},
              name : PolicyNames \cup {""}, attempt : Nat, left : Seq(PolicyNames)]

\* What has been counted for n.
Successes(n) == IF n \in DOMAIN retryMetrics THEN retryMetrics[n].successes ELSE 0
Failures(n) == IF n \in DOMAIN retryMetrics THEN retryMetrics[n].failures ELSE 0

\* The executions of n that will count a success, or a failure.
Succeeding(n) == {x \in Executors : execution[x].name = n /\ execution[x].at = "succeeded"}
Failing(n) ==
    {x \in Executors : /\ execution[x].name = n
                       /\ \/ execution[x].at = "failed"
                          \/ execution[x].at = "retrying" /\ n \in ToSet(execution[x].left)}

\* Both can be told, the longest of them as long as may be.
CountersOK(m) ==
    /\ m \in Counters /\ m.attempts = m.successes + m.failures
    /\ 10 * m.max <= 11 * MaxDelay \/ m.max \in Elapsed

RetryTypeOK ==
    /\ hooks \in Seq(PolicyNames)
    /\ execution \in [Executors -> Execution]
    /\ outcomes \in [PolicyNames -> [succeeded : Nat, failed : Nat]]
    /\ DOMAIN retryMetrics \subseteq PolicyNames
    /\ \A n \in DOMAIN retryMetrics : CountersOK(retryMetrics[n])

\* Who executes has an instrumented policy, and who retries has callbacks
\* left, of which there is one only while there is one only.
ChainsOK ==
    \A x \in Executors :
        /\ execution[x].at # "idle" => execution[x].name \in ToSet(hooks)
        /\ execution[x].at = "retrying" =>
              execution[x].left # <<>> /\ (Len(hooks) = 1 => execution[x].left = hooks)

RetriesCounted ==
    \A n \in PolicyNames :
        /\ Successes(n) + Cardinality(Succeeding(n)) = outcomes[n].succeeded
        /\ Failures(n) + Cardinality(Failing(n)) >= outcomes[n].failed
        /\ hooks \in {<<>>, <<n>>} =>
              Failures(n) + Cardinality(Failing(n)) = outcomes[n].failed

RetryInv == RetryTypeOK /\ ChainsOK /\ RetriesCounted

(* The delays of a policy are within its limit and a tenth.                *)
LEMMA DelayIsLimited ==
    ASSUME NEW attempt \in Nat, NEW delay \in CalculateDelay(attempt)
    PROVE  delay \in Int /\ 10 * delay <= 11 * MaxDelay
  <1>1. BaseDelay \in Int /\ MaxDelay \in Int /\ MaxDelay >= 0
    BY RetryAssumption
  <1>2. Backoff(attempt) \in Int
    <2>1. CASE attempt <= 0
      BY <1>1, <2>1 DEF Backoff
    <2>2. CASE attempt > 0
      <3>1. attempt - 1 \in Nat
        BY <2>2
      <3>2. 2 ^ (attempt - 1) \in Int /\ 3 ^ (attempt - 1) \in Int
        BY <3>1
      <3>3. BaseDelay * attempt \in Int /\ BaseDelay * 2 ^ (attempt - 1) \in Int
            /\ BaseDelay * 3 ^ (attempt - 1) \in Int
        BY <1>1, <3>2
      <3> QED
        BY <1>1, <2>2, <3>3, RetryAssumption DEF Backoff
    <2> QED
      BY <2>1, <2>2
  <1> DEFINE d == IF Backoff(attempt) > MaxDelay THEN MaxDelay ELSE Backoff(attempt)
  <1>3. d \in Int /\ d <= MaxDelay
    BY <1>1, <1>2
  <1>4. delay \in d .. d + d \div 10
    BY DEF CalculateDelay
  <1> HIDE DEF d
  <1> QED
    BY <1>1, <1>3, <1>4

(* What is pending is finite, and is what the property counts.             *)
LEMMA PendingIsFinite ==
    \A n : /\ Succeeding(n) = Unrecorded(n, "succeeded")
           /\ Cardinality(Failing(n)) = UnrecordedFailures(n)
           /\ IsFiniteSet(Succeeding(n)) /\ Cardinality(Succeeding(n)) \in Nat
           /\ IsFiniteSet(Failing(n)) /\ Cardinality(Failing(n)) \in Nat
  <1> TAKE n
  <1>1. Succeeding(n) = Unrecorded(n, "succeeded")
    BY DEF Succeeding, Unrecorded
  <1>2. Failing(n) = Unrecorded(n, "failed") \cup Unrecorded(n, "retrying")
    BY DEF Failing, Unrecorded
  <1>3. Succeeding(n) \subseteq Executors /\ Failing(n) \subseteq Executors
    BY DEF Succeeding, Failing
  <1>4. IsFiniteSet(Succeeding(n)) /\ IsFiniteSet(Failing(n))
    BY <1>3, RetryAssumption, FS_Subset
  <1> QED
    BY <1>1, <1>2, <1>4, FS_CardinalityType DEF UnrecordedFailures

(* One attempt more is recorded.                                           *)
LEMMA AttemptRecorded ==
    ASSUME RetryTypeOK, NEW name \in PolicyNames, NEW delay \in Int, NEW success \in BOOLEAN,
           10 * delay <= 11 * MaxDelay \/ delay \in Elapsed,
           RecordRetryAttempt(name, delay, success)
    PROVE  /\ DOMAIN retryMetrics' \subseteq PolicyNames
           /\ \A n \in DOMAIN retryMetrics' : CountersOK(retryMetrics'[n])
           /\ \A n : Successes(n)' = Successes(n) + IF n = name /\ success THEN 1 ELSE 0
           /\ \A n : Failures(n)' = Failures(n) + IF n = name /\ ~success THEN 1 ELSE 0
  <1> DEFINE new == [attempts |-> 0, successes |-> 0, failures |-> 0, max |-> delay]
             m == IF name \in DOMAIN retryMetrics THEN retryMetrics[name] ELSE new
             next == [attempts |-> m.attempts + 1,
                      successes |-> m.successes + (IF success THEN 1 ELSE 0),
                      failures |-> m.failures + (IF success THEN 0 ELSE 1),
                      max |-> IF delay > m.max THEN delay ELSE m.max]
  <1>1. CountersOK(m)
    <2>1. CountersOK(new)
      BY DEF CountersOK, Counters
    <2> QED
      BY <2>1 DEF RetryTypeOK
  <1>2. m.successes = Successes(name) /\ m.failures = Failures(name)
    BY DEF Successes, Failures
  <1>3. retryMetrics' = [n \in DOMAIN retryMetrics \cup {name} |->
                            IF n = name THEN next ELSE retryMetrics[n]]
    BY DEF RecordRetryAttempt, With
  <1> HIDE DEF m
  <1>4. CountersOK(next)
    <2>1. next \in Counters
      BY <1>1 DEF CountersOK, Counters
    <2>2. next.attempts = next.successes + next.failures
      BY <1>1 DEF CountersOK, Counters
    <2>3. next.max \in {delay, m.max}
      OBVIOUS
    <2> QED
      BY <1>1, <2>1, <2>2, <2>3 DEF CountersOK
  <1>5. /\ next.successes = Successes(name) + (IF success THEN 1 ELSE 0)
        /\ next.failures = Failures(name) + (IF success THEN 0 ELSE 1)
    BY <1>2
  <1> HIDE DEF next
  <1>6. DOMAIN retryMetrics' = DOMAIN retryMetrics \cup {name}
    BY <1>3
  <1>7. \A n \in DOMAIN retryMetrics' : CountersOK(retryMetrics'[n])
    BY <1>3, <1>4 DEF RetryTypeOK
  <1>8. ASSUME NEW n
        PROVE  /\ Successes(n) \in Nat /\ Failures(n) \in Nat
               /\ Successes(n)' = IF n = name THEN next.successes ELSE Successes(n)
               /\ Failures(n)' = IF n = name THEN next.failures ELSE Failures(n)
    BY <1>3 DEF Successes, Failures, RetryTypeOK, CountersOK, Counters
  <1>9. ASSUME NEW n
        PROVE  /\ Successes(n)' = Successes(n) + IF n = name /\ success THEN 1 ELSE 0
               /\ Failures(n)' = Failures(n) + IF n = name /\ ~success THEN 1 ELSE 0
    BY <1>5, <1>8
  <1> QED
    BY <1>6, <1>7, <1>9 DEF RetryTypeOK

(* The elements of a sequence.                                             *)
LEMMA ElementsOf ==
    ASSUME NEW S, NEW s \in Seq(S)
    PROVE  ToSet(s) \subseteq S
  BY DEF ToSet

(* The callbacks left are the next and those after it.                     *)
LEMMA HeadAndTail ==
    ASSUME NEW S, NEW s \in Seq(S), s # <<>>
    PROVE  /\ Head(s) \in S /\ Tail(s) \in Seq(S) /\ Len(s) \in Nat \ {0}
           /\ \A n : n \in ToSet(s) <=> n = Head(s) \/ n \in ToSet(Tail(s))
           /\ Len(s) = 1 <=> Tail(s) = <<>>
           /\ Len(s) = 1 => \A n : n \notin ToSet(Tail(s))
  <1>1. Head(s) \in S /\ Tail(s) \in Seq(S) /\ Len(s) \in Nat \ {0}
    OBVIOUS
  <1>2. Len(s) = 1 <=> Tail(s) = <<>>
    <2>1. Len(Tail(s)) = Len(s) - 1
      OBVIOUS
    <2> DEFINE r == Tail(s)
    <2>2. r = <<>> <=> Len(r) = 0
      <3>1. r \in Seq(S)
        BY <1>1
      <3> HIDE DEF r
      <3> QED
        BY <3>1
    <2> QED
      BY <1>1, <2>1, <2>2
  <1>3. ASSUME NEW n
        PROVE  n \in ToSet(s) <=> n = Head(s) \/ n \in ToSet(Tail(s))
    <2>1. ASSUME n \in ToSet(s)
          PROVE  n = Head(s) \/ n \in ToSet(Tail(s))
      <3>1. PICK i \in DOMAIN s : s[i] = n
        BY <2>1 DEF ToSet
      <3>2. CASE i = 1
        BY <3>1, <3>2
      <3>3. CASE i # 1
        <4>1. i - 1 \in DOMAIN Tail(s) /\ Tail(s)[i - 1] = s[i]
          BY <3>1, <3>3
        <4> QED
          BY <3>1, <4>1 DEF ToSet
      <3> QED
        BY <3>2, <3>3
    <2>2. ASSUME n = Head(s)
          PROVE  n \in ToSet(s)
      <3>1. 1 \in DOMAIN s /\ s[1] = n
        BY <2>2
      <3> QED
        BY <3>1 DEF ToSet
    <2>3. ASSUME n \in ToSet(Tail(s))
          PROVE  n \in ToSet(s)
      <3>1. PICK i \in DOMAIN Tail(s) : Tail(s)[i] = n
        BY <2>3 DEF ToSet
      <3>2. i + 1 \in DOMAIN s /\ s[i + 1] = n
        BY <3>1
      <3> QED
        BY <3>2 DEF ToSet
    <2> QED
      BY <2>1, <2>2, <2>3
  <1>4. ASSUME Len(s) = 1, NEW n
        PROVE  n \notin ToSet(Tail(s))
    BY <1>2, <1>4 DEF ToSet
  <1> QED
    BY <1>1, <1>2, <1>3, <1>4

(* At first nothing is counted and nothing has happened.                   *)
LEMMA RetryInvInit == RetryInit => RetryInv
  <1> SUFFICES ASSUME RetryInit PROVE RetryInv
    OBVIOUS
  <1>1. \A x \in Executors : execution[x].at = "idle"
    BY DEF RetryInit, Unused
  <1>2. DOMAIN retryMetrics = {}
    BY DEF RetryInit, Nothing
  <1>3. RetryTypeOK
    <2>1. <<>> \in Seq(PolicyNames)
      OBVIOUS
    <2>2. Unused \in Execution
      BY <2>1 DEF Unused, Execution
    <2>3. execution \in [Executors -> Execution] /\ hooks \in Seq(PolicyNames)
      BY <2>1, <2>2 DEF RetryInit
    <2>4. outcomes \in [PolicyNames -> [succeeded : Nat, failed : Nat]]
      BY DEF RetryInit
    <2> QED
      BY <1>2, <2>3, <2>4 DEF RetryTypeOK
  <1>4. ChainsOK
    BY <1>1 DEF ChainsOK
  <1>5. ASSUME NEW n \in PolicyNames
        PROVE  /\ Successes(n) = 0 /\ Cardinality(Succeeding(n)) = 0
               /\ Failures(n) = 0 /\ Cardinality(Failing(n)) = 0
               /\ outcomes[n].succeeded = 0 /\ outcomes[n].failed = 0
    <2>1. Succeeding(n) = {} /\ Failing(n) = {}
      BY <1>1 DEF Succeeding, Failing
    <2>2. Successes(n) = 0 /\ Failures(n) = 0
      BY <1>2 DEF Successes, Failures
    <2> QED
      BY <2>1, <2>2, FS_EmptySet DEF RetryInit
  <1>6. RetriesCounted
    BY <1>5 DEF RetriesCounted
  <1> QED
    BY <1>3, <1>4, <1>6 DEF RetryInv

(* What has been counted depends on the metrics only, and what is pending  *)
(* on the executions only.                                                 *)
LEMMA RetryFrame ==
    /\ UNCHANGED retryMetrics =>
          \A n : Successes(n)' = Successes(n) /\ Failures(n)' = Failures(n)
    /\ UNCHANGED execution =>
          \A n : Succeeding(n)' = Succeeding(n) /\ Failing(n)' = Failing(n)
  BY DEF Successes, Failures, Succeeding, Failing

(* A callback more in front of the chain.                                  *)
LEMMA InstrumentKeeps ==
    ASSUME RetryInv, NEW name \in PolicyNames, NewInstrumentedRetryPolicy(name)
    PROVE  RetryInv'
  <1>1. /\ hooks' = <<name>> \o hooks
        /\ UNCHANGED <<execution, retryMetrics, outcomes>>
    BY DEF NewInstrumentedRetryPolicy
  <1>2. hooks \in Seq(PolicyNames)
    BY DEF RetryInv, RetryTypeOK
  <1>3. hooks' \in Seq(PolicyNames) /\ Len(hooks') = Len(hooks) + 1 /\ Len(hooks) \in Nat
    BY <1>1, <1>2
  <1>4. \A i \in DOMAIN hooks : i + 1 \in DOMAIN hooks' /\ hooks'[i + 1] = hooks[i]
    BY <1>1, <1>2
  <1>5. ToSet(hooks) \subseteq ToSet(hooks')
    BY <1>4 DEF ToSet
  <1>6. RetryTypeOK'
    BY <1>1, <1>3 DEF RetryInv, RetryTypeOK, CountersOK
  <1>7. Len(hooks') = 1 => hooks = <<>>
    BY <1>2, <1>3
  <1>8. hooks = <<>> => \A x \in Executors : execution[x].at = "idle"
    BY DEF RetryInv, ChainsOK, ToSet
  <1>9. ChainsOK'
    BY <1>1, <1>5, <1>7, <1>8 DEF RetryInv, ChainsOK
  <1>10. \A n : hooks' \in {<<>>, <<n>>} => hooks = <<>>
    <2> TAKE n
    <2>1. Len(<<>>) = 0 /\ Len(<<n>>) = 1
      OBVIOUS
    <2> QED
      BY <1>3, <1>7, <2>1
  <1>11. RetriesCounted'
    BY <1>1, <1>10, RetryFrame DEF RetryInv, RetriesCounted
  <1> QED
    BY <1>6, <1>9, <1>11 DEF RetryInv

(* An execution begins, or another attempt of it: neither has a result.    *)
LEMMA TryingKeeps ==
    ASSUME RetryInv, NEW x \in Executors, execution[x].at \in {"idle", "waiting"},
           NEW next \in Execution, next.at = "trying", next.name \in ToSet(hooks),
           execution' = [execution EXCEPT ![x] = next],
           UNCHANGED <<hooks, retryMetrics, outcomes>>
    PROVE  RetryInv'
  <1>1. execution \in [Executors -> Execution]
    BY DEF RetryInv, RetryTypeOK
  <1>2. execution'[x] = next
    BY <1>1
  <1>3. \A y \in Executors \ {x} : execution'[y] = execution[y]
    BY <1>1
  <1>4. RetryTypeOK'
    <2>1. execution' \in [Executors -> Execution]
      BY <1>1
    <2> QED
      BY <2>1 DEF RetryInv, RetryTypeOK, CountersOK
  <1>5. ChainsOK'
    BY <1>2, <1>3 DEF RetryInv, ChainsOK
  <1>6. \A n : Succeeding(n)' = Succeeding(n) /\ Failing(n)' = Failing(n)
    BY <1>2, <1>3 DEF Succeeding, Failing
  <1>7. RetriesCounted'
    BY <1>6, RetryFrame DEF RetryInv, RetriesCounted
  <1> QED
    BY <1>4, <1>5, <1>7 DEF RetryInv

(* What has happened is pending until it is recorded: one more failure.    *)
LEMMA FailureHappens ==
    ASSUME RetryInv, NEW x \in Executors, execution[x].at \in {"trying", "waiting"},
           Happened(x, "failed"), UNCHANGED <<hooks, retryMetrics>>,
           \/ execution' = [execution EXCEPT ![x].at = "failed"]
           \/ execution' = [execution EXCEPT ![x].at = "retrying", ![x].left = hooks]
    PROVE  RetryInv'
  <1> DEFINE e == execution[x]
             name == e.name
  <1>0. execution \in [Executors -> Execution] /\ hooks \in Seq(PolicyNames)
    BY DEF RetryInv, RetryTypeOK
  <1>1. /\ name \in ToSet(hooks) /\ name \in PolicyNames
        /\ outcomes \in [PolicyNames -> [succeeded : Nat, failed : Nat]]
    <2>1. name \in ToSet(hooks)
      BY DEF RetryInv, ChainsOK
    <2> QED
      BY <1>0, <2>1, ElementsOf DEF RetryInv, RetryTypeOK
  <1>2. hooks # <<>>
    BY <1>1 DEF ToSet
  <1>3. /\ execution'[x] \in Execution /\ execution'[x].name = name
        /\ \/ execution'[x].at = "failed"
           \/ execution'[x].at = "retrying" /\ execution'[x].left = hooks
    <2>1. \/ execution'[x] = [e EXCEPT !.at = "failed"]
          \/ execution'[x] = [e EXCEPT !.at = "retrying", !.left = hooks]
      BY <1>0
    <2>2. e \in Execution
      BY <1>0
    <2> HIDE DEF e
    <2> QED
      BY <1>0, <2>1, <2>2 DEF Execution
  <1>4. \A y \in Executors \ {x} : execution'[y] = execution[y]
    BY DEF RetryInv, RetryTypeOK
  <1>5. outcomes' = [outcomes EXCEPT ![name].failed = @ + 1]
    BY DEF Happened
  <1>6. RetryTypeOK'
    <2>1. execution' \in [Executors -> Execution]
      BY <1>0, <1>3
    <2>2. outcomes' \in [PolicyNames -> [succeeded : Nat, failed : Nat]]
      BY <1>1, <1>5
    <2> QED
      BY <2>1, <2>2 DEF RetryInv, RetryTypeOK, CountersOK
  <1>7. ChainsOK'
    BY <1>1, <1>2, <1>3, <1>4 DEF RetryInv, ChainsOK
  <1>8. \A n : Succeeding(n)' = Succeeding(n)
    BY <1>3, <1>4 DEF Succeeding
  <1>9. \A n : Failing(n)' = IF n = name THEN Failing(n) \cup {x} ELSE Failing(n)
    BY <1>1, <1>3, <1>4 DEF Failing
  <1>10. x \notin Failing(name)
    BY DEF Failing
  <1>11. \A n : Cardinality(Failing(n)') = Cardinality(Failing(n)) + IF n = name THEN 1 ELSE 0
    BY <1>9, <1>10, PendingIsFinite, FS_AddElement
  <1>12. \A n \in PolicyNames :
             /\ outcomes'[n].succeeded = outcomes[n].succeeded
             /\ outcomes'[n].failed = outcomes[n].failed + IF n = name THEN 1 ELSE 0
    BY <1>1, <1>5
  <1>13. RetriesCounted'
    <2> SUFFICES ASSUME NEW n \in PolicyNames
                 PROVE  /\ Successes(n)' + Cardinality(Succeeding(n)') = outcomes'[n].succeeded
                        /\ Failures(n)' + Cardinality(Failing(n)') >= outcomes'[n].failed
                        /\ hooks' \in {<<>>, <<n>>} =>
                              Failures(n)' + Cardinality(Failing(n)') = outcomes'[n].failed
      BY DEF RetriesCounted
    <2>1. Successes(n)' + Cardinality(Succeeding(n)') = outcomes'[n].succeeded
      BY <1>8, <1>12, RetryFrame DEF RetryInv, RetriesCounted
    <2> DEFINE one == IF n = name THEN 1 ELSE 0
               waiting == Cardinality(Failing(n))
    <2>2. Failures(n) \in Nat
      BY DEF RetryInv, RetryTypeOK, Failures, CountersOK, Counters
    <2>3. waiting \in Nat /\ one \in Nat /\ outcomes[n].failed \in Nat
      BY <1>1, PendingIsFinite
    <2>4. /\ Failures(n)' = Failures(n) /\ Cardinality(Failing(n)') = waiting + one
          /\ outcomes'[n].failed = outcomes[n].failed + one
      BY <1>11, <1>12, RetryFrame
    <2>5. /\ Failures(n) + waiting >= outcomes[n].failed
          /\ hooks \in {<<>>, <<n>>} => Failures(n) + waiting = outcomes[n].failed
      BY DEF RetryInv, RetriesCounted
    <2> HIDE DEF one, waiting
    <2>6. Failures(n)' + Cardinality(Failing(n)') >= outcomes'[n].failed
      BY <2>2, <2>3, <2>4, <2>5
    <2>7. hooks' \in {<<>>, <<n>>} =>
              Failures(n)' + Cardinality(Failing(n)') = outcomes'[n].failed
      BY <2>2, <2>3, <2>4, <2>5
    <2> QED
      BY <2>1, <2>6, <2>7
  <1> QED
    BY <1>6, <1>7, <1>13 DEF RetryInv

(* Or one more success.                                                    *)
LEMMA SuccessHappens ==
    ASSUME RetryInv, NEW x \in Executors, execution[x].at = "trying",
           Happened(x, "succeeded"), UNCHANGED <<hooks, retryMetrics>>,
           execution' = [execution EXCEPT ![x].at = "succeeded"]
    PROVE  RetryInv'
  <1> DEFINE e == execution[x]
             name == e.name
  <1>0. execution \in [Executors -> Execution] /\ hooks \in Seq(PolicyNames)
    BY DEF RetryInv, RetryTypeOK
  <1>1. /\ name \in ToSet(hooks) /\ name \in PolicyNames
        /\ outcomes \in [PolicyNames -> [succeeded : Nat, failed : Nat]]
    <2>1. name \in ToSet(hooks)
      BY DEF RetryInv, ChainsOK
    <2> QED
      BY <1>0, <2>1, ElementsOf DEF RetryInv, RetryTypeOK
  <1>2. execution'[x] \in Execution /\ execution'[x].name = name
        /\ execution'[x].at = "succeeded"
    <2>1. execution'[x] = [e EXCEPT !.at = "succeeded"] /\ e \in Execution
      BY <1>0
    <2> DEFINE next == execution'[x]
    <2> HIDE DEF e, next
    <2>2. next = [e EXCEPT !.at = "succeeded"]
      BY <2>1 DEF next
    <2>3. next \in Execution /\ next.name = e.name /\ next.at = "succeeded"
      BY <2>1, <2>2 DEF Execution
    <2> QED
      BY <2>3 DEF next
  <1>3. \A y \in Executors \ {x} : execution'[y] = execution[y]
    BY <1>0
  <1>4. outcomes' = [outcomes EXCEPT ![name].succeeded = @ + 1]
    BY DEF Happened
  <1>5. RetryTypeOK'
    <2>1. execution' \in [Executors -> Execution]
      BY <1>0, <1>2
    <2>2. outcomes' \in [PolicyNames -> [succeeded : Nat, failed : Nat]]
      BY <1>1, <1>4
    <2> QED
      BY <2>1, <2>2 DEF RetryInv, RetryTypeOK, CountersOK
  <1>6. ChainsOK'
    BY <1>1, <1>2, <1>3 DEF RetryInv, ChainsOK
  <1>7. \A n : Failing(n)' = Failing(n)
    BY <1>2, <1>3 DEF Failing
  <1>8. \A n : Succeeding(n)' = IF n = name THEN Succeeding(n) \cup {x} ELSE Succeeding(n)
    BY <1>2, <1>3 DEF Succeeding
  <1>9. x \notin Succeeding(name)
    BY DEF Succeeding
  <1>10. \A n : Cardinality(Succeeding(n)')
                  = Cardinality(Succeeding(n)) + IF n = name THEN 1 ELSE 0
    BY <1>8, <1>9, PendingIsFinite, FS_AddElement
  <1>11. \A n \in PolicyNames :
             /\ outcomes'[n].failed = outcomes[n].failed
             /\ outcomes'[n].succeeded = outcomes[n].succeeded + IF n = name THEN 1 ELSE 0
    BY <1>1, <1>4
  <1>12. RetriesCounted'
    <2> SUFFICES ASSUME NEW n \in PolicyNames
                 PROVE  /\ Successes(n)' + Cardinality(Succeeding(n)') = outcomes'[n].succeeded
                        /\ Failures(n)' + Cardinality(Failing(n)') >= outcomes'[n].failed
                        /\ hooks' \in {<<>>, <<n>>} =>
                              Failures(n)' + Cardinality(Failing(n)') = outcomes'[n].failed
      BY DEF RetriesCounted
    <2> DEFINE one == IF n = name THEN 1 ELSE 0
               waiting == Cardinality(Succeeding(n))
    <2>1. Successes(n) \in Nat
      BY DEF RetryInv, RetryTypeOK, Successes, CountersOK, Counters
    <2>2. waiting \in Nat /\ one \in Nat
      BY PendingIsFinite
    <2>3. /\ Successes(n)' = Successes(n) /\ Cardinality(Succeeding(n)') = waiting + one
          /\ outcomes'[n].succeeded = outcomes[n].succeeded + one
      BY <1>10, <1>11, RetryFrame
    <2>4. Successes(n) + waiting = outcomes[n].succeeded
      BY DEF RetryInv, RetriesCounted
    <2> HIDE DEF one, waiting
    <2>5. Successes(n)' + Cardinality(Succeeding(n)') = outcomes'[n].succeeded
      BY <2>1, <2>2, <2>3, <2>4
    <2> QED
      BY <1>7, <1>11, <2>5, RetryFrame DEF RetryInv, RetriesCounted
  <1> QED
    BY <1>5, <1>6, <1>12 DEF RetryInv

(* A callback records the failure for its name, which is the execution's   *)
(* own or one that shares its policy.                                      *)
LEMMA OnRetryKeeps ==
    ASSUME RetryInv, NEW x \in Executors, OnRetry(x)
    PROVE  RetryInv'
  <1> DEFINE e == execution[x]
             name == Head(e.left)
  <1>1. e \in Execution /\ e.at = "retrying" /\ e.left # <<>> /\ e.left \in Seq(PolicyNames)
    BY DEF OnRetry, RetryInv, RetryTypeOK, ChainsOK, Execution
  <1>2. /\ name \in PolicyNames /\ Tail(e.left) \in Seq(PolicyNames)
        /\ \A n : n \in ToSet(e.left) <=> n = name \/ n \in ToSet(Tail(e.left))
        /\ Len(e.left) = 1 <=> Tail(e.left) = <<>>
        /\ Len(e.left) = 1 => \A n : n \notin ToSet(Tail(e.left))
    BY <1>1, HeadAndTail
  <1>3. PICK delay \in CalculateDelay(e.attempt) : RecordRetryAttempt(name, delay, FALSE)
    BY DEF OnRetry
  <1>4. delay \in Int /\ 10 * delay <= 11 * MaxDelay
    BY <1>1, DelayIsLimited DEF Execution
  <1>5. /\ DOMAIN retryMetrics' \subseteq PolicyNames
        /\ \A n \in DOMAIN retryMetrics' : CountersOK(retryMetrics'[n])
        /\ \A n : Successes(n)' = Successes(n) + IF n = name /\ FALSE THEN 1 ELSE 0
        /\ \A n : Failures(n)' = Failures(n) + IF n = name /\ ~FALSE THEN 1 ELSE 0
    <2> HIDE DEF name
    <2>1. RetryTypeOK /\ FALSE \in BOOLEAN
      BY DEF RetryInv
    <2> QED
      BY <1>2, <1>3, <1>4, <2>1, AttemptRecorded
  <1>6. execution' = [execution EXCEPT
              ![x].left = Tail(@), ![x].at = IF Len(e.left) = 1 THEN "waiting" ELSE "retrying"]
        /\ UNCHANGED <<hooks, outcomes>>
    BY DEF OnRetry
  <1>7. execution \in [Executors -> Execution]
    BY DEF RetryInv, RetryTypeOK
  <1>8. /\ execution'[x] \in Execution /\ execution'[x].name = e.name
        /\ execution'[x].left = Tail(e.left)
        /\ execution'[x].at = IF Len(e.left) = 1 THEN "waiting" ELSE "retrying"
    <2>1. execution'[x] = [e EXCEPT !.left = Tail(e.left),
                                    !.at = IF Len(e.left) = 1 THEN "waiting" ELSE "retrying"]
      BY <1>6, <1>7
    <2> HIDE DEF e
    <2> QED
      BY <1>1, <1>2, <2>1 DEF Execution
  <1>9. \A y \in Executors \ {x} : execution'[y] = execution[y]
    BY <1>6, <1>7
  <1> HIDE DEF name
  <1>10. RetryTypeOK'
    <2>1. execution' \in [Executors -> Execution]
      BY <1>6, <1>7, <1>8
    <2> QED
      BY <1>5, <1>6, <2>1 DEF RetryInv, RetryTypeOK
  <1>11. ChainsOK'
    <2>1. e.name \in ToSet(hooks)
      BY <1>1 DEF RetryInv, ChainsOK
    <2>2. Len(hooks) = 1 => Len(e.left) = 1
      BY <1>1 DEF RetryInv, ChainsOK
    <2>3. Len(e.left) # 1 => Tail(e.left) # <<>>
      BY <1>2
    <2>4. execution'[x].at = "retrying" => Len(e.left) # 1
      BY <1>8
    <2>5. execution'[x].at = "retrying" => execution'[x].left # <<>> /\ Len(hooks) # 1
      BY <1>8, <2>2, <2>3, <2>4
    <2> HIDE DEF e
    <2> QED
      BY <1>6, <1>8, <1>9, <2>1, <2>5 DEF RetryInv, ChainsOK
  <1>12. \A n : Succeeding(n)' = Succeeding(n)
    BY <1>1, <1>8, <1>9 DEF Succeeding
  <1>13. ASSUME NEW n
         PROVE  \/ /\ Failing(n)' = Failing(n)
                   /\ ~(n = name /\ n = e.name /\ Len(e.left) = 1)
                \/ Failing(n)' = Failing(n) \ {x} /\ x \in Failing(n) /\ n = name
    <2>1. \A y \in Executors \ {x} : y \in Failing(n)' <=> y \in Failing(n)
      BY <1>9 DEF Failing
    <2>2. x \in Failing(n) <=> e.name = n /\ n \in ToSet(e.left)
      BY <1>1 DEF Failing
    <2>3. x \in Failing(n)' <=> e.name = n /\ n \in ToSet(Tail(e.left))
      BY <1>2, <1>8 DEF Failing
    <2>4. Failing(n) \subseteq Executors /\ Failing(n)' \subseteq Executors
      BY DEF Failing
    <2>5. CASE n = name /\ e.name = n /\ n \notin ToSet(Tail(e.left))
      BY <1>2, <2>1, <2>2, <2>3, <2>4, <2>5
    <2>6. CASE ~(n = name /\ e.name = n /\ n \notin ToSet(Tail(e.left)))
      <3>1. x \in Failing(n)' <=> x \in Failing(n)
        BY <1>2, <2>2, <2>3, <2>6
      <3>2. Failing(n)' = Failing(n)
        BY <2>1, <2>4, <3>1
      <3> QED
        BY <1>2, <2>6, <3>2
    <2> QED
      BY <2>5, <2>6
  <1>14. RetriesCounted'
    <2> SUFFICES ASSUME NEW n \in PolicyNames
                 PROVE  /\ Successes(n)' + Cardinality(Succeeding(n)') = outcomes'[n].succeeded
                        /\ Failures(n)' + Cardinality(Failing(n)') >= outcomes'[n].failed
                        /\ hooks' \in {<<>>, <<n>>} =>
                              Failures(n)' + Cardinality(Failing(n)') = outcomes'[n].failed
      BY DEF RetriesCounted
    <2>1. Successes(n) \in Nat /\ Failures(n) \in Nat
      BY DEF RetryInv, RetryTypeOK, Successes, Failures, CountersOK, Counters
    <2>2. Successes(n)' + Cardinality(Succeeding(n)') = outcomes'[n].succeeded
      BY <1>5, <1>6, <1>12, <2>1 DEF RetryInv, RetriesCounted
    <2> DEFINE one == IF n = name THEN 1 ELSE 0
               waiting == Cardinality(Failing(n))
               next == Cardinality(Failing(n)')
    <2>3. waiting \in Nat /\ one \in Nat /\ outcomes[n].failed \in Nat
      BY PendingIsFinite DEF RetryInv, RetryTypeOK
    <2>4. Failures(n)' = Failures(n) + one /\ outcomes'[n].failed = outcomes[n].failed
      BY <1>5, <1>6
    <2>5. /\ Failures(n) + waiting >= outcomes[n].failed
          /\ hooks \in {<<>>, <<n>>} => Failures(n) + waiting = outcomes[n].failed
      BY DEF RetryInv, RetriesCounted
    <2>6. \/ next = waiting /\ ~(n = name /\ n = e.name /\ Len(e.left) = 1)
          \/ next = waiting - 1 /\ n = name
      <3>1. x \in Failing(n) => Cardinality(Failing(n) \ {x}) = Cardinality(Failing(n)) - 1
        BY PendingIsFinite, FS_RemoveElement
      <3> QED
        BY <1>13, <3>1
    <2>7. n = name => one = 1
      OBVIOUS
    <2>8. hooks' \in {<<>>, <<n>>} => n = name /\ n = e.name /\ Len(e.left) = 1
      <3>1. e.name \in ToSet(hooks)
        BY <1>1 DEF RetryInv, ChainsOK
      <3>2. hooks # <<>>
        BY <3>1 DEF ToSet
      <3>3. ASSUME hooks = <<n>>
            PROVE  n = name /\ n = e.name /\ Len(e.left) = 1
        <4>1. Len(hooks) = 1 /\ \A m \in ToSet(hooks) : m = n
          BY <3>3 DEF ToSet
        <4>2. e.left = hooks
          BY <1>1, <4>1 DEF RetryInv, ChainsOK
        <4>3. Head(e.left) = n
          BY <3>3, <4>2
        <4> QED
          BY <3>1, <4>1, <4>2, <4>3 DEF name
      <3> QED
        BY <1>6, <3>2, <3>3
    <2> HIDE DEF one, waiting, next, e
    <2>9. Failures(n)' + next >= outcomes'[n].failed
      BY <2>1, <2>3, <2>4, <2>5, <2>6, <2>7
    <2>10. hooks' \in {<<>>, <<n>>} => Failures(n)' + next = outcomes'[n].failed
      <3> SUFFICES ASSUME hooks' \in {<<>>, <<n>>}
                   PROVE  Failures(n)' + next = outcomes'[n].failed
        OBVIOUS
      <3>1. next = waiting - 1 /\ one = 1
        BY <2>6, <2>7, <2>8
      <3>2. Failures(n) + waiting = outcomes[n].failed
        BY <1>6, <2>5
      <3> QED
        BY <2>1, <2>3, <2>4, <3>1, <3>2
    <2> QED
      BY <2>2, <2>9, <2>10 DEF next
  <1> QED
    BY <1>10, <1>11, <1>14 DEF RetryInv

(* The result of an execution is recorded, and is pending no longer.       *)
LEMMA FinalResultKeeps ==
    ASSUME RetryInv, NEW x \in Executors, RecordFinalResult(x)
    PROVE  RetryInv'
  <1> DEFINE e == execution[x]
             name == e.name
             success == e.at = "succeeded"
  <1>1. execution \in [Executors -> Execution]
    BY DEF RetryInv, RetryTypeOK
  <1>2. e \in Execution /\ e.at \in {"succeeded", "failed"} /\ name \in PolicyNames
    <2>1. e \in Execution /\ e.at \in {"succeeded", "failed"} /\ name \in ToSet(hooks)
      BY <1>1 DEF RecordFinalResult, RetryInv, ChainsOK
    <2> QED
      BY <2>1, ElementsOf DEF RetryInv, RetryTypeOK
  <1>3. PICK elapsed \in Elapsed : RecordRetryAttempt(name, elapsed, success)
    BY DEF RecordFinalResult
  <1>4. execution' = [execution EXCEPT ![x] = Unused] /\ UNCHANGED <<hooks, outcomes>>
    BY DEF RecordFinalResult
  <1>5. execution'[x] = Unused /\ \A y \in Executors \ {x} : execution'[y] = execution[y]
    BY <1>1, <1>4
  <1>6. /\ DOMAIN retryMetrics' \subseteq PolicyNames
        /\ \A n \in DOMAIN retryMetrics' : CountersOK(retryMetrics'[n])
        /\ \A n : Successes(n)' = Successes(n) + IF n = name /\ success THEN 1 ELSE 0
        /\ \A n : Failures(n)' = Failures(n) + IF n = name /\ ~success THEN 1 ELSE 0
    <2>1. RetryTypeOK /\ success \in BOOLEAN /\ elapsed \in Int
      BY RetryAssumption DEF RetryInv
    <2> HIDE DEF name, success
    <2> QED
      BY <1>2, <1>3, <2>1, AttemptRecorded
  <1>7. RetryTypeOK'
    <2>1. Unused \in Execution
      <3>1. <<>> \in Seq(PolicyNames)
        OBVIOUS
      <3> QED
        BY <3>1 DEF Unused, Execution
    <2>2. execution' \in [Executors -> Execution]
      BY <1>1, <1>4, <2>1
    <2> QED
      BY <1>4, <1>6, <2>2 DEF RetryInv, RetryTypeOK
  <1> DEFINE next == execution'[x]
  <1>13. next.at = "idle"
    <2>1. Unused.at = "idle"
      BY DEF Unused
    <2>2. next = Unused
      BY <1>5
    <2> QED
      BY <2>1, <2>2
  <1> HIDE DEF next
  <1>8. ChainsOK'
    BY <1>4, <1>5, <1>13 DEF RetryInv, ChainsOK, next
  <1>9. \A n : Succeeding(n)' = IF n = name /\ success THEN Succeeding(n) \ {x} ELSE Succeeding(n)
    <2> TAKE n
    <2>1. \A y \in Executors \ {x} : y \in Succeeding(n)' <=> y \in Succeeding(n)
      BY <1>5 DEF Succeeding
    <2>2. x \notin Succeeding(n)'
      BY <1>13 DEF Succeeding, next
    <2>3. ~(n = name /\ success) => x \notin Succeeding(n)
      BY DEF Succeeding
    <2>4. Succeeding(n) \subseteq Executors /\ Succeeding(n)' \subseteq Executors
      BY DEF Succeeding
    <2> HIDE DEF name, success
    <2> QED
      BY <2>1, <2>2, <2>3, <2>4
  <1>10. \A n : Failing(n)' = IF n = name /\ ~success THEN Failing(n) \ {x} ELSE Failing(n)
    <2> TAKE n
    <2>1. \A y \in Executors \ {x} : y \in Failing(n)' <=> y \in Failing(n)
      BY <1>5 DEF Failing
    <2>2. x \notin Failing(n)'
      BY <1>13 DEF Failing, next
    <2>3. ~(n = name /\ ~success) => x \notin Failing(n)
      BY <1>2 DEF Failing
    <2>4. Failing(n) \subseteq Executors /\ Failing(n)' \subseteq Executors
      BY DEF Failing
    <2> HIDE DEF name, success
    <2> QED
      BY <2>1, <2>2, <2>3, <2>4
  <1>11. (success => x \in Succeeding(name)) /\ (~success => x \in Failing(name))
    BY <1>2 DEF Succeeding, Failing
  <1> HIDE DEF name, success
  <1>12. RetriesCounted'
    <2> SUFFICES ASSUME NEW n \in PolicyNames
                 PROVE  /\ Successes(n)' + Cardinality(Succeeding(n)') = outcomes'[n].succeeded
                        /\ Failures(n)' + Cardinality(Failing(n)') >= outcomes'[n].failed
                        /\ hooks' \in {<<>>, <<n>>} =>
                              Failures(n)' + Cardinality(Failing(n)') = outcomes'[n].failed
      BY DEF RetriesCounted
    <2>1. Successes(n) \in Nat /\ Failures(n) \in Nat
      BY DEF RetryInv, RetryTypeOK, Successes, Failures, CountersOK, Counters
    <2> DEFINE s == Cardinality(Succeeding(n))
               f == Cardinality(Failing(n))
    <2>2. s \in Nat /\ f \in Nat
      BY PendingIsFinite
    <2>3. Cardinality(Succeeding(n)') = IF n = name /\ success THEN s - 1 ELSE s
      BY <1>9, <1>11, PendingIsFinite, FS_RemoveElement
    <2>4. Cardinality(Failing(n)') = IF n = name /\ ~success THEN f - 1 ELSE f
      BY <1>10, <1>11, PendingIsFinite, FS_RemoveElement
    <2> HIDE DEF s, f
    <2>5. Successes(n)' + Cardinality(Succeeding(n)') = Successes(n) + s
      BY <1>6, <2>1, <2>2, <2>3
    <2>6. Failures(n)' + Cardinality(Failing(n)') = Failures(n) + f
      BY <1>6, <2>1, <2>2, <2>4
    <2> QED
      BY <1>4, <2>5, <2>6 DEF RetryInv, RetriesCounted, s, f
  <1> QED
    BY <1>7, <1>8, <1>12 DEF RetryInv

(* Reset forgets what was recorded: what is pending will be counted anew.  *)
LEMMA ResetKeeps ==
    ASSUME RetryInv, Reset
    PROVE  RetryInv'
  <1>1. DOMAIN retryMetrics' = {}
    BY DEF Reset, Nothing
  <1>2. /\ outcomes' = [n \in PolicyNames |-> [succeeded |-> Cardinality(Succeeding(n)),
                                               failed |-> Cardinality(Failing(n))]]
        /\ UNCHANGED <<hooks, execution>>
    BY PendingIsFinite DEF Reset
  <1>3. outcomes' \in [PolicyNames -> [succeeded : Nat, failed : Nat]]
    BY <1>2, PendingIsFinite
  <1>4. RetryTypeOK'
    BY <1>1, <1>2, <1>3 DEF RetryInv, RetryTypeOK
  <1>5. ChainsOK'
    BY <1>2 DEF RetryInv, ChainsOK
  <1>6. \A n : Successes(n)' = 0 /\ Failures(n)' = 0
    BY <1>1 DEF Successes, Failures
  <1>7. RetriesCounted'
    BY <1>2, <1>6, RetryFrame, PendingIsFinite DEF RetriesCounted
  <1> QED
    BY <1>4, <1>5, <1>7 DEF RetryInv

(* Every step of the executions keeps the invariant.                       *)
LEMMA RetryInvNext == RetryInv /\ PoliciesNext => RetryInv'
  <1> SUFFICES ASSUME RetryInv, PoliciesNext PROVE RetryInv'
    OBVIOUS
  <1>1. ASSUME NEW x \in Executors, NEW name \in PolicyNames, ExecuteWithMetrics(x, name)
        PROVE  RetryInv'
    <2> DEFINE next == [at |-> "trying", name |-> name, attempt |-> 1, left |-> <<>>]
    <2>1. /\ name \in ToSet(hooks) /\ execution[x].at \in {"idle", "waiting"}
          /\ execution' = [execution EXCEPT ![x] = next]
          /\ UNCHANGED <<hooks, retryMetrics, outcomes>>
      BY <1>1 DEF ExecuteWithMetrics
    <2>2. next \in Execution /\ next.at = "trying" /\ next.name = name
      <3>1. <<>> \in Seq(PolicyNames)
        OBVIOUS
      <3> QED
        BY <3>1 DEF Execution
    <2> HIDE DEF next
    <2> QED
      BY <2>1, <2>2, TryingKeeps
  <1>2. ASSUME NEW x \in Executors, OperationReturns(x)
        PROVE  RetryInv'
    BY <1>2, FailureHappens, SuccessHappens DEF OperationReturns
  <1>3. ASSUME NEW x \in Executors, WaitEnds(x)
        PROVE  RetryInv'
    <2> DEFINE e == execution[x]
    <2>1. execution \in [Executors -> Execution] /\ e \in Execution
      BY DEF RetryInv, RetryTypeOK
    <2>2. e.at = "waiting" /\ UNCHANGED <<hooks, retryMetrics>>
      BY <1>3 DEF WaitEnds
    <2>3. CASE /\ execution' = [execution EXCEPT ![x].at = "trying", ![x].attempt = @ + 1]
               /\ UNCHANGED outcomes
      <3> DEFINE next == [e EXCEPT !.at = "trying", !.attempt = @ + 1]
      <3>1. execution' = [execution EXCEPT ![x] = next]
        BY <2>1, <2>3
      <3>2. next \in Execution /\ next.at = "trying" /\ next.name = e.name
        <4> DEFINE more == e.attempt + 1
        <4> HIDE DEF e
        <4>1. more \in Nat
          <5>1. e \in Execution
            BY <2>1
          <5>2. e.attempt \in Nat
            BY <5>1 DEF Execution
          <5> QED
            BY <5>2
        <4>2. next = [e EXCEPT !.at = "trying", !.attempt = more]
          OBVIOUS
        <4> HIDE DEF more, next
        <4> QED
          BY <2>1, <4>1, <4>2 DEF Execution
      <3>3. e.name \in ToSet(hooks)
        BY <2>2 DEF RetryInv, ChainsOK
      <3> HIDE DEF next
      <3> QED
        BY <2>2, <2>3, <3>1, <3>2, <3>3, TryingKeeps
    <2>4. CASE /\ execution' = [execution EXCEPT ![x].at = "failed"]
               /\ Happened(x, "failed")
      BY <2>2, <2>4, FailureHappens
    <2> QED
      BY <1>3, <2>3, <2>4 DEF WaitEnds
  <1> QED
    BY <1>1, <1>2, <1>3, InstrumentKeeps, OnRetryKeeps, FinalResultKeeps DEF PoliciesNext

-----------------------------------------------------------------------------
(* The metrics of breakers: the time one was open.                         *)

BreakerState == {"closed", "open", "half-open"}

\* While a breaker is open, its open period counts from the event that said so.
BreakerOK(b) ==
    LET m == breakerMetrics[b]
        o == openTime[b]
    IN /\ m \in [state : BreakerState, since : Int, total : Int]
       /\ o \in [first : BreakerState, time : Nat]
       /\ o.first # "open" =>
             IF m.state = "open" THEN m.since >= 0 /\ m.total + now - m.since = o.time
             ELSE m.total = o.time

BreakersInv ==
    /\ now \in Nat
    /\ DOMAIN openTime = DOMAIN breakerMetrics
    /\ \A b \in DOMAIN breakerMetrics : BreakerOK(b)

(* A caller tells the state that it saw.                                   *)
LEMMA BreakerCalledKeeps ==
    ASSUME BreakersInv, NEW b, NEW state \in BreakerState, BreakerCalled(b, state)
    PROVE  BreakersInv'
  <1> DEFINE new == [state |-> state, since |-> -1, total |-> 0]
             m == IF b \in DOMAIN breakerMetrics THEN breakerMetrics[b] ELSE new
             o == IF b \in DOMAIN openTime THEN openTime[b]
                  ELSE [first |-> state, time |-> 0]
             changed == m.state # state
             next == [state |-> state,
                      since |-> IF changed /\ state = "open" THEN now ELSE m.since,
                      total |-> IF changed /\ EndsOpenPeriod(m, state)
                                THEN m.total + now - m.since ELSE m.total]
  <1>1. /\ breakerMetrics' = With(breakerMetrics, b, next)
        /\ openTime' = With(openTime, b, o) /\ now' = now
    BY DEF BreakerCalled, RecordCircuitBreakerEvent
  <1>2. now \in Nat /\ DOMAIN openTime = DOMAIN breakerMetrics
    BY DEF BreakersInv
  <1>3. /\ m \in [state : BreakerState, since : Int, total : Int]
        /\ o \in [first : BreakerState, time : Nat]
        /\ o.first # "open" =>
              IF m.state = "open" THEN m.since >= 0 /\ m.total + now - m.since = o.time
              ELSE m.total = o.time
    <2>1. CASE b \in DOMAIN breakerMetrics
      BY <1>2, <2>1 DEF BreakersInv, BreakerOK
    <2>2. CASE b \notin DOMAIN breakerMetrics
      <3>1. m = new /\ o = [first |-> state, time |-> 0]
        BY <1>2, <2>2
      <3> HIDE DEF m, o
      <3> QED
        BY <3>1
    <2> QED
      BY <2>1, <2>2
  <1> HIDE DEF m, o
  <1>4. /\ next \in [state : BreakerState, since : Int, total : Int]
        /\ o.first # "open" =>
              IF next.state = "open"
              THEN next.since >= 0 /\ next.total + now - next.since = o.time
              ELSE next.total = o.time
    BY <1>2, <1>3 DEF EndsOpenPeriod
  <1> HIDE DEF next
  <1>5. /\ DOMAIN breakerMetrics' = DOMAIN breakerMetrics \cup {b}
        /\ DOMAIN openTime' = DOMAIN breakerMetrics \cup {b}
        /\ \A c \in DOMAIN breakerMetrics' :
              /\ breakerMetrics'[c] = IF c = b THEN next ELSE breakerMetrics[c]
              /\ openTime'[c] = IF c = b THEN o ELSE openTime[c]
    BY <1>1, <1>2 DEF With
  <1>6. ASSUME NEW c \in DOMAIN breakerMetrics'
        PROVE  BreakerOK(c)'
    <2>1. CASE c = b
      BY <1>1, <1>3, <1>4, <1>5, <2>1 DEF BreakerOK
    <2>2. CASE c # b
      <3>1. c \in DOMAIN breakerMetrics /\ BreakerOK(c)
        BY <1>5, <2>2 DEF BreakersInv
      <3> QED
        BY <1>1, <1>5, <2>2, <3>1 DEF BreakerOK
    <2> QED
      BY <2>1, <2>2
  <1> QED
    BY <1>1, <1>2, <1>5, <1>6 DEF BreakersInv

(* Time passes, for the open breakers too.                                 *)
LEMMA TimePassesKeeps ==
    ASSUME BreakersInv, TimePassesOpen
    PROVE  BreakersInv'
  <1>1. /\ now' = now + 1 /\ now \in Nat /\ UNCHANGED breakerMetrics
        /\ DOMAIN openTime = DOMAIN breakerMetrics
        /\ openTime' = [b \in DOMAIN openTime |->
               [openTime[b] EXCEPT !.time =
                    IF breakerMetrics[b].state = "open" THEN @ + 1 ELSE @]]
    BY DEF TimePassesOpen, BreakersInv
  <1>2. ASSUME NEW b \in DOMAIN breakerMetrics
        PROVE  BreakerOK(b)'
    <2> DEFINE m == breakerMetrics[b]
               o == openTime[b]
               next == [o EXCEPT !.time = IF m.state = "open" THEN @ + 1 ELSE @]
    <2>1. breakerMetrics'[b] = m /\ openTime'[b] = next
      BY <1>1
    <2>2. /\ m \in [state : BreakerState, since : Int, total : Int]
          /\ o \in [first : BreakerState, time : Nat]
          /\ o.first # "open" =>
                IF m.state = "open" THEN m.since >= 0 /\ m.total + now - m.since = o.time
                ELSE m.total = o.time
      BY DEF BreakersInv, BreakerOK
    <2> HIDE DEF m, o
    <2>3. /\ next \in [first : BreakerState, time : Nat] /\ next.first = o.first
          /\ next.time = IF m.state = "open" THEN o.time + 1 ELSE o.time
      BY <2>2
    <2> HIDE DEF next
    <2>4. next.first # "open" =>
              IF m.state = "open" THEN m.since >= 0 /\ m.total + now' - m.since = next.time
              ELSE m.total = next.time
      <3>1. /\ m.since \in Int /\ m.total \in Int /\ o.time \in Nat
            /\ now \in Nat /\ now' = now + 1
        BY <1>1, <2>2
      <3>2. CASE m.state = "open"
        BY <2>2, <2>3, <3>1, <3>2
      <3>3. CASE m.state # "open"
        BY <2>2, <2>3, <3>3
      <3> QED
        BY <3>2, <3>3
    <2> QED
      BY <2>1, <2>2, <2>3, <2>4 DEF BreakerOK
  <1> QED
    BY <1>1, <1>2 DEF BreakersInv

(* Rates that are good are deserved: nine in ten of the results that have  *)
(* been told of were successes, and of the executions no fewer.            *)
LEMMA RatesAreDeserved ==
    ASSUME RetryInv, GoodRates
    PROVE  GoodOutcomes
  <1> DEFINE seen == DOMAIN retryMetrics
             a == [n \in seen |-> retryMetrics[n].attempts]
             s == [n \in seen |-> retryMetrics[n].successes]
             f == [n \in seen |-> retryMetrics[n].failures]
             sAll == [n \in PolicyNames |-> Successes(n)]
             fAll == [n \in PolicyNames |-> Failures(n)]
             succeeded == [n \in PolicyNames |-> outcomes[n].succeeded]
             failed == [n \in PolicyNames |-> outcomes[n].failed - UnrecordedFailures(n)]
             none == [n \in PolicyNames |-> 0]
  <1>1. IsFiniteSet(PolicyNames) /\ seen \in SUBSET PolicyNames /\ IsFiniteSet(seen)
    <2>1. IsFiniteSet(PolicyNames) /\ seen \in SUBSET PolicyNames
      BY RetryAssumption DEF RetryInv, RetryTypeOK
    <2> HIDE DEF seen
    <2> QED
      BY <2>1, FS_Subset
  <1>2. /\ a \in [seen -> Int] /\ s \in [seen -> Int] /\ f \in [seen -> Int]
        /\ \A n \in seen : a[n] = s[n] + f[n]
    BY DEF RetryInv, RetryTypeOK, CountersOK, Counters
  <1>3. /\ sAll \in [PolicyNames -> Int] /\ \A n \in PolicyNames : 0 <= sAll[n]
        /\ fAll \in [PolicyNames -> Int] /\ \A n \in PolicyNames : 0 <= fAll[n]
    BY DEF RetryInv, RetryTypeOK, CountersOK, Counters, Successes, Failures
  <1>4. /\ \A n \in PolicyNames : sAll[n] = IF n \in seen THEN s[n] ELSE 0
        /\ \A n \in PolicyNames : fAll[n] = IF n \in seen THEN f[n] ELSE 0
    BY DEF Successes, Failures
  <1>5. /\ succeeded \in [PolicyNames -> Int] /\ failed \in [PolicyNames -> Int]
        /\ \A n \in PolicyNames : sAll[n] <= succeeded[n]
        /\ \A n \in PolicyNames : failed[n] <= fAll[n]
    <2>1. ASSUME NEW n \in PolicyNames
          PROVE  /\ outcomes[n].succeeded \in Int
                 /\ outcomes[n].failed - UnrecordedFailures(n) \in Int
                 /\ Successes(n) <= outcomes[n].succeeded
                 /\ outcomes[n].failed - UnrecordedFailures(n) <= Failures(n)
      <3>1. outcomes[n].succeeded \in Nat /\ outcomes[n].failed \in Nat
        BY DEF RetryInv, RetryTypeOK
      <3>2. Cardinality(Succeeding(n)) \in Nat /\ UnrecordedFailures(n) \in Nat
            /\ UnrecordedFailures(n) = Cardinality(Failing(n))
        BY PendingIsFinite
      <3>3. Successes(n) \in Nat /\ Failures(n) \in Nat
        BY DEF RetryInv, RetryTypeOK, Successes, Failures, CountersOK, Counters
      <3>4. /\ Successes(n) + Cardinality(Succeeding(n)) = outcomes[n].succeeded
            /\ Failures(n) + UnrecordedFailures(n) >= outcomes[n].failed
        BY <3>2 DEF RetryInv, RetriesCounted
      <3> QED
        BY <3>1, <3>2, <3>3, <3>4
    <2> QED
      BY <2>1
  <1>6. none \in [PolicyNames -> Int] /\ SumFunction(none) = 0
    <2>1. none \in [PolicyNames -> Int] /\ \A n \in PolicyNames : none[n] = none[n] + none[n]
      OBVIOUS
    <2> HIDE DEF none
    <2>2. SumFunction(none) \in Int
      <3>1. \A n \in PolicyNames : none[n] <= none[n]
        BY <2>1
      <3> QED
        BY <1>1, <2>1, <3>1, SumMonotone
    <2>3. SumFunction(none) = SumFunction(none) + SumFunction(none)
      BY <1>1, <2>1, SumAdds
    <2>4. \A x \in Int : x = x + x => x = 0
      OBVIOUS
    <2>5. SumFunction(none) = 0
      BY <2>2, <2>3, <2>4, Zenon
    <2> QED
      BY <2>1, <2>5, Zenon
  <1>7. \A n \in PolicyNames : none[n] <= sAll[n] /\ none[n] <= fAll[n]
    BY <1>3
  <1>8. /\ SumFunction(a) > 0
        /\ 10 * SumFunction(s) >= 9 * SumFunction(a)
    BY DEF GoodRates, GetAggregatedMetrics
  <1> HIDE DEF a, s, f, sAll, fAll, succeeded, failed, none, seen
  <1>9. SumFunction(a) = SumFunction(s) + SumFunction(f)
    BY <1>1, <1>2, SumAdds
  <1>10. SumFunction(sAll) = SumFunction(s) /\ SumFunction(fAll) = SumFunction(f)
    BY <1>1, <1>2, <1>3, <1>4, SumExtends
  <1>11. /\ SumFunction(sAll) \in Int /\ SumFunction(succeeded) \in Int
         /\ SumFunction(sAll) <= SumFunction(succeeded)
    BY <1>1, <1>3, <1>5, SumMonotone
  <1>12. /\ SumFunction(fAll) \in Int /\ SumFunction(failed) \in Int
         /\ SumFunction(failed) <= SumFunction(fAll)
    BY <1>1, <1>3, <1>5, SumMonotone
  <1>13. 0 <= SumFunction(sAll) /\ 0 <= SumFunction(fAll)
    BY <1>1, <1>3, <1>6, <1>7, SumMonotone
  <1>14. /\ 10 * SumFunction(succeeded) >= 9 * (SumFunction(succeeded) + SumFunction(failed))
         /\ SumFunction(succeeded) > 0
    BY <1>8, <1>9, <1>10, <1>11, <1>12, <1>13
  <1> QED
    BY <1>14 DEF GoodOutcomes, succeeded, failed

(* All that is told holds at every step of the executions, of the breakers *)
(* and of everything else.                                                 *)
VerdictDeserved ==
    /\ health \in [at : {"none", "retries", "told"}, healthy : BOOLEAN, deserved : BOOLEAN]
    /\ health.healthy => health.deserved

MetricsInv == RetryInv /\ BreakersInv /\ VerdictDeserved

(* A verdict is given in two steps, and only the first looks at retries.   *)
LEMMA VerdictKept ==
    ASSUME RetryInv, VerdictDeserved, GetRetryMetrics \/ GetBreakerMetrics \/ UNCHANGED health
    PROVE  VerdictDeserved'
  <1>1. CASE GetRetryMetrics
    <2>1. GoodRates \in BOOLEAN /\ GoodOutcomes \in BOOLEAN
      BY DEF GoodRates, GoodOutcomes
    <2> QED
      BY <1>1, <2>1, RatesAreDeserved DEF GetRetryMetrics, VerdictDeserved
  <1>2. CASE GetBreakerMetrics
    <2> DEFINE calm == \A b \in DOMAIN breakerMetrics : breakerMetrics[b].state # "open"
               healthy == health.healthy /\ calm
    <2>1. health' = [health EXCEPT !.at = "told", !.healthy = healthy]
      BY <1>2 DEF GetBreakerMetrics
    <2>2. healthy \in BOOLEAN /\ (healthy => health.healthy)
      OBVIOUS
    <2> HIDE DEF healthy
    <2>3. /\ health' \in [at : {"none", "retries", "told"}, healthy : BOOLEAN,
                           deserved : BOOLEAN]
          /\ health'.healthy = healthy /\ health'.deserved = health.deserved
      BY <2>1, <2>2 DEF VerdictDeserved
    <2> QED
      BY <2>2, <2>3 DEF VerdictDeserved
  <1>3. CASE UNCHANGED health
    BY <1>3 DEF VerdictDeserved
  <1> QED
    BY <1>1, <1>2, <1>3

LEMMA MetricsInvariant == RetrySpec => []MetricsInv
  <1>1. RetryInit => MetricsInv
    <2> SUFFICES ASSUME RetryInit PROVE MetricsInv
      OBVIOUS
    <2>1. DOMAIN breakerMetrics = {} /\ DOMAIN openTime = {} /\ now = 0
      BY DEF RetryInit, Nothing
    <2>2. VerdictDeserved
      BY DEF RetryInit, VerdictDeserved
    <2> QED
      BY <2>1, <2>2, RetryInvInit DEF MetricsInv, BreakersInv
  <1>2. MetricsInv /\ [RetryNext]_retryVars => MetricsInv'
    <2> SUFFICES ASSUME MetricsInv, [RetryNext]_retryVars PROVE MetricsInv'
      OBVIOUS
    <2>1. RetryNext \/ UNCHANGED retryVars
      OBVIOUS
    <2>2. CASE PoliciesNext
      <3>1. UNCHANGED <<breakerMetrics, openTime, now, health>>
        BY <2>2 DEF PoliciesNext, NewInstrumentedRetryPolicy, ExecuteWithMetrics,
                    OperationReturns, OnRetry, WaitEnds, RecordFinalResult
      <3>2. BreakersInv'
        BY <3>1 DEF MetricsInv, BreakersInv, BreakerOK
      <3> QED
        BY <2>2, <3>1, <3>2, RetryInvNext, VerdictKept DEF MetricsInv
    <2>3. CASE Reset
      <3>1. DOMAIN breakerMetrics' = {} /\ DOMAIN openTime' = {} /\ UNCHANGED <<now, health>>
        BY <2>3 DEF Reset, Nothing
      <3> QED
        BY <2>3, <3>1, ResetKeeps, VerdictKept DEF MetricsInv, BreakersInv
    <2>4. CASE UNCHANGED <<hooks, execution, retryMetrics, outcomes>>
               /\ \/ GetRetryMetrics \/ GetBreakerMetrics \/ UNCHANGED health
               /\ \/ \E b \in Breakers, state \in BreakerState : BreakerCalled(b, state)
                  \/ TimePassesOpen
                  \/ UNCHANGED <<breakerMetrics, openTime, now>>
      <3>1. RetryInv'
        BY <2>4, RetryFrame DEF MetricsInv, RetryInv, RetryTypeOK, ChainsOK,
                                RetriesCounted, CountersOK
      <3>2. UNCHANGED <<breakerMetrics, openTime, now>> => BreakersInv'
        BY DEF MetricsInv, BreakersInv, BreakerOK
      <3>3. BreakersInv'
        BY <2>4, <3>2, BreakerCalledKeeps, TimePassesKeeps DEF MetricsInv
      <3> QED
        BY <2>4, <3>1, <3>3, VerdictKept DEF MetricsInv
    <2>5. ASSUME RetryNext, ~PoliciesNext, ~Reset
          PROVE  UNCHANGED <<hooks, execution, retryMetrics, outcomes>>
                 /\ \/ GetRetryMetrics \/ GetBreakerMetrics \/ UNCHANGED health
                 /\ \/ \E b \in Breakers, state \in BreakerState : BreakerCalled(b, state)
                    \/ TimePassesOpen
                    \/ UNCHANGED <<breakerMetrics, openTime, now>>
      <3>1. CASE \E b \in Breakers, state \in BreakerState : BreakerCalled(b, state)
        BY <3>1 DEF BreakerCalled
      <3>2. CASE TimePassesOpen
        BY <3>2 DEF TimePassesOpen
      <3>3. CASE GetRetryMetrics \/ GetBreakerMetrics
        BY <3>3 DEF GetRetryMetrics, GetBreakerMetrics
      <3> QED
        BY <2>5, <3>1, <3>2, <3>3 DEF RetryNext, BreakerState
    <2>6. CASE UNCHANGED retryVars
      BY <2>4, <2>6 DEF retryVars
    <2> QED
      BY <2>1, <2>2, <2>3, <2>4, <2>5, <2>6
  <1> QED
    BY <1>1, <1>2, PTL DEF RetrySpec

(* The metrics add up at every moment: the successes and the failures of   *)
(* the executions are those counted and those still to be, the system is   *)
(* called healthy only if it deserved to be when the retries were read,    *)
(* and the time a breaker has been open is that between the events that    *)
(* said so.                                                                *)
THEOREM RetryMetricsAddUp == RetrySpec => []MetricsAddUp
  <1>1. MetricsInv => MetricsAddUp
    <2> SUFFICES ASSUME MetricsInv PROVE MetricsAddUp
      OBVIOUS
    <2>1. ASSUME NEW n \in PolicyNames
          PROVE  LET none == [attempts |-> 0, successes |-> 0, failures |-> 0]
                     m == IF n \in DOMAIN retryMetrics THEN retryMetrics[n] ELSE none
                     failures == m.failures + UnrecordedFailures(n)
                 IN /\ n \in DOMAIN retryMetrics =>
                           \/ 10 * retryMetrics[n].max <= 11 * MaxDelay
                           \/ retryMetrics[n].max \in Elapsed
                    /\ m.successes + Cardinality(Unrecorded(n, "succeeded"))
                         = outcomes[n].succeeded
                    /\ failures >= outcomes[n].failed
                    /\ hooks = <<n>> => failures = outcomes[n].failed
      <3>1. n \in DOMAIN retryMetrics => CountersOK(retryMetrics[n])
        BY DEF MetricsInv, RetryInv, RetryTypeOK
      <3>2. /\ Successes(n) + Cardinality(Unrecorded(n, "succeeded")) = outcomes[n].succeeded
            /\ Failures(n) + UnrecordedFailures(n) >= outcomes[n].failed
            /\ hooks = <<n>> => Failures(n) + UnrecordedFailures(n) = outcomes[n].failed
        BY PendingIsFinite DEF MetricsInv, RetryInv, RetriesCounted
      <3> QED
        BY <3>1, <3>2 DEF Successes, Failures, CountersOK
    <2>2. health.healthy => health.deserved
      BY DEF MetricsInv, VerdictDeserved
    <2>3. ASSUME NEW b \in DOMAIN openTime, openTime[b].first # "open"
          PROVE  GetCircuitBreakerMetrics(b) = openTime[b].time
      <3>1. BreakerOK(b) /\ now \in Nat
        BY DEF MetricsInv, BreakersInv
      <3> QED
        BY <2>3, <3>1 DEF BreakerOK, GetCircuitBreakerMetrics
    <2> QED
      BY <2>1, <2>2, <2>3 DEF MetricsAddUp
  <1> QED
    BY <1>1, MetricsInvariant, PTL

-----------------------------------------------------------------------------
(* The profiler.  The percentiles of an operation are among the durations  *)
(* that are kept of it, and in order.                                      *)

(* A set of natural numbers has a smallest element.                        *)
LEMMA MinIsMin ==
    ASSUME NEW S \in SUBSET Nat, S # {}
    PROVE  Min(S) \in S /\ \A x \in S : Min(S) <= x
  <1>1. IsWellFoundedOn(OpToRel(<, Nat), Nat)
    BY NatLessThanWellFounded
  <1>2. PICK x \in S : \A y \in S : ~ (<<y, x>> \in OpToRel(<, Nat))
    BY <1>1, WFMin, Zenon
  <1>3. \A y \in S : ~ (y < x)
    BY <1>2 DEF OpToRel
  <1>4. \A y \in S : x <= y
    BY <1>3
  <1> QED
    BY <1>4 DEF Min

\* The places of s that hold no more than d, and what has k of them.
NoMore(s, d) == {i \in DOMAIN s : s[i] <= d}
Reaching(s, k) == {d \in Range(s) : Cardinality(NoMore(s, d)) >= k}

(* Whatever place there is, something stands there when s is sorted, and   *)
(* what stands further on is no smaller.                                   *)
LEMMA RankedIsOrdered ==
    ASSUME NEW s \in Seq(Nat), NEW k \in 1..Len(s), NEW l \in k..Len(s)
    PROVE  /\ Ranked(s, k) \in Range(s) /\ Ranked(s, l) \in Range(s)
           /\ Ranked(s, k) <= Ranked(s, l)
  <1>1. Len(s) \in Nat /\ DOMAIN s = 1..Len(s) /\ Range(s) \in SUBSET Nat
    BY DEF Range
  <1>2. IsFiniteSet(DOMAIN s) /\ Cardinality(DOMAIN s) = Len(s)
    <2> DEFINE n == Len(s)
    <2>1. n \in Nat
      BY <1>1
    <2> HIDE DEF n
    <2>2. IsFiniteSet(1..n) /\ Cardinality(1..n) = IF 1 > n THEN 0 ELSE n - 1 + 1
      BY <2>1, FS_Interval
    <2>3. Cardinality(1..n) = n
      BY <2>1, <2>2
    <2> QED
      BY <1>1, <2>2, <2>3 DEF n
  <1>3. IsFiniteSet(Range(s))
    <2>1. s \in Surjection(DOMAIN s, Range(s))
      BY <1>1 DEF Surjection, Range
    <2> QED
      BY <1>2, <2>1, FS_Surjection
  <1>4. Range(s) # {}
    BY <1>1 DEF Range
  <1> DEFINE m == Max(Range(s))
  <1>5. m \in Range(s) /\ \A d \in Range(s) : d <= m
    <2>1. Range(s) \in SUBSET Int
      BY <1>1
    <2> QED
      BY <1>3, <1>4, <2>1, MaxIsMax
  <1> HIDE DEF m
  <1>6. NoMore(s, m) = DOMAIN s
    BY <1>5 DEF NoMore, Range
  <1>7. ASSUME NEW n \in 1..Len(s)
        PROVE  /\ Reaching(s, n) \in SUBSET Nat /\ Reaching(s, n) # {}
               /\ Ranked(s, n) = Min(Reaching(s, n))
    <2>1. Cardinality(NoMore(s, m)) >= n
      BY <1>1, <1>2, <1>6
    <2>2. m \in Reaching(s, n)
      BY <1>5, <2>1 DEF Reaching
    <2>3. Ranked(s, n) = Min(Reaching(s, n))
      BY DEF Ranked, Reaching, NoMore
    <2> QED
      BY <1>1, <2>2, <2>3 DEF Reaching
  <1>8. k \in Nat /\ l \in Nat /\ k <= l /\ l \in 1..Len(s)
    BY <1>1
  <1>9. Reaching(s, l) \subseteq Reaching(s, k)
    <2>1. ASSUME NEW d \in Range(s), Cardinality(NoMore(s, d)) >= l
          PROVE  Cardinality(NoMore(s, d)) >= k
      <3>1. IsFiniteSet(NoMore(s, d))
        BY <1>2, FS_Subset DEF NoMore
      <3>2. Cardinality(NoMore(s, d)) \in Nat
        BY <3>1, FS_CardinalityType
      <3> QED
        BY <1>8, <2>1, <3>2
    <2> QED
      BY <2>1 DEF Reaching
  <1>10. Ranked(s, l) \in Reaching(s, l)
    BY <1>7, <1>8, MinIsMin
  <1>11. Ranked(s, k) \in Reaching(s, k) /\ \A d \in Reaching(s, k) : Ranked(s, k) <= d
    BY <1>7, MinIsMin
  <1> QED
    BY <1>9, <1>10, <1>11 DEF Reaching

(* The percentiles of what was kept are among it, and in order.            *)
LEMMA PercentilesAreOrdered ==
    ASSUME NEW s \in Seq(Nat), s # <<>>
    PROVE  /\ Percentile(s, 50) \in Range(s) /\ Percentile(s, 95) \in Range(s)
           /\ Percentile(s, 99) \in Range(s)
           /\ Percentile(s, 50) <= Percentile(s, 95)
           /\ Percentile(s, 95) <= Percentile(s, 99)
  <1> DEFINE n == Len(s)
             a == ((n * 50) \div 100) + 1
             b == ((n * 95) \div 100) + 1
             c == ((n * 99) \div 100) + 1
  <1>1. n \in Nat /\ n > 0
    OBVIOUS
  <1>2. a \in 1..n /\ b \in 1..n /\ c \in 1..n /\ b \in a..n /\ c \in b..n
    <2> HIDE DEF n
    <2> QED
      BY <1>1
  <1>3. Percentile(s, 50) = Ranked(s, a) /\ Percentile(s, 95) = Ranked(s, b)
        /\ Percentile(s, 99) = Ranked(s, c)
    BY DEF Percentile
  <1> HIDE DEF a, b, c
  <1> QED
    BY <1>2, <1>3, RankedIsOrdered

(* An average lies between what bounds the sum.                            *)
LEMMA AverageIsBetween ==
    ASSUME NEW n \in Nat \ {0}, NEW total \in Nat, NEW lo \in Nat, NEW hi \in Nat,
           n * lo <= total, total <= n * hi
    PROVE  lo <= total \div n /\ total \div n <= hi
  OBVIOUS

(* A sum that grows by one summand stays between its bounds.               *)
LEMMA SumStaysBetween ==
    ASSUME NEW n \in Nat, NEW total \in Nat, NEW lo \in Nat, NEW hi \in Nat, NEW d \in Nat,
           n * lo <= total, total <= n * hi
    PROVE  /\ (n + 1) * Smallest(d, lo) <= total + d
           /\ total + d <= (n + 1) * Largest(d, hi)
  <1> DEFINE a == Smallest(d, lo)
             b == Largest(d, hi)
  <1>1. a \in Nat /\ b \in Nat /\ a <= lo /\ a <= d /\ hi <= b /\ d <= b
    BY DEF Smallest, Largest
  <1> HIDE DEF a, b
  <1>2. n * a <= n * lo /\ n * hi <= n * b
    BY <1>1
  <1>3. (n + 1) * a = n * a + a /\ (n + 1) * b = n * b + b
    BY <1>1
  <1>4. n * a \in Nat /\ n * b \in Nat /\ n * lo \in Nat /\ n * hi \in Nat
    BY <1>1
  <1> QED
    BY <1>1, <1>2, <1>3, <1>4 DEF a, b

(* The severities a percentile passes are those of the limits below it.    *)
LEMMA SeverityIsPassed ==
    ASSUME NEW n \in Nat, Severity(n, 1, Latencies) # 0
    PROVE  /\ n > Latencies[Severity(n, 1, Latencies)]
           /\ Latencies[Severity(n, 1, Latencies)] \in Nat
  <1> DEFINE L == Len(Latencies)
             passed == {i \in DOMAIN Latencies : n > Latencies[i] * 1}
             m == Max(passed)
  <1>1. L \in Nat /\ DOMAIN Latencies = 1..L /\ \A i \in 1..L : Latencies[i] \in Nat
    BY ProfilerAssumption
  <1>2. \A i, j \in 1..L : i < j => Latencies[i] < Latencies[j]
    BY <1>1, ProfilerAssumption
  <1>3. passed \in SUBSET Int /\ passed \in SUBSET (1..L) /\ IsFiniteSet(passed)
    <2>1. IsFiniteSet(1..L)
      BY <1>1, FS_Interval
    <2>2. passed \in SUBSET (1..L) /\ passed \in SUBSET Int
      BY <1>1
    <2> HIDE DEF passed
    <2> QED
      BY <2>1, <2>2, FS_Subset
  <1>4. Severity(n, 1, Latencies) = Cardinality(passed)
    BY DEF Severity
  <1>5. \A i \in 1..L : i \in passed <=> n > Latencies[i]
    BY <1>1
  <1> HIDE DEF passed, L
  <1>6. passed # {}
    BY <1>4, FS_EmptySet
  <1>7. m \in passed /\ \A i \in passed : i <= m
    BY <1>3, <1>6, MaxIsMax
  <1> HIDE DEF m
  <1>8. m \in 1..L /\ m \in Nat /\ m > 0 /\ n > Latencies[m]
    BY <1>1, <1>3, <1>5, <1>7
  <1>9. passed = 1..m
    <2>1. ASSUME NEW i \in 1..m
          PROVE  i \in passed
      <3>1. i \in 1..L /\ (i = m \/ i < m)
        BY <1>1, <1>8
      <3>2. Latencies[i] <= Latencies[m] /\ Latencies[i] \in Nat /\ Latencies[m] \in Nat
        BY <1>1, <1>2, <1>8, <3>1
      <3> QED
        BY <1>5, <1>8, <3>1, <3>2
    <2>2. ASSUME NEW i \in passed
          PROVE  i \in 1..m
      BY <1>1, <1>3, <1>7, <1>8
    <2> QED
      BY <2>1, <2>2
  <1>10. Cardinality(1..m) = m
    <2>1. Cardinality(1..m) = IF 1 > m THEN 0 ELSE m - 1 + 1
      BY <1>8, FS_Interval
    <2> QED
      BY <1>8, <2>1
  <1>11. Severity(n, 1, Latencies) = m
    BY <1>4, <1>9, <1>10
  <1>12. Latencies[m] \in Nat
    BY <1>1, <1>8
  <1> QED
    BY <1>8, <1>11, <1>12

\* What is kept of an operation, and what a call may be at.
TimedOperation == [count : Nat, total : Nat, min : Nat, max : Nat, errors : Nat,
                   old : BOOLEAN]
TimedCall == [at : {"idle", "error", "operation"}, name : Operations \cup {""},
              duration : Nat, failed : BOOLEAN]

CallsOK ==
    /\ calls \in [Workers -> TimedCall]
    /\ \A w \in Workers : /\ calls[w].at # "idle" => calls[w].name \in Operations
                          /\ calls[w].at = "error" => calls[w].failed

ProfilerTypeOK ==
    /\ DOMAIN operations \subseteq Operations
    /\ operations \in [DOMAIN operations -> TimedOperation]
    /\ DOMAIN durations \subseteq DOMAIN operations
    /\ durations \in [DOMAIN durations -> Seq(Nat) \ {<<>>}]
    /\ CallsOK

\* The calls whose error has been recorded and whose duration has not.
Between(name) == {w \in Workers : calls[w].at = "operation" /\ calls[w].failed
                                  /\ calls[w].name = name}

\* The sum of the durations lies between what count times the shortest and
\* the longest come to, and so does each that is kept; of an operation that
\* none is kept of, only errors are known; an error belongs to a call that
\* has been counted or is between the two records.
MeasuresOK(name) ==
    LET op == operations[name]
    IN /\ op.count * op.min <= op.total
       /\ op.total <= op.count * op.max
       /\ op.errors <= op.count + Cardinality(Between(name))
       /\ name \in DOMAIN durations =>
             /\ op.count > 0
             /\ \A d \in Range(durations[name]) : op.min <= d /\ d <= op.max
       /\ name \notin DOMAIN durations =>
             op.count = 0 /\ op.total = 0 /\ op.min = 0 /\ op.max = 0

\* A report keeps what it read, and blames what it read.
ReportOK ==
    /\ profile = [at |-> profile.at, operations |-> profile.operations,
                  peak |-> profile.peak, bottlenecks |-> profile.bottlenecks]
    /\ \A name \in DOMAIN profile.operations :
          LET m == profile.operations[name]
          IN m.p95 \in Nat /\ m.max \in Nat /\ m.p95 <= m.max
    /\ \A b \in profile.bottlenecks :
          b.type = "latency" => b.longest > Latencies[b.severity]

ProfilerInv ==
    /\ ProfilerTypeOK
    /\ \A name \in DOMAIN operations : MeasuresOK(name)
    /\ ReportOK

LEMMA ProfilerInvInit == ProfilerInit => ProfilerInv
  <1> SUFFICES ASSUME ProfilerInit PROVE ProfilerInv
    OBVIOUS
  <1>1. ProfilerTypeOK
    <2>1. DOMAIN operations = {} /\ DOMAIN durations = {}
          /\ operations = [n \in {} |-> 0] /\ durations = [n \in {} |-> 0]
      BY DEF ProfilerInit
    <2>2. Untimed \in TimedCall
      BY DEF Untimed, TimedCall
    <2>3. calls \in [Workers -> TimedCall]
      BY <2>2 DEF ProfilerInit
    <2>4. \A w \in Workers : calls[w].at = "idle"
      BY DEF ProfilerInit, Untimed
    <2> QED
      BY <2>1, <2>3, <2>4 DEF ProfilerTypeOK, CallsOK
  <1>2. ReportOK
    BY DEF ProfilerInit, ReportOK, NoProfile
  <1>3. DOMAIN operations = {}
    BY DEF ProfilerInit
  <1> QED
    BY <1>1, <1>2, <1>3 DEF ProfilerInv

(* How many calls are between their two records is a number.               *)
LEMMA BetweenIsFinite ==
    ASSUME NEW name
    PROVE  IsFiniteSet(Between(name)) /\ Cardinality(Between(name)) \in Nat
  <1>1. IsFiniteSet(Workers) /\ Between(name) \in SUBSET Workers
    BY ProfilerAssumption DEF Between
  <1> QED
    BY <1>1, FS_Subset, FS_CardinalityType

(* A call that changes moves between the two records, or away from there,  *)
(* and the other operations have the same calls there.                     *)
LEMMA BetweenChanges ==
    ASSUME calls \in [Workers -> TimedCall], NEW w \in Workers, NEW c \in TimedCall,
           calls' = [calls EXCEPT ![w] = c], NEW name
    PROVE  Cardinality(Between(name)') =
             IF c.at = "operation" /\ c.failed /\ c.name = name
             THEN IF w \in Between(name) THEN Cardinality(Between(name))
                  ELSE Cardinality(Between(name)) + 1
             ELSE IF w \in Between(name) THEN Cardinality(Between(name)) - 1
                  ELSE Cardinality(Between(name))
  <1> DEFINE B == Between(name)
             moved == c.at = "operation" /\ c.failed /\ c.name = name
  <1>1. B' = IF moved THEN B \cup {w} ELSE B \ {w}
    <2>1. \A v \in Workers : v # w => calls'[v] = calls[v]
      OBVIOUS
    <2>2. calls'[w] = c
      OBVIOUS
    <2> QED
      BY <2>1, <2>2 DEF Between
  <1>2. IsFiniteSet(B) /\ Cardinality(B) \in Nat
    BY BetweenIsFinite
  <1> HIDE DEF B
  <1>3. Cardinality(B \cup {w}) = IF w \in B THEN Cardinality(B) ELSE Cardinality(B) + 1
    BY <1>2, FS_AddElement
  <1>4. Cardinality(B \ {w}) = IF w \in B THEN Cardinality(B) - 1 ELSE Cardinality(B)
    BY <1>2, FS_RemoveElement
  <1> HIDE DEF moved
  <1>5. Cardinality(B') = IF moved
                          THEN IF w \in B THEN Cardinality(B) ELSE Cardinality(B) + 1
                          ELSE IF w \in B THEN Cardinality(B) - 1 ELSE Cardinality(B)
    BY <1>1, <1>3, <1>4
  <1> QED
    BY <1>5 DEF B, moved

(* A map to S stays one when an element of S is assigned.                  *)
LEMMA SetTyped ==
    ASSUME NEW S, NEW f, f \in [DOMAIN f -> S], NEW x, NEW value \in S
    PROVE  Set(f, x, value) \in [DOMAIN f \cup {x} -> S]
  BY DEF Set

(* What is not about the operations leaves the report as it is.            *)
LEMMA ReportKept == ReportOK /\ profile' = profile => ReportOK'
  BY DEF ReportOK

(* Recording the error of a call puts it between its two records.          *)
LEMMA TrackErrorKeeps ==
    ASSUME ProfilerInv, NEW w \in Workers, TrackError(w)
    PROVE  ProfilerInv'
  <1> PICK name : name = calls[w].name
    OBVIOUS
  <1> DEFINE none == [count |-> 0, total |-> 0, min |-> 0, max |-> 0, errors |-> 0,
                      old |-> FALSE]
             op == IF name \in DOMAIN operations THEN operations[name] ELSE none
             next == [op EXCEPT !.errors = @ + 1, !.old = FALSE]
             c == [calls[w] EXCEPT !.at = "operation"]
  <1>1. /\ ProfilerTypeOK /\ ReportOK
        /\ \A n \in DOMAIN operations : MeasuresOK(n)
    BY DEF ProfilerInv
  <1>2. /\ calls \in [Workers -> TimedCall] /\ calls[w] \in TimedCall
        /\ calls[w].at = "error" /\ calls[w].failed /\ name \in Operations
        /\ calls' = [calls EXCEPT ![w] = c]
    BY <1>1 DEF ProfilerTypeOK, CallsOK, TrackError
  <1>3. c \in TimedCall /\ c.at = "operation" /\ c.failed /\ c.name = name
    BY <1>2 DEF TimedCall
  <1>4. operations' = Set(operations, name, next) /\ durations' = durations
        /\ profile' = profile
    BY DEF TrackError
  <1>5. op \in TimedOperation
    BY <1>1 DEF ProfilerTypeOK, TimedOperation
  <1> HIDE DEF op
  <1>6. /\ next \in TimedOperation /\ next.errors = op.errors + 1
        /\ next.count = op.count /\ next.total = op.total
        /\ next.min = op.min /\ next.max = op.max
    <2>1. next \in TimedOperation
      <3> DEFINE e == op.errors + 1
      <3>1. e \in Nat
        BY <1>5 DEF TimedOperation
      <3> HIDE DEF e
      <3>2. [op EXCEPT !.errors = e, !.old = FALSE] \in TimedOperation
        BY <1>5, <3>1 DEF TimedOperation
      <3> QED
        BY <3>2 DEF e
    <2>2. next.errors = op.errors + 1
      BY <1>5 DEF TimedOperation
    <2>3. next.count = op.count /\ next.total = op.total
      BY <1>5 DEF TimedOperation
    <2>4. next.min = op.min /\ next.max = op.max
      BY <1>5 DEF TimedOperation
    <2> QED
      BY <2>1, <2>2, <2>3, <2>4
  <1> HIDE DEF next, c
  <1>7. /\ DOMAIN operations' = DOMAIN operations \cup {name}
        /\ operations' \in [DOMAIN operations' -> TimedOperation]
        /\ operations'[name] = next
        /\ \A n \in DOMAIN operations : n # name => operations'[n] = operations[n]
    <2>1. operations \in [DOMAIN operations -> TimedOperation]
      BY <1>1 DEF ProfilerTypeOK
    <2> DEFINE f == Set(operations, name, next)
    <2>2. f \in [DOMAIN operations \cup {name} -> TimedOperation]
      BY <1>6, <2>1, SetTyped
    <2>3. /\ DOMAIN f = DOMAIN operations \cup {name} /\ f[name] = next
          /\ \A n \in DOMAIN operations : n # name => f[n] = operations[n]
      BY DEF Set
    <2> HIDE DEF f
    <2>4. operations' = f
      BY <1>4 DEF f
    <2> QED
      BY <2>2, <2>3, <2>4
  <1>8. CallsOK'
    <2>1. \A v \in Workers : v # w => calls'[v] = calls[v]
      BY <1>2
    <2>2. calls'[w] = c
      BY <1>2
    <2>3. calls' \in [Workers -> TimedCall]
      BY <1>2, <1>3
    <2>4. ASSUME NEW v \in Workers
          PROVE  /\ calls'[v].at # "idle" => calls'[v].name \in Operations
                 /\ calls'[v].at = "error" => calls'[v].failed
      BY <1>1, <1>2, <1>3, <2>1, <2>2 DEF ProfilerTypeOK, CallsOK
    <2> QED
      BY <2>3, <2>4 DEF CallsOK
  <1>9. ProfilerTypeOK'
    <2>1. DOMAIN operations' \subseteq Operations /\ DOMAIN durations' \subseteq DOMAIN operations'
      BY <1>1, <1>2, <1>4, <1>7 DEF ProfilerTypeOK
    <2>2. durations' \in [DOMAIN durations' -> Seq(Nat) \ {<<>>}]
      BY <1>1, <1>4 DEF ProfilerTypeOK
    <2> QED
      BY <1>7, <1>8, <2>1, <2>2 DEF ProfilerTypeOK
  <1>10. w \notin Between(name)
    BY <1>2 DEF Between
  <1>11. \A n : w \notin Between(n)
    BY <1>2 DEF Between
  <1>12. /\ Cardinality(Between(name)') = Cardinality(Between(name)) + 1
         /\ \A n : n # name => Cardinality(Between(n)') = Cardinality(Between(n))
    <2> QED
      BY <1>2, <1>3, <1>11, BetweenChanges
  <1>13. MeasuresOK(name)'
    <2>1. Cardinality(Between(name)) \in Nat
      BY BetweenIsFinite
    <2>2. /\ op.count * op.min <= op.total /\ op.total <= op.count * op.max
          /\ op.errors <= op.count + Cardinality(Between(name))
      <3>1. CASE name \in DOMAIN operations
        BY <1>1, <3>1 DEF MeasuresOK, op
      <3>2. CASE name \notin DOMAIN operations
        BY <2>1, <3>2 DEF op
      <3> QED
        BY <3>1, <3>2
    <2>3. name \in DOMAIN durations =>
              /\ op.count > 0
              /\ \A d \in Range(durations[name]) : op.min <= d /\ d <= op.max
      BY <1>1 DEF MeasuresOK, ProfilerTypeOK, op
    <2>4. name \notin DOMAIN durations =>
              op.count = 0 /\ op.total = 0 /\ op.min = 0 /\ op.max = 0
      BY <1>1 DEF MeasuresOK, op
    <2>5. op.count \in Nat /\ op.errors \in Nat
      BY <1>5 DEF TimedOperation
    <2>6. next.errors <= next.count + Cardinality(Between(name)')
      BY <1>6, <1>12, <2>1, <2>2, <2>5
    <2> QED
      BY <1>4, <1>6, <1>7, <2>2, <2>3, <2>4, <2>6 DEF MeasuresOK
  <1>14. ASSUME NEW n \in DOMAIN operations, n # name
         PROVE  MeasuresOK(n)'
    <2>1. MeasuresOK(n)
      BY <1>1
    <2>2. operations'[n] = operations[n] /\ Cardinality(Between(n)') = Cardinality(Between(n))
      BY <1>7, <1>12, <1>14
    <2> QED
      BY <1>4, <2>1, <2>2 DEF MeasuresOK
  <1>15. ReportOK'
    BY <1>1, <1>4, ReportKept
  <1> QED
    BY <1>7, <1>9, <1>13, <1>14, <1>15 DEF ProfilerInv

(* What is kept of the durations has the new one and none but those before.*)
LEMMA DurationKept ==
    ASSUME NEW s \in Seq(Nat), NEW d \in Nat
    PROVE  /\ Lately(Append(s, d)) \in Seq(Nat) \ {<<>>}
           /\ Range(Lately(Append(s, d))) \subseteq Range(s) \cup {d}
  <1> DEFINE t == Append(s, d)
             n == Len(s)
  <1>1. n \in Nat /\ t \in Seq(Nat) /\ Len(t) = n + 1 /\ Samples \in Nat \ {0}
    BY ProfilerAssumption
  <1>2. Range(t) \subseteq Range(s) \cup {d}
    <2>1. ASSUME NEW i \in 1..n + 1
          PROVE  t[i] \in Range(s) \cup {d}
      <3>1. CASE i = n + 1
        BY <1>1, <3>1
      <3>2. CASE i # n + 1
        <4>1. i \in 1..n
          BY <1>1, <3>2
        <4> QED
          BY <4>1 DEF Range
      <3> QED
        BY <3>1, <3>2
    <2> QED
      BY <1>1, <2>1 DEF Range
  <1>3. t # <<>>
    BY <1>1
  <1> HIDE DEF t
  <1>4. CASE Len(t) <= Samples
    BY <1>1, <1>2, <1>3, <1>4 DEF Lately, t
  <1>5. CASE ~(Len(t) <= Samples)
    <2>1. Len(t) >= 2
      BY <1>1, <1>5
    <2>2. Tail(t) \in Seq(Nat) /\ Len(Tail(t)) = Len(t) - 1
      BY <1>1, <1>3
    <2>3. \A i \in 1..Len(t) - 1 : Tail(t)[i] = t[i + 1]
      BY <1>1, <1>3
    <2>4. Range(Tail(t)) \subseteq Range(t)
      BY <1>1, <2>2, <2>3 DEF Range
    <2>5. Tail(t) # <<>>
      <3> DEFINE r == Tail(t)
      <3>1. r \in Seq(Nat) /\ Len(r) >= 1
        BY <1>1, <2>1, <2>2
      <3> HIDE DEF r
      <3>2. r # <<>>
        BY <3>1
      <3> QED
        BY <3>2 DEF r
    <2> QED
      BY <1>2, <1>5, <2>2, <2>4, <2>5 DEF Lately, t
  <1> QED
    BY <1>4, <1>5

(* Recording the duration of a call counts it.                             *)
LEMMA TrackOperationKeeps ==
    ASSUME ProfilerInv, NEW w \in Workers, TrackOperation(w)
    PROVE  ProfilerInv'
  <1> PICK name : name = calls[w].name
    OBVIOUS
  <1> PICK d : d = calls[w].duration
    OBVIOUS
  <1> DEFINE none == [count |-> 0, total |-> 0, min |-> d, max |-> d, errors |-> 0,
                      old |-> FALSE]
             op == IF name \in DOMAIN operations THEN operations[name] ELSE none
             before == IF name \in DOMAIN durations THEN durations[name] ELSE <<>>
             next == [op EXCEPT !.count = @ + 1, !.total = @ + d, !.min = Smallest(d, @),
                                !.max = Largest(d, @), !.old = FALSE]
             kept == Lately(Append(before, d))
  <1>1. /\ ProfilerTypeOK /\ ReportOK
        /\ \A n \in DOMAIN operations : MeasuresOK(n)
    BY DEF ProfilerInv
  <1>2. /\ calls \in [Workers -> TimedCall] /\ calls[w] \in TimedCall
        /\ calls[w].at = "operation" /\ name \in Operations /\ d \in Nat
        /\ calls' = [calls EXCEPT ![w] = Untimed]
    <2>1. calls \in [Workers -> TimedCall] /\ calls[w] \in TimedCall
      BY <1>1 DEF ProfilerTypeOK, CallsOK
    <2>2. calls[w].at = "operation" /\ calls' = [calls EXCEPT ![w] = Untimed]
      BY DEF TrackOperation
    <2>3. name \in Operations
      BY <1>1, <2>2 DEF ProfilerTypeOK, CallsOK
    <2>4. d \in Nat
      BY <2>1 DEF TimedCall
    <2> QED
      BY <2>1, <2>2, <2>3, <2>4
  <1>3. Untimed \in TimedCall /\ Untimed.at = "idle"
    BY DEF Untimed, TimedCall
  <1>4. operations' = Set(operations, name, next) /\ durations' = Set(durations, name, kept)
        /\ profile' = profile
    BY DEF TrackOperation
  <1>5. op \in TimedOperation
    BY <1>1, <1>2 DEF ProfilerTypeOK, TimedOperation
  <1> HIDE DEF op
  <1> DEFINE lo == Smallest(d, op.min)
             hi == Largest(d, op.max)
  <1>6. /\ op.count \in Nat /\ op.total \in Nat /\ op.min \in Nat /\ op.max \in Nat
        /\ op.errors \in Nat
    BY <1>5 DEF TimedOperation
  <1>7. lo \in Nat /\ hi \in Nat /\ lo <= d /\ d <= hi /\ lo <= op.min /\ op.max <= hi
    BY <1>2, <1>6 DEF Smallest, Largest
  <1>8. /\ next \in TimedOperation /\ next.errors = op.errors
        /\ next.count = op.count + 1 /\ next.total = op.total + d
        /\ next.min = lo /\ next.max = hi
    <2> DEFINE count == op.count + 1
               total == op.total + d
    <2>1. count \in Nat /\ total \in Nat
      BY <1>2, <1>6
    <2> HIDE DEF count, total, lo, hi
    <2> DEFINE e == [op EXCEPT !.count = count, !.total = total, !.min = lo, !.max = hi,
                               !.old = FALSE]
    <2>2. e \in TimedOperation
      BY <1>5, <1>7, <2>1 DEF TimedOperation
    <2>3. e.errors = op.errors
      BY <1>5 DEF TimedOperation
    <2>4. e.count = count /\ e.total = total
      BY <1>5 DEF TimedOperation
    <2>5. e.min = lo /\ e.max = hi
      BY <1>5 DEF TimedOperation
    <2>6. next = e
      BY DEF count, total, lo, hi
    <2> HIDE DEF e, next
    <2> QED
      BY <2>2, <2>3, <2>4, <2>5, <2>6 DEF count, total
  <1> HIDE DEF next, lo, hi
  <1>9. /\ DOMAIN operations' = DOMAIN operations \cup {name}
        /\ operations' \in [DOMAIN operations' -> TimedOperation]
        /\ operations'[name] = next
        /\ \A n \in DOMAIN operations : n # name => operations'[n] = operations[n]
    <2>1. operations \in [DOMAIN operations -> TimedOperation]
      BY <1>1 DEF ProfilerTypeOK
    <2> DEFINE f == Set(operations, name, next)
    <2>2. f \in [DOMAIN operations \cup {name} -> TimedOperation]
      BY <1>8, <2>1, SetTyped
    <2>3. /\ DOMAIN f = DOMAIN operations \cup {name} /\ f[name] = next
          /\ \A n \in DOMAIN operations : n # name => f[n] = operations[n]
      BY DEF Set
    <2> HIDE DEF f
    <2>4. operations' = f
      BY <1>4 DEF f
    <2> QED
      BY <2>2, <2>3, <2>4
  <1>10. before \in Seq(Nat)
    BY <1>1 DEF ProfilerTypeOK
  <1> HIDE DEF before
  <1>11. kept \in Seq(Nat) \ {<<>>} /\ Range(kept) \subseteq Range(before) \cup {d}
    <2>1. d \in Nat
      BY <1>2
    <2>2. kept \in Seq(Nat) \ {<<>>}
      BY <1>10, <2>1, DurationKept, Zenon
    <2>3. Range(kept) \subseteq Range(before) \cup {d}
      BY <1>10, <2>1, DurationKept, Zenon
    <2> QED
      BY <2>2, <2>3
  <1> HIDE DEF kept
  <1>12. /\ DOMAIN durations' = DOMAIN durations \cup {name}
         /\ durations' \in [DOMAIN durations' -> Seq(Nat) \ {<<>>}]
         /\ durations'[name] = kept
         /\ \A n \in DOMAIN durations : n # name => durations'[n] = durations[n]
    <2>1. durations \in [DOMAIN durations -> Seq(Nat) \ {<<>>}]
      BY <1>1 DEF ProfilerTypeOK
    <2> DEFINE f == Set(durations, name, kept)
    <2>2. f \in [DOMAIN durations \cup {name} -> Seq(Nat) \ {<<>>}]
      BY <1>11, <2>1, SetTyped
    <2>3. /\ DOMAIN f = DOMAIN durations \cup {name} /\ f[name] = kept
          /\ \A n \in DOMAIN durations : n # name => f[n] = durations[n]
      BY DEF Set
    <2> HIDE DEF f
    <2>4. durations' = f
      BY <1>4 DEF f
    <2> QED
      BY <2>2, <2>3, <2>4
  <1>13. CallsOK'
    <2>1. \A v \in Workers : v # w => calls'[v] = calls[v]
      BY <1>2
    <2>2. calls'[w] = Untimed
      BY <1>2
    <2>3. calls' \in [Workers -> TimedCall]
      BY <1>2, <1>3
    <2>4. ASSUME NEW v \in Workers
          PROVE  /\ calls'[v].at # "idle" => calls'[v].name \in Operations
                 /\ calls'[v].at = "error" => calls'[v].failed
      BY <1>1, <1>2, <1>3, <2>1, <2>2 DEF ProfilerTypeOK, CallsOK
    <2> QED
      BY <2>3, <2>4 DEF CallsOK
  <1>14. ProfilerTypeOK'
    <2>1. DOMAIN operations' \subseteq Operations /\ DOMAIN durations' \subseteq DOMAIN operations'
      BY <1>1, <1>2, <1>9, <1>12 DEF ProfilerTypeOK
    <2> QED
      BY <1>9, <1>12, <1>13, <2>1 DEF ProfilerTypeOK
  <1>15. \A n : w \in Between(n) => n = name
    BY <1>2 DEF Between
  <1>16. \A n : Cardinality(Between(n)') = IF w \in Between(n) THEN Cardinality(Between(n)) - 1
                                           ELSE Cardinality(Between(n))
    BY <1>2, <1>3, BetweenChanges
  <1>17. MeasuresOK(name)'
    <2>1. Cardinality(Between(name)) \in Nat /\ Cardinality(Between(name)') \in Nat
          /\ Cardinality(Between(name)') >= Cardinality(Between(name)) - 1
      <3>1. Cardinality(Between(name)) \in Nat
        BY BetweenIsFinite
      <3>2. w \in Between(name) => Cardinality(Between(name)) # 0
        BY BetweenIsFinite, FS_EmptySet
      <3> QED
        BY <1>16, <3>1, <3>2
    <2>2. /\ op.count * op.min <= op.total /\ op.total <= op.count * op.max
          /\ op.errors <= op.count + Cardinality(Between(name))
      <3>1. CASE name \in DOMAIN operations
        BY <1>1, <3>1 DEF MeasuresOK, op
      <3>2. CASE name \notin DOMAIN operations
        <4>1. op.count = 0 /\ op.total = 0 /\ op.errors = 0
          BY <3>2 DEF op
        <4> QED
          BY <1>6, <2>1, <4>1
      <3> QED
        BY <3>1, <3>2
    <2>3. /\ next.count * next.min <= next.total /\ next.total <= next.count * next.max
      <3>1. /\ (op.count + 1) * lo <= op.total + d
            /\ op.total + d <= (op.count + 1) * hi
        BY <1>2, <1>6, <2>2, SumStaysBetween DEF lo, hi
      <3> QED
        BY <1>8, <3>1
    <2>4. next.errors <= next.count + Cardinality(Between(name)')
      BY <1>6, <1>8, <2>1, <2>2
    <2>5. ASSUME NEW x \in Range(kept)
          PROVE  next.min <= x /\ x <= next.max
      <3>1. CASE x = d
        BY <1>7, <1>8, <3>1
      <3>2. CASE x \in Range(before)
        <4>1. name \in DOMAIN durations /\ before = durations[name]
          <5>1. Range(<<>>) = {}
            BY DEF Range
          <5> QED
            BY <3>2, <5>1 DEF before
        <4>2. name \in DOMAIN operations /\ op = operations[name]
          BY <1>1, <4>1 DEF ProfilerTypeOK, op
        <4>3. op.min <= x /\ x <= op.max
          BY <1>1, <3>2, <4>1, <4>2 DEF MeasuresOK
        <4>4. x \in Nat
          BY <1>10, <3>2 DEF Range
        <4> QED
          BY <1>6, <1>7, <1>8, <4>3, <4>4
      <3> QED
        BY <1>11, <3>1, <3>2
    <2>6. next.count > 0
      BY <1>6, <1>8
    <2>7. name \in DOMAIN durations'
      BY <1>12
    <2> QED
      BY <1>9, <1>12, <2>3, <2>4, <2>5, <2>6, <2>7 DEF MeasuresOK
  <1>18. ASSUME NEW n \in DOMAIN operations, n # name
         PROVE  MeasuresOK(n)'
    <2>1. MeasuresOK(n)
      BY <1>1
    <2>2. operations'[n] = operations[n] /\ Cardinality(Between(n)') = Cardinality(Between(n))
      BY <1>9, <1>15, <1>16, <1>18
    <2>3. /\ n \in DOMAIN durations' <=> n \in DOMAIN durations
          /\ n \in DOMAIN durations => durations'[n] = durations[n]
      BY <1>12, <1>18
    <2> QED
      BY <2>1, <2>2, <2>3 DEF MeasuresOK
  <1>19. ReportOK'
    BY <1>1, <1>4, ReportKept
  <1> QED
    BY <1>9, <1>14, <1>17, <1>18, <1>19 DEF ProfilerInv

(* The time that passes makes operations old.                              *)
LEMMA TwentyFourHoursKeep ==
    ASSUME ProfilerInv, TwentyFourHoursPass
    PROVE  ProfilerInv'
  <1>1. /\ ProfilerTypeOK /\ ReportOK
        /\ \A n \in DOMAIN operations : MeasuresOK(n)
    BY DEF ProfilerInv
  <1>2. /\ operations' = [n \in DOMAIN operations |-> [operations[n] EXCEPT !.old = TRUE]]
        /\ durations' = durations /\ calls' = calls /\ profile' = profile
    BY DEF TwentyFourHoursPass
  <1>3. ASSUME NEW n \in DOMAIN operations
        PROVE  /\ operations'[n] \in TimedOperation
               /\ operations'[n].count = operations[n].count
               /\ operations'[n].total = operations[n].total
               /\ operations'[n].min = operations[n].min
               /\ operations'[n].max = operations[n].max
               /\ operations'[n].errors = operations[n].errors
    <2> PICK op : op = operations[n]
      OBVIOUS
    <2> DEFINE e == [op EXCEPT !.old = TRUE]
    <2>1. op \in TimedOperation
      BY <1>1 DEF ProfilerTypeOK
    <2>2. e \in TimedOperation
      BY <2>1 DEF TimedOperation
    <2>3. e.count = op.count /\ e.total = op.total
      BY <2>1 DEF TimedOperation
    <2>4. e.min = op.min /\ e.max = op.max
      BY <2>1 DEF TimedOperation
    <2>5. e.errors = op.errors
      BY <2>1 DEF TimedOperation
    <2>6. operations'[n] = e
      BY <1>2
    <2> HIDE DEF e
    <2> QED
      BY <2>2, <2>3, <2>4, <2>5, <2>6
  <1>4. DOMAIN operations' = DOMAIN operations
        /\ operations' \in [DOMAIN operations' -> TimedOperation]
    BY <1>2, <1>3
  <1>5. ProfilerTypeOK'
    BY <1>1, <1>2, <1>4 DEF ProfilerTypeOK, CallsOK
  <1>6. ASSUME NEW n \in DOMAIN operations
        PROVE  MeasuresOK(n)'
    <2>1. MeasuresOK(n)
      BY <1>1
    <2>2. Between(n)' = Between(n)
      BY <1>2 DEF Between
    <2> QED
      BY <1>2, <1>3, <2>1, <2>2 DEF MeasuresOK
  <1>7. ReportOK'
    BY <1>1, <1>2, ReportKept
  <1> QED
    BY <1>4, <1>5, <1>6, <1>7 DEF ProfilerInv

(* The cleanup forgets an operation with all that is known of it.          *)
LEMMA PerformCleanupKeeps ==
    ASSUME ProfilerInv, PerformCleanup
    PROVE  ProfilerInv'
  <1>1. /\ ProfilerTypeOK /\ ReportOK
        /\ \A n \in DOMAIN operations : MeasuresOK(n)
    BY DEF ProfilerInv
  <1>2. /\ operations' = Without(operations, Outdated)
        /\ durations' = Without(durations, Outdated)
        /\ calls' = calls /\ profile' = profile
    BY DEF PerformCleanup
  <1>3. /\ DOMAIN operations' = DOMAIN operations \ Outdated
        /\ \A n \in DOMAIN operations' : operations'[n] = operations[n]
        /\ operations' = [n \in DOMAIN operations \ Outdated |-> operations[n]]
    BY <1>2 DEF Without
  <1>4. /\ DOMAIN durations' = DOMAIN durations \ Outdated
        /\ \A n \in DOMAIN durations' : durations'[n] = durations[n]
        /\ durations' = [n \in DOMAIN durations \ Outdated |-> durations[n]]
    BY <1>2 DEF Without
  <1>5. ProfilerTypeOK'
    <2>1. operations' \in [DOMAIN operations' -> TimedOperation]
      BY <1>1, <1>3 DEF ProfilerTypeOK
    <2>2. durations' \in [DOMAIN durations' -> Seq(Nat) \ {<<>>}]
      BY <1>1, <1>4 DEF ProfilerTypeOK
    <2>3. DOMAIN operations' \subseteq Operations /\ DOMAIN durations' \subseteq DOMAIN operations'
      BY <1>1, <1>3, <1>4 DEF ProfilerTypeOK
    <2>4. CallsOK'
      BY <1>1, <1>2 DEF ProfilerTypeOK, CallsOK
    <2> QED
      BY <2>1, <2>2, <2>3, <2>4 DEF ProfilerTypeOK
  <1>6. ASSUME NEW n \in DOMAIN operations'
        PROVE  MeasuresOK(n)'
    <2>1. MeasuresOK(n) /\ operations'[n] = operations[n]
      BY <1>1, <1>3
    <2>2. Between(n)' = Between(n)
      BY <1>2 DEF Between
    <2>3. /\ n \in DOMAIN durations' <=> n \in DOMAIN durations
          /\ n \in DOMAIN durations' => durations'[n] = durations[n]
      BY <1>3, <1>4
    <2> QED
      BY <2>1, <2>2, <2>3 DEF MeasuresOK
  <1>7. ReportOK'
    BY <1>1, <1>2, ReportKept
  <1> QED
    BY <1>5, <1>6, <1>7 DEF ProfilerInv

(* A call that begins is not yet between its two records.                  *)
LEMMA TrackedCallKeeps ==
    ASSUME ProfilerInv, NEW w \in Workers, NEW name \in Operations, NEW d \in Durations,
           NEW failed \in BOOLEAN, TrackOperationWithContext(w, name, d, failed)
    PROVE  ProfilerInv'
  <1> DEFINE at == IF failed THEN "error" ELSE "operation"
             c == [at |-> at, name |-> name, duration |-> d, failed |-> failed]
  <1>1. /\ ProfilerTypeOK /\ ReportOK
        /\ \A n \in DOMAIN operations : MeasuresOK(n)
    BY DEF ProfilerInv
  <1>2. /\ operations' = operations /\ durations' = durations /\ profile' = profile
        /\ calls[w].at = "idle" /\ calls' = [calls EXCEPT ![w] = c]
    BY DEF TrackOperationWithContext
  <1>3. calls \in [Workers -> TimedCall]
    BY <1>1 DEF ProfilerTypeOK, CallsOK
  <1>4. c \in TimedCall
    <2>1. at \in {"idle", "error", "operation"} /\ d \in Nat
      BY ProfilerAssumption
    <2> HIDE DEF at
    <2> QED
      BY <2>1 DEF TimedCall
  <1>5. /\ c.name = name
        /\ c.at = "error" => c.failed
        /\ c.at = "operation" => ~c.failed
    OBVIOUS
  <1> HIDE DEF c
  <1>6. \A n : Cardinality(Between(n)') = Cardinality(Between(n))
    <2>1. \A n : w \notin Between(n)
      BY <1>2 DEF Between
    <2> QED
      BY <1>2, <1>3, <1>4, <1>5, <2>1, BetweenChanges
  <1>7. CallsOK'
    <2>1. \A v \in Workers : v # w => calls'[v] = calls[v]
      BY <1>2, <1>3
    <2>2. calls'[w] = c
      BY <1>2, <1>3
    <2>3. calls' \in [Workers -> TimedCall]
      BY <1>2, <1>3, <1>4
    <2>4. ASSUME NEW v \in Workers
          PROVE  /\ calls'[v].at # "idle" => calls'[v].name \in Operations
                 /\ calls'[v].at = "error" => calls'[v].failed
      <3>1. CASE v = w
        <4>1. c.name \in Operations
          BY <1>5
        <4>2. calls'[v] = c
          BY <2>2, <3>1
        <4>3. calls'[v].at = "error" => calls'[v].failed
          BY <1>5, <4>2, Zenon
        <4> QED
          BY <4>1, <4>2, <4>3
      <3>2. CASE v # w
        BY <1>1, <2>1, <3>2 DEF ProfilerTypeOK, CallsOK
      <3> QED
        BY <3>1, <3>2
    <2> QED
      BY <2>3, <2>4 DEF CallsOK
  <1>8. ProfilerTypeOK'
    BY <1>1, <1>2, <1>7 DEF ProfilerTypeOK
  <1>9. ASSUME NEW n \in DOMAIN operations
        PROVE  MeasuresOK(n)'
    BY <1>1, <1>2, <1>6 DEF MeasuresOK
  <1>10. ReportOK'
    BY <1>1, <1>2, ReportKept
  <1> QED
    BY <1>2, <1>8, <1>9, <1>10 DEF ProfilerInv

(* What is told of an operation is in order: an average and percentiles    *)
(* between the shortest and the longest duration.                          *)
LEMMA MetricsInOrder ==
    ASSUME ProfilerTypeOK, NEW name \in DOMAIN operations, MeasuresOK(name)
    PROVE  LET m == GetOperationMetrics(name)
           IN /\ m.min <= m.p50 /\ m.p50 <= m.p95 /\ m.p95 <= m.p99 /\ m.p99 <= m.max
              /\ m.min <= m.avg /\ m.avg <= m.max
              /\ m.p95 <= m.max /\ m.p95 \in Nat /\ m.max \in Nat
              /\ m.errors = operations[name].errors /\ m.count = operations[name].count
  <1> DEFINE op == operations[name]
             m == GetOperationMetrics(name)
             s == durations[name]
             known == name \in DOMAIN durations
             avg == IF op.count > 0 THEN op.total \div op.count ELSE 0
             P(p) == IF known THEN Percentile(s, p) ELSE 0
  <1>1. m = [count |-> op.count, errors |-> op.errors, min |-> op.min, max |-> op.max,
             avg |-> avg, p50 |-> P(50), p95 |-> P(95), p99 |-> P(99)]
    BY DEF GetOperationMetrics
  <1>2. /\ op.count \in Nat /\ op.total \in Nat /\ op.min \in Nat /\ op.max \in Nat
    BY DEF ProfilerTypeOK, TimedOperation
  <1>3. /\ op.count * op.min <= op.total /\ op.total <= op.count * op.max
        /\ known => op.count > 0
        /\ known => \A d \in Range(s) : op.min <= d /\ d <= op.max
        /\ ~known => op.count = 0 /\ op.total = 0 /\ op.min = 0 /\ op.max = 0
    BY DEF MeasuresOK
  <1>4. /\ m.min = op.min /\ m.max = op.max /\ m.avg = avg /\ m.errors = op.errors
        /\ m.count = op.count /\ m.p50 = P(50) /\ m.p95 = P(95) /\ m.p99 = P(99)
    BY <1>1
  <1>5. op.min <= avg /\ avg <= op.max
    <2>1. CASE known
      <3>1. op.count \in Nat \ {0} /\ op.count > 0
        BY <1>2, <1>3, <2>1
      <3>2. op.min <= op.total \div op.count /\ op.total \div op.count <= op.max
        BY <1>2, <1>3, <3>1, AverageIsBetween
      <3> QED
        BY <3>1, <3>2
    <2>2. CASE ~known
      BY <1>3, <2>2
    <2> QED
      BY <2>1, <2>2
  <1>6. /\ op.min <= P(50) /\ P(50) <= P(95) /\ P(95) <= P(99) /\ P(99) <= op.max
        /\ P(95) <= op.max /\ P(95) \in Nat
    <2>1. CASE known
      <3>1. s \in Seq(Nat) /\ s # <<>>
        BY <2>1 DEF ProfilerTypeOK
      <3>2. Range(s) \subseteq Nat
        BY <3>1 DEF Range
      <3> HIDE DEF s
      <3>3. /\ Percentile(s, 50) \in Range(s) /\ Percentile(s, 95) \in Range(s)
            /\ Percentile(s, 99) \in Range(s)
            /\ Percentile(s, 50) <= Percentile(s, 95)
            /\ Percentile(s, 95) <= Percentile(s, 99)
        BY <3>1, PercentilesAreOrdered
      <3> QED
        BY <1>3, <2>1, <3>2, <3>3
    <2>2. CASE ~known
      <3>1. P(50) = 0 /\ P(95) = 0 /\ P(99) = 0
        BY <2>2
      <3> QED
        BY <1>3, <2>2, <3>1
    <2> QED
      BY <2>1, <2>2
  <1> HIDE DEF m, avg, P, op
  <1>7. /\ m.min <= m.p50 /\ m.p50 <= m.p95 /\ m.p95 <= m.p99 /\ m.p99 <= m.max
        /\ m.min <= m.avg /\ m.avg <= m.max
        /\ m.p95 <= m.max /\ m.p95 \in Nat /\ m.max \in Nat
        /\ m.errors = op.errors /\ m.count = op.count
    BY <1>2, <1>4, <1>5, <1>6
  <1> QED
    BY <1>7 DEF m, op

(* A report changes nothing but itself.                                    *)
LEMMA OperationsKept ==
    ASSUME ProfilerInv, UNCHANGED <<operations, durations, calls>>
    PROVE  ProfilerTypeOK' /\ \A n \in DOMAIN operations' : MeasuresOK(n)'
  <1>1. ProfilerTypeOK'
    BY DEF ProfilerInv, ProfilerTypeOK, CallsOK
  <1>2. ASSUME NEW n \in DOMAIN operations
        PROVE  MeasuresOK(n)'
    <2>1. Between(n)' = Between(n)
      BY DEF Between
    <2> QED
      BY <2>1 DEF ProfilerInv, MeasuresOK
  <1> QED
    BY <1>1, <1>2

(* A report blames an operation for a latency it has had.                  *)
LEMMA ReportingKeeps ==
    ASSUME ProfilerInv,
           BeginReport \/ GetAllOperationMetrics \/ ReadHistory \/ FinishReport
    PROVE  ProfilerInv'
  <1>1. ReportOK /\ ProfilerTypeOK /\ \A n \in DOMAIN operations : MeasuresOK(n)
    BY DEF ProfilerInv
  <1>2. UNCHANGED <<operations, durations, calls>>
    BY DEF BeginReport, GetAllOperationMetrics, ReadHistory, FinishReport, Reporting
  <1>3. ReportOK'
    <2>1. CASE BeginReport
      <3>1. profile' = [at |-> "held", operations |-> <<>>, peak |-> 0, bottlenecks |-> {}]
        BY <2>1 DEF BeginReport, Reporting, NoProfile
      <3>2. DOMAIN profile'.operations = {} /\ profile'.bottlenecks = {}
        BY <3>1
      <3> QED
        BY <3>1, <3>2 DEF ReportOK
    <2>2. CASE GetAllOperationMetrics
      <3> DEFINE ops == [n \in DOMAIN operations |-> GetOperationMetrics(n)]
      <3>1. profile' = [at |-> "summary", operations |-> ops, peak |-> profile.peak,
                        bottlenecks |-> profile.bottlenecks]
        BY <1>1, <2>2 DEF GetAllOperationMetrics, Reporting, ReportOK
      <3>2. ASSUME NEW n \in DOMAIN ops
            PROVE  ops[n].p95 \in Nat /\ ops[n].max \in Nat /\ ops[n].p95 <= ops[n].max
        BY <1>1, MetricsInOrder
      <3> HIDE DEF ops
      <3>3. profile'.operations = ops /\ profile'.bottlenecks = profile.bottlenecks
        BY <3>1
      <3> QED
        BY <1>1, <3>1, <3>2, <3>3 DEF ReportOK
    <2>3. CASE ReadHistory
      <3>1. profile' = [at |-> "trend", operations |-> profile.operations,
                        peak |-> PeakMemoryUsage, bottlenecks |-> profile.bottlenecks]
        BY <1>1, <2>3 DEF ReadHistory, Reporting, ReportOK
      <3> QED
        BY <1>1, <3>1 DEF ReportOK
    <2>4. CASE FinishReport
      <3> DEFINE trend == GetMemoryTrend
                 ops == profile.operations
                 found == IdentifyBottlenecks(ops, trend)
      <3>1. profile' = [at |-> "done", operations |-> <<>>, peak |-> 0, bottlenecks |-> found]
        BY <2>4 DEF FinishReport, Reporting, NoProfile
      <3>2. DOMAIN profile'.operations = {} /\ profile'.bottlenecks = found
        BY <3>1
      <3>3. ASSUME NEW b \in found, b.type = "latency"
            PROVE  b.longest > Latencies[b.severity]
        <4>1. PICK n \in DOMAIN ops : b \in Bottleneck("latency", n,
                                        Severity(ops[n].p95, 1, Latencies), ops[n].max)
          BY <3>3 DEF IdentifyBottlenecks, Bottleneck
        <4> DEFINE k == Severity(ops[n].p95, 1, Latencies)
        <4>2. k # 0 /\ b.severity = k /\ b.longest = ops[n].max
          BY <4>1 DEF Bottleneck
        <4>3. ops[n].p95 \in Nat /\ ops[n].max \in Nat /\ ops[n].p95 <= ops[n].max
          BY <1>1 DEF ReportOK
        <4>4. ops[n].p95 > Latencies[k] /\ Latencies[k] \in Nat
          BY <4>2, <4>3, SeverityIsPassed
        <4> QED
          BY <4>2, <4>3, <4>4
      <3> QED
        BY <3>1, <3>2, <3>3 DEF ReportOK
    <2> QED
      BY <2>1, <2>2, <2>3, <2>4
  <1> QED
    BY <1>2, <1>3, OperationsKept DEF ProfilerInv

LEMMA ProfilerInvNext == ProfilerInv /\ ProfilerNext => ProfilerInv'
  <1> SUFFICES ASSUME ProfilerInv, ProfilerNext PROVE ProfilerInv'
    OBVIOUS
  <1>1. CASE StartProfiler \/ StopProfiler \/ EndLoops \/ Tick \/ AddMetrics
             \/ CleanupTick \/ CleanupWaits \/ \E w \in Workers : CallWaits(w)
    <2>1. UNCHANGED <<operations, durations, calls, profile>>
      BY <1>1 DEF StartProfiler, StopProfiler, EndLoops, Tick, AddMetrics, CleanupTick,
                  CleanupWaits, CallWaits, Waits, Tracked
    <2> QED
      BY <2>1, OperationsKept, ReportKept DEF ProfilerInv
  <1> QED
    BY <1>1, TrackErrorKeeps, TrackOperationKeeps, TrackedCallKeeps, TwentyFourHoursKeep,
       PerformCleanupKeeps, ReportingKeeps DEF ProfilerNext

LEMMA ProfilerAgrees == ProfilerInv => MeasuresAgree
  <1> SUFFICES ASSUME ProfilerInv PROVE MeasuresAgree
    OBVIOUS
  <1>1. ASSUME NEW name \in DOMAIN operations
        PROVE  LET m == GetOperationMetrics(name)
                   between == {w \in Workers : calls[w].at = "operation" /\ calls[w].failed
                                               /\ calls[w].name = name}
               IN /\ m.min <= m.p50 /\ m.p50 <= m.p95 /\ m.p95 <= m.p99 /\ m.p99 <= m.max
                  /\ m.min <= m.avg /\ m.avg <= m.max
                  /\ m.errors <= m.count + Cardinality(between)
    <2>1. ProfilerTypeOK /\ MeasuresOK(name)
      BY DEF ProfilerInv
    <2>2. operations[name].errors <= operations[name].count + Cardinality(Between(name))
      BY <2>1 DEF MeasuresOK
    <2> QED
      BY <2>1, <2>2, MetricsInOrder DEF Between
  <1> QED
    BY <1>1 DEF ProfilerInv, ReportOK, MeasuresAgree

(* What is told of an operation agrees with itself, at every moment of any *)
(* number of calls, cleanups and reports: its times are in order, its      *)
(* errors are those of calls, and no report blames it for a latency it     *)
(* never had.                                                              *)
THEOREM ProfilesAgree == Spec => []MeasuresAgree
  <1>1. Init => ProfilerInv
    BY ProfilerInvInit DEF Init
  <1>2. ProfilerInv /\ [Next]_vars => ProfilerInv'
    <2> SUFFICES ASSUME ProfilerInv, [Next]_vars PROVE ProfilerInv'
      OBVIOUS
    <2>1. CASE ProfilerNext
      BY <2>1, ProfilerInvNext
    <2>2. CASE UNCHANGED profilerVars
      <3>1. UNCHANGED <<operations, durations, calls, profile>>
        BY <2>2 DEF profilerVars
      <3> QED
        BY <3>1, OperationsKept, ReportKept DEF ProfilerInv
    <2> QED
      BY <2>1, <2>2 DEF Next, vars, MonitorStep, ValidationStep, RuntimeStep, ProfilerStep,
                        DriftStep, RetryStep
  <1> QED
    BY <1>1, <1>2, ProfilerAgrees, PTL DEF Spec

-----------------------------------------------------------------------------
(* The drift detector.                                                     *)

(* The sum of what is the same everywhere.                                 *)
LEMMA SumConstant ==
    ASSUME NEW S, IsFiniteSet(S), NEW c \in Int, NEW w \in [S -> Int],
           \A x \in S : w[x] = c
    PROVE  SumFunction(w) = Cardinality(S) * c
  <1>1. PICK g : IsSum(g, S, w) /\ SumFunction(w) = g[S]
    BY SumFunctionIsSum
  <1> DEFINE T == {s \in SUBSET S : g[s] = Cardinality(s) * c}
  <1>2. {} \in T
    <2>1. Cardinality({}) = 0 /\ g[{}] = 0
      BY <1>1, FS_EmptySet DEF IsSum
    <2> QED
      BY <2>1
  <1>3. ASSUME NEW s \in SUBSET S, NEW x \in S \ s, s \in T
        PROVE  s \cup {x} \in T
    <2> DEFINE t == s \cup {x}
    <2>1. IsFiniteSet(s) /\ Cardinality(s) \in Nat
      BY FS_Subset, FS_CardinalityType
    <2>2. Cardinality(t) = Cardinality(s) + 1
      BY <2>1, FS_AddElement
    <2>3. t \in SUBSET S /\ x \in t /\ t \ {x} = s
      OBVIOUS
    <2> HIDE DEF t
    <2>4. g[t] = w[x] + g[t \ {x}]
      BY <1>1, <2>3 DEF IsSum
    <2>5. g[t] = c + Cardinality(s) * c
      BY <1>3, <2>3, <2>4
    <2>6. (Cardinality(s) + 1) * c = c + Cardinality(s) * c
      BY <2>1
    <2>7. g[t] = Cardinality(t) * c
      BY <2>2, <2>5, <2>6
    <2> QED
      BY <2>3, <2>7 DEF t
  <1>4. S \in T
    <2> HIDE DEF T
    <2> QED
      BY <1>2, <1>3, SubsetInduction
  <1> QED
    BY <1>1, <1>4

(* The sum of n times the same.                                            *)
LEMMA SumOfSame ==
    ASSUME NEW n \in Nat, NEW c, c \in Int, NEW w, w \in [1..n -> Int],
           \A i \in 1..n : w[i] = c
    PROVE  SumFunction(w) = n * c
  <1>1. IsFiniteSet(1..n) /\ Cardinality(1..n) = IF 1 > n THEN 0 ELSE n - 1 + 1
    BY FS_Interval
  <1>2. Cardinality(1..n) = n
    BY <1>1
  <1>3. SumFunction(w) = Cardinality(1..n) * c
    BY <1>1, SumConstant
  <1> QED
    BY <1>2, <1>3

\* What is remembered of a batch.
Snapshot == [id : Nat, second : Nat, population : Nat, types : [Kinds -> Nat],
             mean : Int \cup {NoMean}]

\* No snapshot was taken later than one with a later second, and one has one.
InStep(set) == \A x, y \in set : x.id <= y.id => x.second <= y.second

Rising(s) == \A i, j \in DOMAIN s : i < j => s[i].id < s[j].id

(* The window is the end of a history.                                     *)
LEMMA NewestIsEnd ==
    ASSUME NEW S, NEW s \in Seq(S)
    PROVE  /\ Newest(s) \in Seq(S)
           /\ \E k \in 0..Len(s) : /\ Len(Newest(s)) = Len(s) - k
                                   /\ \A i \in 1..Len(s) - k : Newest(s)[i] = s[i + k]
  <1>1. Len(s) \in Nat /\ Window \in Nat
    BY DriftAssumption
  <1>2. CASE Len(s) <= Window
    <2>1. Newest(s) = s
      BY <1>2 DEF Newest
    <2>2. 0 \in 0..Len(s) /\ Len(s) = Len(s) - 0 /\ \A i \in 1..Len(s) - 0 : s[i] = s[i + 0]
      BY <1>1
    <2> QED
      BY <2>1, <2>2
  <1>3. CASE ~(Len(s) <= Window)
    <2> DEFINE k == Len(s) - Window
               t == SubSeq(s, k + 1, Len(s))
    <2>1. Newest(s) = t /\ k \in 0..Len(s)
      BY <1>1, <1>3 DEF Newest
    <2>2. t \in Seq(S) /\ Len(t) = Len(s) - k
      BY <1>1, <1>3
    <2>3. \A i \in 1..Len(s) - k : t[i] = s[i + k]
      BY <1>1, <1>3
    <2> HIDE DEF t, k
    <2> QED
      BY <2>1, <2>2, <2>3
  <1> QED
    BY <1>2, <1>3

(* What is in the window was in the history, in the same order.            *)
LEMMA NewestKeepsOrder ==
    ASSUME NEW s \in Seq(Snapshot)
    PROVE  /\ Newest(s) \in Seq(Snapshot)
           /\ Range(Newest(s)) \subseteq Range(s)
           /\ Rising(s) => Rising(Newest(s))
  <1> DEFINE t == Newest(s)
  <1>1. t \in Seq(Snapshot)
    BY NewestIsEnd
  <1>2. PICK k \in 0..Len(s) : /\ Len(t) = Len(s) - k
                               /\ \A i \in 1..Len(s) - k : t[i] = s[i + k]
    BY NewestIsEnd
  <1> HIDE DEF t
  <1>3. Len(s) \in Nat /\ DOMAIN s = 1..Len(s) /\ DOMAIN t = 1..Len(s) - k /\ k \in Nat
    BY <1>1, <1>2
  <1>4. \A i \in DOMAIN t : i \in Nat /\ i + k \in DOMAIN s /\ t[i] = s[i + k]
    BY <1>2, <1>3
  <1>5. Range(t) \subseteq Range(s)
    BY <1>4 DEF Range
  <1>6. ASSUME Rising(s), NEW i \in DOMAIN t, NEW j \in DOMAIN t, i < j
        PROVE  t[i].id < t[j].id
    <2>1. i + k < j + k
      BY <1>3, <1>4, <1>6
    <2>2. s[i + k].id < s[j + k].id
      BY <1>4, <1>6, <2>1 DEF Rising
    <2> QED
      BY <1>4, <2>2
  <1> QED
    BY <1>1, <1>5, <1>6 DEF Rising, t

(* A set of snapshots with different seconds has them in order.            *)
LEMMA InOrderRises ==
    ASSUME NEW S \in SUBSET Snapshot, IsFiniteSet(S),
           \A x, y \in S : x.second = y.second => x = y
    PROVE  /\ InOrder(S) \in Seq(S)
           /\ \A i, j \in DOMAIN InOrder(S) :
                 i < j => InOrder(S)[i].second < InOrder(S)[j].second
  <1> DEFINE Until(x) == {y \in S : y.second <= x.second}
             n == Cardinality(S)
             place == [x \in S |-> Cardinality(Until(x))]
             s == InOrder(S)
  <1>1. \A x \in S : x.second \in Nat
    BY DEF Snapshot
  <1>2. n \in Nat
    BY FS_CardinalityType
  <1>3. ASSUME NEW x \in S
        PROVE  /\ IsFiniteSet(Until(x)) /\ Cardinality(Until(x)) \in Nat
               /\ Cardinality(Until(x)) \in 1..n
    <2>1. Until(x) \in SUBSET S /\ x \in Until(x)
      BY <1>1
    <2> HIDE DEF Until
    <2>2. IsFiniteSet(Until(x)) /\ Cardinality(Until(x)) <= n
      BY <2>1, FS_Subset
    <2>3. Cardinality(Until(x)) \in Nat /\ Cardinality(Until(x)) # 0
      BY <2>1, <2>2, FS_CardinalityType, FS_EmptySet
    <2> HIDE DEF n
    <2> QED
      BY <1>2, <2>2, <2>3
  <1>4. ASSUME NEW x \in S, NEW y \in S, x.second < y.second
        PROVE  Cardinality(Until(x)) < Cardinality(Until(y))
    <2>1. Until(x) \in SUBSET Until(y) /\ y \in Until(y) /\ y \notin Until(x)
      BY <1>1, <1>4
    <2>2. Until(x) # Until(y)
      BY <2>1
    <2>3. IsFiniteSet(Until(y)) /\ Cardinality(Until(x)) \in Nat /\ Cardinality(Until(y)) \in Nat
      BY <1>3
    <2> HIDE DEF Until
    <2>4. /\ Cardinality(Until(x)) <= Cardinality(Until(y))
          /\ Cardinality(Until(y)) = Cardinality(Until(x)) => Until(y) = Until(x)
      BY <2>1, <2>3, FS_Subset
    <2> QED
      BY <2>2, <2>3, <2>4
  <1> HIDE DEF Until
  <1>5. ASSUME NEW x \in S, NEW y \in S, x # y
        PROVE  place[x] # place[y]
    <2>1. x.second < y.second \/ y.second < x.second
      BY <1>1, <1>5
    <2> QED
      BY <1>3, <1>4, <2>1
  <1>6. place \in Injection(S, 1..n)
    <2>1. place \in [S -> 1..n]
      BY <1>3
    <2> HIDE DEF place
    <2> QED
      BY <1>5, <2>1 DEF Injection, IsInjective
  <1>7. IsFiniteSet(1..n) /\ Cardinality(1..n) = n
    <2> HIDE DEF n
    <2>1. IsFiniteSet(1..n) /\ Cardinality(1..n) = IF 1 > n THEN 0 ELSE n - 1 + 1
      BY <1>2, FS_Interval
    <2> QED
      BY <1>2, <2>1
  <1>8. place \in Surjection(S, 1..n)
    <2> HIDE DEF place
    <2> QED
      BY <1>6, <1>7, FS_Injection
  <1>9. ASSUME NEW i \in 1..n
        PROVE  \E x \in S : place[x] = i
    <2> HIDE DEF place
    <2> QED
      BY <1>8 DEF Surjection
  <1>10. /\ s = [i \in 1..n |-> CHOOSE x \in S : Cardinality(Until(x)) = i]
    BY DEF InOrder, Until
  <1>11. ASSUME NEW i \in 1..n
         PROVE  s[i] \in S /\ Cardinality(Until(s[i])) = i
    <2>1. \E x \in S : Cardinality(Until(x)) = i
      BY <1>9
    <2>2. s[i] = CHOOSE x \in S : Cardinality(Until(x)) = i
      BY <1>10
    <2> HIDE DEF s
    <2> QED
      BY <2>1, <2>2
  <1>12. DOMAIN s = 1..n
    BY <1>10
  <1>13. s \in Seq(S)
    <2>1. s \in [1..n -> S]
      BY <1>10, <1>11
    <2> HIDE DEF s, n
    <2> QED
      BY <1>2, <2>1
  <1> HIDE DEF s, n
  <1>14. ASSUME NEW i \in 1..n, NEW j \in 1..n, i < j
         PROVE  s[i].second < s[j].second
    <2>1. s[i] \in S /\ s[j] \in S /\ Cardinality(Until(s[i])) = i /\ Cardinality(Until(s[j])) = j
      BY <1>11
    <2>2. s[i].second \in Nat /\ s[j].second \in Nat
      BY <1>1, <2>1
    <2>3. CASE s[i].second = s[j].second
      BY <1>2, <1>14, <2>1, <2>3
    <2>4. CASE s[j].second < s[i].second
      BY <1>2, <1>4, <1>14, <2>1, <2>4
    <2> QED
      BY <2>2, <2>3, <2>4
  <1> QED
    BY <1>12, <1>13, <1>14 DEF s

(* What a history may hold is finite.                                      *)
LEMMA RangeIsFinite ==
    ASSUME NEW S, NEW s \in Seq(S)
    PROVE  IsFiniteSet(Range(s)) /\ Range(s) \subseteq S
  <1>1. Len(s) \in Nat /\ DOMAIN s = 1..Len(s)
    OBVIOUS
  <1>2. IsFiniteSet(1..Len(s))
    BY <1>1, FS_Interval
  <1>3. s \in Surjection(1..Len(s), Range(s))
    BY <1>1 DEF Surjection, Range
  <1>4. Range(s) \subseteq S
    BY <1>1 DEF Range
  <1> QED
    BY <1>2, <1>3, <1>4, FS_Surjection

(* The last snapshot of a second that a history has is in the history.     *)
LEMMA LastOfSecond ==
    ASSUME NEW s \in Seq(Snapshot), NEW time \in {s[i].second : i \in DOMAIN s}
    PROVE  LET x == s[Max({i \in DOMAIN s : s[i].second = time})]
           IN x \in Range(s) /\ x.second = time
  <1> DEFINE P == {i \in DOMAIN s : s[i].second = time}
             m == Max(P)
  <1>1. Len(s) \in Nat /\ DOMAIN s = 1..Len(s)
    OBVIOUS
  <1>2. P \in SUBSET (1..Len(s)) /\ P \in SUBSET Int /\ P # {}
    BY <1>1
  <1>3. IsFiniteSet(1..Len(s))
    BY <1>1, FS_Interval
  <1>4. \A i \in P : s[i] \in Range(s) /\ s[i].second = time
    BY DEF Range
  <1> HIDE DEF P
  <1>5. IsFiniteSet(P)
    BY <1>2, <1>3, FS_Subset
  <1>6. m \in P
    BY <1>2, <1>5, MaxIsMax
  <1> QED
    BY <1>4, <1>6 DEF P

(* Two histories in step merge into one in the order of its snapshots.     *)
LEMMA MergedRises ==
    ASSUME NEW existing \in Seq(Snapshot), NEW new \in Seq(Snapshot),
           InStep(Range(existing) \cup Range(new))
    PROVE  LET s == MergeSnapshots(existing, new)
           IN /\ s \in Seq(Snapshot) /\ Range(s) \subseteq Range(existing) \cup Range(new)
              /\ Rising(s)
  <1> DEFINE At(s, time) == s[Max({i \in DOMAIN s : s[i].second = time})]
             Times(s) == {s[i].second : i \in DOMAIN s}
             merged == {At(new, time) : time \in Times(new)}
                       \cup {At(existing, time) : time \in Times(existing) \ Times(new)}
             both == Range(existing) \cup Range(new)
             s == InOrder(merged)
  <1>1. MergeSnapshots(existing, new) = Newest(s)
    BY DEF MergeSnapshots
  <1>2. IsFiniteSet(both) /\ both \in SUBSET Snapshot
    BY RangeIsFinite, FS_Union
  <1>3. /\ \A time \in Times(new) : At(new, time) \in both /\ At(new, time).second = time
        /\ \A time \in Times(existing) :
              At(existing, time) \in both /\ At(existing, time).second = time
    BY LastOfSecond
  <1>4. merged \in SUBSET both
    <2> HIDE DEF At, Times, both
    <2> QED
      BY <1>3
  <1>5. \A x, y \in merged : x.second = y.second => x = y
    <2> HIDE DEF At, Times, both
    <2>1. \A x \in merged : x = IF x.second \in Times(new) THEN At(new, x.second)
                                ELSE At(existing, x.second)
      BY <1>3
    <2> HIDE DEF merged
    <2> QED
      BY <2>1
  <1> HIDE DEF merged, both
  <1>6. merged \in SUBSET Snapshot /\ IsFiniteSet(merged)
    BY <1>2, <1>4, FS_Subset
  <1>7. /\ s \in Seq(merged)
        /\ \A i, j \in DOMAIN s : i < j => s[i].second < s[j].second
    BY <1>5, <1>6, InOrderRises
  <1> HIDE DEF s
  <1>8. s \in Seq(Snapshot) /\ Range(s) \subseteq both /\ \A i \in DOMAIN s : s[i] \in both
    <2>1. Range(s) \subseteq merged
      BY <1>7, RangeIsFinite
    <2>2. s \in Seq(Snapshot)
      BY <1>6, <1>7
    <2>3. \A i \in DOMAIN s : s[i] \in Range(s)
      BY DEF Range
    <2> QED
      BY <1>4, <2>1, <2>2, <2>3
  <1>9. Rising(s)
    <2>1. ASSUME NEW i \in DOMAIN s, NEW j \in DOMAIN s, i < j
          PROVE  s[i].id < s[j].id
      <3>1. s[i].second < s[j].second
        BY <1>7, <2>1
      <3>2. /\ s[i].second \in Nat /\ s[j].second \in Nat
            /\ s[i].id \in Nat /\ s[j].id \in Nat
        BY <1>2, <1>8 DEF Snapshot
      <3>3. ~(s[j].second <= s[i].second)
        BY <3>1, <3>2
      <3>4. ~(s[j].id <= s[i].id)
        BY <1>8, <3>3 DEF InStep, both
      <3> QED
        BY <3>2, <3>4
    <2> QED
      BY <2>1 DEF Rising
  <1>10. /\ Newest(s) \in Seq(Snapshot) /\ Range(Newest(s)) \subseteq both
         /\ Rising(Newest(s))
    BY <1>8, <1>9, NewestKeepsOrder
  <1> QED
    BY <1>1, <1>10 DEF both

\* What is remembered of a field, in memory and in the bucket.
Remembered(f) == Range(snapshots[f]) \cup Range(stored[f])

DriftTypeOK ==
    /\ second \in Nat /\ taken \in Nat
    /\ snapshots \in [Fields -> Seq(Snapshot)]
    /\ stored \in [Fields -> Seq(Snapshot)]

\* The histories of a field, in memory and in the bucket, are in order and in
\* step with each other and with the clock.
HistoriesOK ==
    \A f \in Fields :
        /\ Rising(snapshots[f]) /\ Rising(stored[f])
        /\ InStep(Remembered(f))
        /\ \A x \in Remembered(f) : x.id <= taken /\ x.second <= second

DriftInv == DriftTypeOK /\ HistoriesOK

(* Nothing is remembered at first.                                         *)
LEMMA NothingRemembered == NoSnapshots \in [Fields -> Seq(Snapshot)]
                           /\ \A f \in Fields : Rising(NoSnapshots[f]) /\ Range(NoSnapshots[f]) = {}
  BY DEF NoSnapshots, Rising, Range

LEMMA DriftInvInit == DriftInit => DriftInv
  <1> SUFFICES ASSUME DriftInit PROVE DriftInv
    OBVIOUS
  <1>1. snapshots = NoSnapshots /\ stored = NoSnapshots /\ second = 1 /\ taken = 0
    BY DEF DriftInit
  <1>2. \A f \in Fields : Remembered(f) = {}
    BY <1>1, NothingRemembered DEF Remembered
  <1> QED
    BY <1>1, <1>2, NothingRemembered DEF DriftInv, DriftTypeOK, HistoriesOK, InStep

(* A snapshot is the newest and the latest.                                *)
LEMMA TakeKeeps ==
    ASSUME DriftInv, NEW stats \in [Fields -> FieldStats], TakeSnapshots(stats)
    PROVE  DriftInv'
  <1> DEFINE new(f) == [id |-> taken + 1, second |-> second,
                        population |-> stats[f].population, types |-> stats[f].types,
                        mean |-> stats[f].mean]
             longer(f) == Append(snapshots[f], new(f))
  <1>1. DriftTypeOK /\ HistoriesOK
    BY DEF DriftInv
  <1>2. /\ taken' = taken + 1 /\ second' = second /\ stored' = stored
        /\ snapshots' = [f \in Fields |-> Newest(longer(f))]
    BY DEF TakeSnapshots
  <1>3. taken \in Nat /\ second \in Nat /\ taken + 1 \in Nat
    BY <1>1 DEF DriftTypeOK
  <1>4. ASSUME NEW f \in Fields
        PROVE  /\ Newest(longer(f)) \in Seq(Snapshot)
               /\ Range(Newest(longer(f))) \subseteq Range(snapshots[f]) \cup {new(f)}
               /\ Rising(Newest(longer(f)))
               /\ new(f).id = taken + 1 /\ new(f).second = second
    <2> DEFINE x == new(f)
               s == snapshots[f]
               n == Len(s)
    <2>1. x.id = taken + 1 /\ x.second = second
      OBVIOUS
    <2>2. x \in Snapshot
      <3>1. stats[f] \in Statistics
        BY DriftAssumption
      <3>2. /\ stats[f].population \in Nat /\ stats[f].types \in [Kinds -> Nat]
            /\ stats[f].mean \in Int \cup {NoMean}
        BY <3>1 DEF Statistics
      <3> DEFINE p == stats[f].population
                 t == stats[f].types
                 m == stats[f].mean
      <3> HIDE DEF p, t, m
      <3>3. [id |-> taken + 1, second |-> second, population |-> p, types |-> t, mean |-> m]
              \in Snapshot
        BY <1>3, <3>2 DEF Snapshot, p, t, m
      <3> QED
        BY <3>3 DEF p, t, m
    <2>3. s \in Seq(Snapshot) /\ n \in Nat /\ DOMAIN s = 1..n
      BY <1>1 DEF DriftTypeOK
    <2>4. /\ longer(f) \in Seq(Snapshot) /\ DOMAIN longer(f) = 1..n + 1
          /\ longer(f)[n + 1] = x
          /\ \A i \in 1..n : longer(f)[i] = s[i]
      <3> HIDE DEF x, s
      <3>1. Append(s, x) \in Seq(Snapshot) /\ Len(Append(s, x)) = n + 1
            /\ Append(s, x)[n + 1] = x /\ \A i \in 1..n : Append(s, x)[i] = s[i]
        BY <2>2, <2>3
      <3> QED
        BY <3>1 DEF x, s
    <2> HIDE DEF x, s, longer
    <2>5. Rising(longer(f))
      <3>1. ASSUME NEW i \in 1..n + 1, NEW j \in 1..n + 1, i < j
            PROVE  longer(f)[i].id < longer(f)[j].id
        <4>1. i \in 1..n
          BY <2>3, <3>1
        <4>2. s[i] \in Range(s) /\ Range(s) \subseteq Remembered(f)
          BY <2>3, <4>1 DEF Range, Remembered, s
        <4>3. s[i].id <= taken /\ s[i].id \in Nat
          <5>1. s[i] \in Snapshot
            BY <2>3, <4>1
          <5>2. s[i] \in Remembered(f)
            BY <4>2
          <5>3. s[i].id \in Nat
            BY <5>1 DEF Snapshot
          <5>4. \A y \in Remembered(f) : y.id <= taken
            BY <1>1 DEF HistoriesOK
          <5> QED
            BY <5>2, <5>3, <5>4
        <4>4. CASE j = n + 1
          BY <1>3, <2>1, <2>4, <4>1, <4>3, <4>4
        <4>5. CASE j # n + 1
          <5>1. j \in 1..n
            BY <2>3, <4>5
          <5>2. Rising(s)
            BY <1>1 DEF HistoriesOK, s
          <5> QED
            BY <2>3, <2>4, <3>1, <4>1, <5>1, <5>2 DEF Rising
        <4> QED
          BY <4>4, <4>5
      <3> QED
        BY <2>4, <3>1 DEF Rising
    <2>6. Range(longer(f)) \subseteq Range(s) \cup {x}
      <3>1. \A i \in 1..n + 1 : i = n + 1 \/ i \in 1..n
        BY <2>3
      <3> QED
        BY <2>3, <2>4, <3>1 DEF Range
    <2>7. /\ Newest(longer(f)) \in Seq(Snapshot)
          /\ Range(Newest(longer(f))) \subseteq Range(longer(f))
          /\ Rising(Newest(longer(f)))
      BY <2>4, <2>5, NewestKeepsOrder
    <2> QED
      BY <2>1, <2>6, <2>7 DEF x, s
  <1> HIDE DEF new, longer
  <1>5. DriftTypeOK'
    BY <1>1, <1>2, <1>3, <1>4 DEF DriftTypeOK
  <1>6. ASSUME NEW f \in Fields
        PROVE  /\ Rising(snapshots'[f]) /\ Rising(stored'[f])
               /\ InStep(Remembered(f)')
               /\ \A x \in Remembered(f)' : x.id <= taken' /\ x.second <= second'
    <2>1. Rising(snapshots'[f]) /\ Rising(stored'[f])
      BY <1>1, <1>2, <1>4 DEF HistoriesOK
    <2>2. Remembered(f)' \subseteq Remembered(f) \cup {new(f)}
      BY <1>2, <1>4 DEF Remembered
    <2>3. \A x \in Remembered(f) : /\ x.id <= taken /\ x.second <= second
                                  /\ x.id \in Nat /\ x.second \in Nat
      <3>1. Remembered(f) \subseteq Snapshot
        BY <1>1, RangeIsFinite DEF DriftTypeOK, Remembered
      <3> QED
        BY <1>1, <3>1 DEF HistoriesOK, Snapshot
    <2>4. InStep(Remembered(f))
      BY <1>1 DEF HistoriesOK
    <2>5. ASSUME NEW x \in Remembered(f)', NEW y \in Remembered(f)', x.id <= y.id
          PROVE  x.second <= y.second
      <3>1. CASE x = new(f)
        BY <1>3, <1>4, <2>2, <2>3, <2>5, <3>1
      <3>2. CASE y = new(f)
        BY <1>3, <1>4, <2>2, <2>3, <2>5, <3>2
      <3>3. CASE x \in Remembered(f) /\ y \in Remembered(f)
        BY <2>4, <2>5, <3>3 DEF InStep
      <3> QED
        BY <2>2, <3>1, <3>2, <3>3
    <2>6. \A x \in Remembered(f)' : x.id <= taken' /\ x.second <= second'
      BY <1>2, <1>3, <1>4, <2>2, <2>3
    <2> QED
      BY <2>1, <2>5, <2>6 DEF InStep
  <1> QED
    BY <1>5, <1>6 DEF DriftInv, HistoriesOK

(* What a loaded history adds was in the bucket.                           *)
LEMMA LoadKeeps ==
    ASSUME DriftInv, LoadFieldSnapshots
    PROVE  DriftInv'
  <1> DEFINE loaded(f) == IF snapshots[f] = <<>> THEN stored[f]
                          ELSE MergeSnapshots(snapshots[f], stored[f])
  <1>1. DriftTypeOK /\ HistoriesOK
    BY DEF DriftInv
  <1>2. /\ taken' = taken /\ second' = second /\ stored' = stored
        /\ snapshots' = [f \in Fields |-> loaded(f)]
    BY DEF LoadFieldSnapshots
  <1>3. ASSUME NEW f \in Fields
        PROVE  /\ loaded(f) \in Seq(Snapshot) /\ Range(loaded(f)) \subseteq Remembered(f)
               /\ Rising(loaded(f))
    <2>1. /\ snapshots[f] \in Seq(Snapshot) /\ stored[f] \in Seq(Snapshot)
          /\ Rising(stored[f]) /\ InStep(Range(snapshots[f]) \cup Range(stored[f]))
      BY <1>1 DEF DriftTypeOK, HistoriesOK, Remembered
    <2>2. CASE snapshots[f] = <<>>
      BY <2>1, <2>2 DEF Remembered
    <2>3. CASE snapshots[f] # <<>>
      BY <2>1, <2>3, MergedRises DEF Remembered
    <2> QED
      BY <2>2, <2>3
  <1> HIDE DEF loaded
  <1>4. DriftTypeOK'
    BY <1>1, <1>2, <1>3 DEF DriftTypeOK
  <1>5. ASSUME NEW f \in Fields
        PROVE  /\ Rising(snapshots'[f]) /\ Rising(stored'[f])
               /\ InStep(Remembered(f)')
               /\ \A x \in Remembered(f)' : x.id <= taken' /\ x.second <= second'
    <2>1. Rising(snapshots'[f]) /\ Rising(stored'[f])
      BY <1>1, <1>2, <1>3 DEF HistoriesOK
    <2>2. Remembered(f)' \subseteq Remembered(f)
      BY <1>2, <1>3 DEF Remembered
    <2>3. InStep(Remembered(f)) /\ \A x \in Remembered(f) : x.id <= taken /\ x.second <= second
      BY <1>1 DEF HistoriesOK
    <2> QED
      BY <1>2, <2>1, <2>2, <2>3 DEF InStep
  <1> QED
    BY <1>4, <1>5 DEF DriftInv, HistoriesOK

(* Saving, and ending, leave in memory and in the bucket what was there.   *)
LEMMA KeptStays ==
    ASSUME DriftInv, taken' = taken, second' \in Nat, second <= second',
           DriftTypeOK',
           \A f \in Fields : /\ Rising(snapshots'[f]) /\ Rising(stored'[f])
                             /\ Remembered(f)' \subseteq Remembered(f)
    PROVE  DriftInv'
  <1>1. ASSUME NEW f \in Fields
        PROVE  /\ InStep(Remembered(f)')
               /\ \A x \in Remembered(f)' : x.id <= taken' /\ x.second <= second'
    <2>1. /\ InStep(Remembered(f)) /\ Remembered(f)' \subseteq Remembered(f)
          /\ \A x \in Remembered(f) : x.id <= taken /\ x.second <= second
      BY DEF DriftInv, HistoriesOK
    <2>2. Remembered(f) \subseteq Snapshot /\ second \in Nat
      BY RangeIsFinite DEF DriftInv, DriftTypeOK, Remembered
    <2>3. \A x \in Remembered(f) : x.second \in Nat
      BY <2>2 DEF Snapshot
    <2>4. \A x \in Remembered(f)' : x.id <= taken' /\ x.second <= second'
      BY <2>1, <2>2, <2>3
    <2> QED
      BY <2>1, <2>4 DEF InStep
  <1> QED
    BY <1>1 DEF DriftInv, HistoriesOK

LEMMA DriftInvNext == DriftInv /\ DriftNext => DriftInv'
  <1> SUFFICES ASSUME DriftInv, DriftNext PROVE DriftInv'
    OBVIOUS
  <1>1. DriftTypeOK /\ HistoriesOK /\ second \in Nat
    BY DEF DriftInv, DriftTypeOK
  <1>2. ASSUME NEW stats \in [Fields -> FieldStats], TakeSnapshots(stats)
        PROVE  DriftInv'
    BY <1>2, TakeKeeps
  <1>3. CASE SaveFieldSnapshots
    <2>1. DriftTypeOK' /\ taken' = taken /\ second' = second /\ second <= second
      BY <1>1, <1>3 DEF SaveFieldSnapshots, DriftTypeOK
    <2>2. ASSUME NEW f \in Fields
          PROVE  /\ Rising(snapshots'[f]) /\ Rising(stored'[f])
                 /\ Remembered(f)' \subseteq Remembered(f)
      BY <1>1, <1>3 DEF SaveFieldSnapshots, HistoriesOK, Remembered
    <2> QED
      BY <1>1, <2>1, <2>2, KeptStays
  <1>4. CASE Restart
    <2>1. DriftTypeOK' /\ taken' = taken /\ second' = second /\ second <= second
      BY <1>1, <1>4, NothingRemembered DEF Restart, DriftTypeOK
    <2>2. ASSUME NEW f \in Fields
          PROVE  /\ Rising(snapshots'[f]) /\ Rising(stored'[f])
                 /\ Remembered(f)' \subseteq Remembered(f)
      BY <1>1, <1>4, NothingRemembered DEF Restart, HistoriesOK, Remembered
    <2> QED
      BY <1>1, <2>1, <2>2, KeptStays
  <1>5. CASE SecondPasses
    <2>1. DriftTypeOK' /\ taken' = taken /\ second' = second + 1 /\ second <= second + 1
      BY <1>1, <1>5 DEF SecondPasses, DriftTypeOK
    <2>2. ASSUME NEW f \in Fields
          PROVE  /\ Rising(snapshots'[f]) /\ Rising(stored'[f])
                 /\ Remembered(f)' \subseteq Remembered(f)
      BY <1>1, <1>5 DEF SecondPasses, HistoriesOK, Remembered
    <2> QED
      BY <1>1, <2>1, <2>2, KeptStays
  <1> QED
    BY <1>2, <1>3, <1>4, <1>5, LoadKeeps DEF DriftNext

(* What has not changed, whatever it is measured by, has not drifted.      *)
LEMMA NoChangeNoDrift ==
    ASSUME NEW type, NEW base \in Nat
    PROVE  DriftOf(type, 0, base) = {}
  <1>1. Threshold \in Nat
    BY DriftAssumption
  <1>2. Threshold * base \in Nat
    BY <1>1
  <1>3. ~(100 * 0 > Threshold * base)
    BY <1>2
  <1> QED
    BY <1>3 DEF DriftOf

(* A change of all there is, or of nothing to something, is a high drift.  *)
LEMMA WholeChangeIsHigh ==
    ASSUME NEW type, NEW change \in Nat, NEW base \in Nat, change > 0,
           base <= change
    PROVE  [type |-> type, severity |-> "high"] \in DriftOf(type, change, base)
  <1>1. ASSUME NEW p \in 0..99
        PROVE  100 * change > p * base
    <2>1. p * base <= 99 * base
      BY <1>1
    <2>2. p * base \in Nat
      BY <1>1
    <2> QED
      BY <2>1, <2>2
  <1>2. 100 * change > Threshold * base /\ 100 * change > High * base
    BY <1>1, DriftAssumption
  <1> QED
    BY <1>2 DEF DriftOf

(* The newest snapshot, and those before it.                               *)
LEMMA FrontAndLast ==
    ASSUME NEW s \in Seq(Snapshot), Len(s) >= 2
    PROVE  /\ Front(s) \in Seq(Snapshot) /\ Len(Front(s)) = Len(s) - 1
           /\ DOMAIN Front(s) = 1..Len(s) - 1
           /\ \A i \in 1..Len(s) - 1 : Front(s)[i] = s[i]
           /\ Last(s) = s[Len(s)] /\ Len(s) - 1 \in Nat \ {0}
           /\ IsFiniteSet(1..Len(s) - 1) /\ Cardinality(1..Len(s) - 1) = Len(s) - 1
  <1> DEFINE n == Len(s) - 1
             t == SubSeq(s, 1, n)
  <1>1. Len(s) \in Nat /\ n \in Nat \ {0}
    <2> DEFINE l == Len(s)
    <2>1. l \in Nat /\ l >= 2
      OBVIOUS
    <2> HIDE DEF l
    <2>2. l - 1 \in Nat \ {0}
      BY <2>1
    <2> QED
      BY <2>1, <2>2 DEF l
  <1>2. Front(s) = t /\ Last(s) = s[Len(s)]
    BY DEF Front, Last
  <1>3. t \in Seq(Snapshot) /\ Len(t) = n
    BY <1>1
  <1>4. \A i \in 1..n : t[i] = s[i]
    BY <1>1
  <1>5. DOMAIN t = 1..n
    BY <1>3
  <1> HIDE DEF t, n
  <1>6. IsFiniteSet(1..n) /\ Cardinality(1..n) = IF 1 > n THEN 0 ELSE n - 1 + 1
    BY <1>1, FS_Interval
  <1>7. IsFiniteSet(1..n) /\ Cardinality(1..n) = n
    BY <1>1, <1>6
  <1>8. /\ Front(s) \in Seq(Snapshot) /\ Len(Front(s)) = n
        /\ DOMAIN Front(s) = 1..n
        /\ \A i \in 1..n : Front(s)[i] = s[i]
    BY <1>2, <1>3, <1>4, <1>5
  <1> QED
    BY <1>1, <1>2, <1>7, <1>8 DEF n

(* Snapshots that are alike show no drift.                                 *)
LEMMA AlikeIsQuiet ==
    ASSUME NEW s \in Seq(Snapshot), Len(s) >= 2,
           \A i, j \in DOMAIN s : Alike(s[i], s[j])
    PROVE  AnalyzeFieldDrift(s) = {}
  <1> DEFINE n == Len(s) - 1
             h == Front(s)
             x == Last(s)
             p == x.population
             m == x.mean
  <1>1. /\ h \in Seq(Snapshot) /\ Len(h) = n /\ DOMAIN h = 1..n
        /\ \A i \in 1..n : h[i] = s[i]
        /\ x = s[Len(s)] /\ n \in Nat \ {0}
        /\ IsFiniteSet(1..n) /\ Cardinality(1..n) = n
    BY FrontAndLast
  <1>2. Len(s) \in Nat /\ DOMAIN s = 1..Len(s) /\ Len(s) \in DOMAIN s
        /\ \A i \in 1..n : i \in DOMAIN s
    OBVIOUS
  <1>3. x \in Snapshot
    BY <1>1, <1>2
  <1>4. p \in Nat /\ x.types \in [Kinds -> Nat] /\ m \in Int \cup {NoMean}
    BY <1>3 DEF Snapshot
  <1>5. \A i \in 1..n : h[i].population = p /\ h[i].types = x.types /\ h[i].mean = m
    BY <1>1, <1>2 DEF Alike
  <1> HIDE DEF n, h, x, p, m
  <1>6. CheckPopulationDrift(x, h) = {}
    <2> DEFINE w == Populations(h)
    <2>1. w \in [1..n -> Int] /\ \A i \in 1..n : w[i] = p
      BY <1>1, <1>4, <1>5 DEF Populations
    <2> HIDE DEF w
    <2>2. SumFunction(w) = n * p
      <3>1. p \in Int /\ n \in Nat
        BY <1>1, <1>4
      <3> QED
        BY <2>1, <3>1, SumOfSame
    <2>3. n * p \in Nat /\ p * n = n * p
      BY <1>1, <1>4
    <2>4. Distance(p * n, n * p) = 0
      BY <2>3 DEF Distance
    <2>5. CheckPopulationDrift(x, h) = DriftOf("population", Distance(p * n, n * p), n * p)
      BY <1>1, <2>2 DEF CheckPopulationDrift, w, p
    <2> QED
      BY <2>3, <2>4, <2>5, NoChangeNoDrift
  <1>7. CheckTypeDistributionDrift(x, h) = {}
    <2> DEFINE of(k) == [i \in 1..n |-> h[i].types[k]]
               moved == [k \in Kinds |-> Distance(x.types[k] * n, SumFunction(of(k)))]
    <2>1. ASSUME NEW k \in Kinds
          PROVE  Distance(x.types[k] * n, SumFunction(of(k))) = 0
      <3> DEFINE c == x.types[k]
      <3>1. c \in Nat
        BY <1>4
      <3>2. of(k) \in [1..n -> Int] /\ \A i \in 1..n : of(k)[i] = c
        BY <1>5, <3>1
      <3> HIDE DEF c, of
      <3>3. SumFunction(of(k)) = n * c
        <4>1. c \in Int /\ n \in Nat
          BY <1>1, <3>1
        <4> QED
          BY <3>2, <4>1, SumOfSame
      <3>4. n * c \in Nat /\ c * n = n * c
        BY <1>1, <3>1
      <3> QED
        BY <3>3, <3>4 DEF Distance, c
    <2>2. moved \in [Kinds -> Int] /\ \A k \in Kinds : moved[k] = 0
      BY <2>1
    <2>3. IsFiniteSet(Kinds) /\ Cardinality(Kinds) \in Nat
      BY DriftAssumption, FS_CardinalityType
    <2>4. CheckTypeDistributionDrift(x, h) = DriftOf("type", SumFunction(moved), 100 * n)
      BY <1>1 DEF CheckTypeDistributionDrift
    <2> HIDE DEF moved
    <2>5. SumFunction(moved) = Cardinality(Kinds) * 0
      BY <2>2, <2>3, SumConstant
    <2>6. SumFunction(moved) = 0 /\ 100 * n \in Nat
      BY <1>1, <2>3, <2>5
    <2> QED
      BY <2>4, <2>6, NoChangeNoDrift
  <1>8. CheckStatisticalDrift(x, h) = {}
    <2>1. CASE m = NoMean
      BY <2>1 DEF CheckStatisticalDrift, m
    <2>2. CASE m # NoMean
      <3> DEFINE numeric == {i \in DOMAIN h : h[i].mean # NoMean}
                 w == [i \in numeric |-> h[i].mean]
                 sum == SumFunction(w)
      <3>1. numeric = 1..n /\ m \in Int
        BY <1>1, <1>4, <1>5, <2>2
      <3>2. w \in [1..n -> Int] /\ \A i \in 1..n : w[i] = m
        BY <1>5, <3>1
      <3> HIDE DEF w
      <3>3. sum = n * m
        BY <1>1, <3>1, <3>2, SumConstant
      <3>4. Cardinality(numeric) = n
        BY <1>1, <3>1
      <3> HIDE DEF numeric, sum
      <3>5. m * n = n * m /\ n * m \in Int
        BY <1>1, <3>1
      <3>6. Distance(m * Cardinality(numeric), sum) = 0
        BY <3>3, <3>4, <3>5 DEF Distance
      <3>7. Distance(sum, 0) \in Nat
        BY <3>3, <3>5 DEF Distance
      <3>8. CheckStatisticalDrift(x, h) =
              IF m = NoMean \/ sum = 0 THEN {}
              ELSE DriftOf("statistical", Distance(m * Cardinality(numeric), sum), Distance(sum, 0))
        BY DEF CheckStatisticalDrift, m, numeric, sum, w
      <3> QED
        BY <3>6, <3>7, <3>8, NoChangeNoDrift
    <2> QED
      BY <2>1, <2>2
  <1> QED
    BY <1>6, <1>7, <1>8 DEF AnalyzeFieldDrift, h, x

(* A field that was empty and is not, or is and was not, is a high drift.  *)
LEMMA EmptyingIsHigh ==
    ASSUME NEW s \in Seq(Snapshot), Len(s) >= 2,
           \A i \in DOMAIN Front(s) : (s[i].population = 0) # (Last(s).population = 0)
    PROVE  [type |-> "population", severity |-> "high"] \in AnalyzeFieldDrift(s)
  <1> DEFINE n == Len(s) - 1
             h == Front(s)
             x == Last(s)
             p == x.population
             w == Populations(h)
             sum == SumFunction(w)
  <1>1. /\ h \in Seq(Snapshot) /\ Len(h) = n /\ DOMAIN h = 1..n
        /\ \A i \in 1..n : h[i] = s[i]
        /\ x = s[Len(s)] /\ n \in Nat \ {0}
        /\ IsFiniteSet(1..n) /\ Cardinality(1..n) = n
    BY FrontAndLast
  <1>2. x \in Snapshot /\ \A i \in 1..n : h[i] \in Snapshot
    <2>1. Len(s) \in DOMAIN s
      OBVIOUS
    <2> QED
      BY <1>1, <2>1
  <1>3. p \in Nat /\ \A i \in 1..n : h[i].population \in Nat
    BY <1>2 DEF Snapshot
  <1>4. \A i \in 1..n : (h[i].population = 0) # (p = 0)
    BY <1>1
  <1> HIDE DEF n, h, x, p
  <1>5. w \in [1..n -> Int] /\ \A i \in 1..n : w[i] = h[i].population
    BY <1>1, <1>3 DEF Populations
  <1> HIDE DEF w
  <1>6. CheckPopulationDrift(x, h) = DriftOf("population", Distance(p * n, sum), sum)
    BY <1>1 DEF CheckPopulationDrift, w, p
  <1>7. CASE p = 0
    <2> DEFINE one == [i \in 1..n |-> 1]
    <2>1. one \in [1..n -> Int] /\ \A i \in 1..n : one[i] = 1
      OBVIOUS
    <2>2. \A i \in 1..n : one[i] <= w[i]
      BY <1>3, <1>4, <1>5, <1>7
    <2> HIDE DEF one
    <2>3. SumFunction(one) = n * 1
      BY <1>1, <2>1, SumConstant
    <2>4. sum \in Int /\ SumFunction(one) <= sum
      BY <1>1, <1>5, <2>1, <2>2, SumMonotone
    <2> HIDE DEF sum
    <2>5. sum \in Nat /\ sum > 0
      BY <1>1, <2>3, <2>4
    <2>6. Distance(p * n, sum) = sum
      BY <1>1, <1>7, <2>5 DEF Distance
    <2> QED
      BY <1>6, <2>5, <2>6, WholeChangeIsHigh DEF AnalyzeFieldDrift, h, x
  <1>8. CASE p # 0
    <2>1. \A i \in 1..n : w[i] = 0
      BY <1>4, <1>5, <1>8
    <2>2. sum = n * 0
      BY <1>1, <1>5, <2>1, SumConstant
    <2>3. sum = 0
      BY <1>1, <2>2
    <2> HIDE DEF sum
    <2>4. p * n \in Nat /\ p * n > 0
      BY <1>1, <1>3, <1>8
    <2>5. Distance(p * n, sum) = p * n
      BY <2>3, <2>4 DEF Distance
    <2> QED
      BY <1>6, <2>3, <2>4, <2>5, WholeChangeIsHigh DEF AnalyzeFieldDrift, h, x
  <1> QED
    BY <1>7, <1>8

LEMMA DriftIsJudged == DriftInv => DriftJudged
  <1> SUFFICES ASSUME DriftInv PROVE DriftJudged
    OBVIOUS
  <1>1. ASSUME NEW f \in Fields
        PROVE  LET s == snapshots[f]
                   drifts == DetectDrift[f]
                   Empty(x) == x.population = 0
               IN /\ \A i, j \in DOMAIN s : i < j => s[i].id < s[j].id
                  /\ (\A i, j \in DOMAIN s : Alike(s[i], s[j])) => drifts = {}
                  /\ /\ Len(s) >= 2 /\ Len(s) >= MinSampleSize
                     /\ \A i \in DOMAIN Front(s) : Empty(s[i]) # Empty(Last(s))
                     => [type |-> "population", severity |-> "high"] \in drifts
    <2> DEFINE s == snapshots[f]
               drifts == DetectDrift[f]
    <2>1. s \in Seq(Snapshot) /\ Rising(s) /\ Len(s) \in Nat
      BY DEF DriftInv, DriftTypeOK, HistoriesOK
    <2>2. drifts = IF Len(s) < MinSampleSize THEN {} ELSE AnalyzeFieldDrift(s)
      BY DEF DetectDrift
    <2>3. Len(s) < 2 => AnalyzeFieldDrift(s) = {}
      BY DEF AnalyzeFieldDrift
    <2> HIDE DEF s, drifts
    <2>4. \A i, j \in DOMAIN s : i < j => s[i].id < s[j].id
      BY <2>1 DEF Rising
    <2>5. ASSUME \A i, j \in DOMAIN s : Alike(s[i], s[j])
          PROVE  drifts = {}
      <3>1. CASE Len(s) >= 2
        <4>1. AnalyzeFieldDrift(s) = {}
          BY <2>1, <2>5, <3>1, AlikeIsQuiet
        <4> QED
          BY <2>2, <4>1
      <3>2. CASE ~(Len(s) >= 2)
        BY <2>1, <2>2, <2>3, <3>2
      <3> QED
        BY <3>1, <3>2
    <2>6. ASSUME Len(s) >= 2, Len(s) >= MinSampleSize,
                 \A i \in DOMAIN Front(s) : (s[i].population = 0) # (Last(s).population = 0)
          PROVE  [type |-> "population", severity |-> "high"] \in drifts
      <3>1. [type |-> "population", severity |-> "high"] \in AnalyzeFieldDrift(s)
        BY <2>1, <2>6, EmptyingIsHigh
      <3>2. ~(Len(s) < MinSampleSize)
        BY <2>1, <2>6, DriftAssumption
      <3> QED
        BY <2>2, <3>1, <3>2
    <2> QED
      BY <2>4, <2>5, <2>6 DEF s, drifts
  <1> QED
    BY <1>1 DEF DriftJudged

(* However histories are taken, saved, merged and forgotten, the detector  *)
(* compares the newest snapshot of a field with older ones, is silent about*)
(* a field that has not changed, and loud about one that has become empty  *)
(* or has ceased to be.                                                    *)
THEOREM DriftsAreJudged == Spec => []DriftJudged
  <1>1. Init => DriftInv
    BY DriftInvInit DEF Init
  <1>2. DriftInv /\ [Next]_vars => DriftInv'
    <2> SUFFICES ASSUME DriftInv, [Next]_vars PROVE DriftInv'
      OBVIOUS
    <2>1. CASE DriftNext
      BY <2>1, DriftInvNext
    <2>2. CASE UNCHANGED driftVars
      BY <2>2 DEF driftVars, DriftInv, DriftTypeOK, HistoriesOK, Remembered
    <2> QED
      BY <2>1, <2>2 DEF Next, vars, MonitorStep, ValidationStep, RuntimeStep, ProfilerStep,
                        DriftStep, RetryStep
  <1> QED
    BY <1>1, <1>2, DriftIsJudged, PTL DEF Spec

-----------------------------------------------------------------------------
(* The validation of the records of a run.                                 *)

(* What is counted part by part adds up to the count of the whole.         *)
LEMMA CountsAddUp ==
    ASSUME NEW S, IsFiniteSet(S), NEW P, \A i \in S : IsFiniteSet(P[i]),
           NEW w, w = [i \in S |-> Cardinality(P[i])]
    PROVE  /\ IsFiniteSet(UNION {{<<i, x>> : x \in P[i]} : i \in S})
           /\ SumFunction(w) = Cardinality(UNION {{<<i, x>> : x \in P[i]} : i \in S})
  <1> DEFINE Part(i) == {<<i, x>> : x \in P[i]}
             All(s) == UNION {Part(i) : i \in s}
  <1>0. w \in [S -> Int]
    BY FS_CardinalityType
  <1>1. PICK g : IsSum(g, S, w) /\ SumFunction(w) = g[S]
    BY <1>0, SumFunctionIsSum
  <1> DEFINE T == {s \in SUBSET S : IsFiniteSet(All(s)) /\ g[s] = Cardinality(All(s))}
  <1>2. \A i \in S : IsFiniteSet(Part(i)) /\ Cardinality(Part(i)) = Cardinality(P[i])
    <2> SUFFICES ASSUME NEW i \in S
                 PROVE  IsFiniteSet(Part(i)) /\ Cardinality(Part(i)) = Cardinality(P[i])
      OBVIOUS
    <2> DEFINE f == [x \in P[i] |-> <<i, x>>]
    <2>1. f \in Bijection(P[i], Part(i))
      BY DEF Bijection, Injection, Surjection, IsInjective
    <2>2. ExistsBijection(P[i], Part(i))
      BY <2>1 DEF ExistsBijection
    <2>3. IsFiniteSet(P[i])
      OBVIOUS
    <2> HIDE DEF f, Part
    <2> QED
      BY <2>1, <2>2, <2>3, FS_Bijection
  <1>3. {} \in T
    <2>1. All({}) = {}
      OBVIOUS
    <2>2. g[{}] = 0 /\ IsFiniteSet({}) /\ Cardinality({}) = 0
      BY <1>1, FS_EmptySet DEF IsSum
    <2> QED
      BY <2>1, <2>2
  <1>4. ASSUME NEW s \in SUBSET S, NEW i \in S \ s, s \in T
        PROVE  s \cup {i} \in T
    <2> DEFINE t == s \cup {i}
    <2>1. t \in SUBSET S /\ i \in t /\ t \ {i} = s
      OBVIOUS
    <2>2. All(t) = All(s) \cup Part(i)
      OBVIOUS
    <2>3. All(s) \cap Part(i) = {}
      OBVIOUS
    <2> HIDE DEF t, All, Part
    <2>4. g[t] = w[i] + g[s]
      BY <1>1, <2>1 DEF IsSum
    <2>5. IsFiniteSet(All(s)) /\ g[s] = Cardinality(All(s))
      BY <1>4
    <2>6. IsFiniteSet(Part(i)) /\ Cardinality(Part(i)) = w[i]
      BY <1>2
    <2>7. /\ IsFiniteSet(All(t))
          /\ Cardinality(All(t)) = Cardinality(All(s)) + Cardinality(Part(i))
                                     - Cardinality(All(s) \cap Part(i))
      BY <2>2, <2>5, <2>6, FS_Union
    <2>8. Cardinality(All(s) \cap Part(i)) = 0
      BY <2>3, FS_EmptySet
    <2>9. Cardinality(All(s)) \in Nat /\ Cardinality(Part(i)) \in Nat
      BY <2>5, <2>6, FS_CardinalityType
    <2>10. g[t] = Cardinality(All(t))
      BY <2>4, <2>5, <2>6, <2>7, <2>8, <2>9
    <2> QED
      BY <2>1, <2>7, <2>10 DEF t
  <1>5. S \in T
    <2> HIDE DEF T
    <2> QED
      BY <1>3, <1>4, SubsetInduction
  <1> QED
    BY <1>1, <1>5

(* The records of a batch that are invalid, that raise a warning, and that *)
(* have a value in a field.                                                *)
Invalid(b, fields) == {j \in DOMAIN Batches[b] : ~ValidateRecord(Batches[b][j], fields).valid}
Warned(b, fields) == {j \in DOMAIN Batches[b] : ValidateRecord(Batches[b][j], fields).warned}
Populated(b, fields, f) ==
    {j \in DOMAIN Batches[b] : f \in ValidateRecord(Batches[b][j], fields).populated}

(* As all of a batch is looked at, its result counts its records.          *)
LEMMA BatchIsCounted ==
    ASSUME NEW b \in DOMAIN Batches, NEW fields,
           NEW r, r = ValidateBatch(Batches[b], fields)
    PROVE  /\ IsFiniteSet(DOMAIN Batches[b])
           /\ r.total = Cardinality(DOMAIN Batches[b])
           /\ r.valid + r.error = r.total
           /\ r.error = Cardinality(Invalid(b, fields))
           /\ r.warning = Cardinality(Warned(b, fields))
           /\ r.populated = [f \in fields |-> Cardinality(Populated(b, fields, f))]
  <1> DEFINE B == Batches[b]
             n == Len(B)
             seen == {i \in 1..n : Sampled(i - 1, n)}
  <1>1. B \in Seq(Range(B)) /\ n \in Nat /\ DOMAIN B = 1..n
    BY ValidationAssumption
  <1>2. seen = DOMAIN B
    <2>1. SamplingPercent >= 100
      BY ValidationAssumption
    <2> QED
      BY <1>1, <2>1 DEF Sampled
  <1>3. IsFiniteSet(1..n) /\ Cardinality(1..n) = n
    <2>1. IsFiniteSet(1..n) /\ Cardinality(1..n) = IF 1 > n THEN 0 ELSE n - 1 + 1
      BY <1>1, FS_Interval
    <2> QED
      BY <1>1, <2>1
  <1>4. r = [total |-> n,
             valid |-> Cardinality({i \in seen : ValidateRecord(B[i], fields).valid}),
             error |-> Cardinality({i \in seen : ~ValidateRecord(B[i], fields).valid}),
             warning |-> Cardinality({i \in seen : ValidateRecord(B[i], fields).warned}),
             populated |-> [f \in fields |->
                Cardinality({i \in seen : f \in ValidateRecord(B[i], fields).populated})]]
    BY DEF ValidateBatch
  <1>5. IsFiniteSet(seen) /\ \A s \in SUBSET seen : Cardinality(s) \in Nat
    BY <1>1, <1>2, <1>3, FS_Subset, FS_CardinalityType
  <1> HIDE DEF seen, n
  <1>6. r.valid + r.error = r.total
    <2> DEFINE good == {i \in seen : ValidateRecord(B[i], fields).valid}
               bad == {i \in seen : ~ValidateRecord(B[i], fields).valid}
    <2>1. good \cup bad = seen /\ good \cap bad = {}
      OBVIOUS
    <2>2. IsFiniteSet(good) /\ IsFiniteSet(bad)
      BY <1>5, FS_Subset
    <2>3. Cardinality(good) \in Nat /\ Cardinality(bad) \in Nat
      BY <1>5
    <2>4. Cardinality(good \cap bad) = 0
      BY <2>1, FS_EmptySet
    <2>5. r.valid = Cardinality(good) /\ r.error = Cardinality(bad) /\ r.total = n
      BY <1>4
    <2>6. Cardinality(seen) = n
      BY <1>1, <1>2, <1>3 DEF n
    <2> HIDE DEF good, bad
    <2>7. Cardinality(good \cup bad)
            = Cardinality(good) + Cardinality(bad) - Cardinality(good \cap bad)
      BY <2>2, FS_Union
    <2>8. n = Cardinality(good) + Cardinality(bad)
      BY <2>1, <2>3, <2>4, <2>6, <2>7
    <2> QED
      BY <2>5, <2>8
  <1>7. r.error = Cardinality(Invalid(b, fields))
    BY <1>2, <1>4 DEF Invalid
  <1>8. r.warning = Cardinality(Warned(b, fields))
    BY <1>2, <1>4 DEF Warned
  <1>9. r.populated = [f \in fields |-> Cardinality(Populated(b, fields, f))]
    BY <1>2, <1>4 DEF Populated
  <1> QED
    BY <1>1, <1>3, <1>4, <1>6, <1>7, <1>8, <1>9

(* The records of the batches w, each as the place it has in them.         *)
Records(w) == UNION {{<<i, j>> : j \in DOMAIN Batches[w[i]]} : i \in DOMAIN w}

Validity(w, fields, x) == ValidateRecord(Batches[w[x[1]]][x[2]], fields)

(* What is counted in every batch is counted in the records of them all.   *)
LEMMA RecordsAreCounted ==
    ASSUME NEW w \in Seq(DOMAIN Batches), NEW P,
           \A i \in DOMAIN w : P[i] \subseteq DOMAIN Batches[w[i]],
           NEW c, c = [i \in DOMAIN w |-> Cardinality(P[i])]
    PROVE  /\ SumFunction(c) = Cardinality({x \in Records(w) : x[2] \in P[x[1]]})
           /\ IsFiniteSet({x \in Records(w) : x[2] \in P[x[1]]})
  <1> DEFINE S == DOMAIN w
  <1>1. IsFiniteSet(S)
    <2>1. S = 1..Len(w) /\ Len(w) \in Nat
      OBVIOUS
    <2> QED
      BY <2>1, FS_Interval
  <1>2. \A i \in S : IsFiniteSet(P[i])
    <2> SUFFICES ASSUME NEW i \in S PROVE IsFiniteSet(P[i])
      OBVIOUS
    <2>1. w[i] \in DOMAIN Batches
      OBVIOUS
    <2>2. IsFiniteSet(DOMAIN Batches[w[i]])
      BY <2>1, BatchIsCounted
    <2> QED
      BY <2>2, FS_Subset
  <1>3. UNION {{<<i, x>> : x \in P[i]} : i \in S} = {x \in Records(w) : x[2] \in P[x[1]]}
    BY DEF Records
  <1> HIDE DEF S
  <1>4. c = [i \in S |-> Cardinality(P[i])]
    BY DEF S
  <1>5. /\ SumFunction(c) = Cardinality(UNION {{<<i, x>> : x \in P[i]} : i \in S})
        /\ IsFiniteSet(UNION {{<<i, x>> : x \in P[i]} : i \in S})
    BY <1>1, <1>2, <1>4, CountsAddUp
  <1> QED
    BY <1>3, <1>5

(* What r says of its records is so of those of the batches w.             *)
Counts(r, w, fields) ==
    /\ r.total = Cardinality(Records(w))
    /\ r.error = Cardinality({x \in Records(w) : ~Validity(w, fields, x).valid})
    /\ r.warning = Cardinality({x \in Records(w) : Validity(w, fields, x).warned})
    /\ \A f \in DOMAIN r.populated :
          r.populated[f] = Cardinality({x \in Records(w) : f \in Validity(w, fields, x).populated})

(* The results of the batches w.                                           *)
ResultsOf(w, fields) == [i \in 1..Len(w) |-> ValidateBatch(Batches[w[i]], fields)]

(* a is the report on an object that committed the batches w.              *)
ReportOf(a, o, w, fields) ==
    /\ a.name = o
    /\ IsFiniteSet(Records(w))
    /\ a.processed = a.total
    /\ Counts(a, w, fields)
    /\ (a.status = "error") = (a.error > 0)

(* The report on an object counts the records of its batches.              *)
LEMMA ReportIsCounted ==
    ASSUME NEW o, NEW w \in Seq(DOMAIN Batches), NEW fields
    PROVE  ReportOf(AddObjectValidation(o, ResultsOf(w, fields)), o, w, fields)
  <1> DEFINE rs == ResultsOf(w, fields)
             a == AddObjectValidation(o, rs)
  <1>0. rs = [i \in 1..Len(w) |-> ValidateBatch(Batches[w[i]], fields)]
        /\ a = AddObjectValidation(o, rs)
    BY DEF ResultsOf
  <1> HIDE DEF rs, a
  <1> DEFINE S == DOMAIN w
             whole == [i \in S |-> DOMAIN Batches[w[i]]]
             invalid == [i \in S |-> Invalid(w[i], fields)]
             warned == [i \in S |-> Warned(w[i], fields)]
             populated(f) == [i \in S |-> Populated(w[i], fields, f)]
  <1>1. S = 1..Len(w) /\ Len(w) \in Nat /\ DOMAIN rs = 1..Len(w) /\ Len(rs) = Len(w)
    BY <1>0
  <1>2. ASSUME NEW i \in S
        PROVE  /\ rs[i].total = Cardinality(whole[i])
               /\ rs[i].valid + rs[i].error = Cardinality(whole[i])
               /\ rs[i].error = Cardinality(invalid[i])
               /\ rs[i].warning = Cardinality(warned[i])
               /\ rs[i].populated = [g \in fields |-> Cardinality(Populated(w[i], fields, g))]
    <2>1. w[i] \in DOMAIN Batches /\ rs[i] = ValidateBatch(Batches[w[i]], fields)
      BY <1>0, <1>1
    <2> QED
      BY <2>1, BatchIsCounted
  <1> DEFINE totals == [i \in 1..Len(rs) |-> rs[i].total]
             looked == [i \in 1..Len(rs) |-> rs[i].valid + rs[i].error]
             errors == [i \in 1..Len(rs) |-> rs[i].error]
             warnings == [i \in 1..Len(rs) |-> rs[i].warning]
             all == UNION {DOMAIN rs[i].populated : i \in 1..Len(rs)}
             values(f) == [i \in 1..Len(rs) |-> rs[i].populated[f]]
  <1>3. a = [name |-> o, total |-> SumFunction(totals),
             processed |-> SumFunction(looked), error |-> SumFunction(errors),
             warning |-> SumFunction(warnings),
             populated |-> [f \in all |-> SumFunction(values(f))],
             status |-> IF SumFunction(errors) > 0 THEN "error"
                        ELSE IF SumFunction(warnings) > 0 THEN "warning" ELSE "success"]
    BY <1>0 DEF AddObjectValidation, AggregateFieldMetrics
  <1>4. totals = [i \in S |-> Cardinality(whole[i])]
    BY <1>1, <1>2
  <1>5. looked = [i \in S |-> Cardinality(whole[i])]
    BY <1>1, <1>2
  <1>6. errors = [i \in S |-> Cardinality(invalid[i])]
    BY <1>1, <1>2
  <1>7. warnings = [i \in S |-> Cardinality(warned[i])]
    BY <1>1, <1>2
  <1>8. ASSUME NEW f \in all PROVE values(f) = [i \in S |-> Cardinality(populated(f)[i])]
    <2>1. f \in fields
      BY <1>1, <1>2, <1>8
    <2>2. \A i \in S : rs[i].populated[f] = Cardinality(Populated(w[i], fields, f))
      <3> SUFFICES ASSUME NEW i \in S
                   PROVE  rs[i].populated[f] = Cardinality(Populated(w[i], fields, f))
        OBVIOUS
      <3>1. rs[i].populated = [g \in fields |-> Cardinality(Populated(w[i], fields, g))]
        BY <1>2, Zenon
      <3> QED
        BY <2>1, <3>1, Zenon
    <2> QED
      BY <1>1, <2>2
  <1> HIDE DEF totals, looked, errors, warnings, all, values
  <1>9. /\ a.name = o
         /\ a.total = SumFunction(totals)
         /\ a.processed = SumFunction(looked)
         /\ a.error = SumFunction(errors)
         /\ a.warning = SumFunction(warnings)
         /\ a.populated = [f \in all |-> SumFunction(values(f))]
         /\ a.status = IF a.error > 0 THEN "error"
                       ELSE IF a.warning > 0 THEN "warning" ELSE "success"
    BY <1>3
  <1>10. a.total = Cardinality(Records(w)) /\ IsFiniteSet(Records(w))
    <2>1. {x \in Records(w) : x[2] \in whole[x[1]]} = Records(w)
      BY DEF Records
    <2> HIDE DEF whole
    <2>2. \A i \in S : whole[i] \subseteq DOMAIN Batches[w[i]]
      BY DEF whole
    <2>3. /\ SumFunction(totals) = Cardinality({x \in Records(w) : x[2] \in whole[x[1]]})
          /\ IsFiniteSet({x \in Records(w) : x[2] \in whole[x[1]]})
      BY <1>4, <2>2, RecordsAreCounted, Zenon
    <2> QED
      BY <1>9, <2>1, <2>3
  <1>11. a.error = Cardinality({x \in Records(w) : ~Validity(w, fields, x).valid})
    <2>1. {x \in Records(w) : x[2] \in invalid[x[1]]}
            = {x \in Records(w) : ~Validity(w, fields, x).valid}
      BY DEF Records, Validity, Invalid
    <2>2. \A i \in S : invalid[i] \subseteq DOMAIN Batches[w[i]]
      BY DEF Invalid
    <2> HIDE DEF invalid
    <2>3. /\ SumFunction(errors) = Cardinality({x \in Records(w) : x[2] \in invalid[x[1]]})
          /\ IsFiniteSet({x \in Records(w) : x[2] \in invalid[x[1]]})
      BY <1>6, <2>2, RecordsAreCounted, Zenon
    <2> QED
      BY <1>9, <2>1, <2>3
  <1>12. a.warning = Cardinality({x \in Records(w) : Validity(w, fields, x).warned})
    <2>1. {x \in Records(w) : x[2] \in warned[x[1]]}
            = {x \in Records(w) : Validity(w, fields, x).warned}
      BY DEF Records, Validity, Warned
    <2>2. \A i \in S : warned[i] \subseteq DOMAIN Batches[w[i]]
      BY DEF Warned
    <2> HIDE DEF warned
    <2>3. /\ SumFunction(warnings) = Cardinality({x \in Records(w) : x[2] \in warned[x[1]]})
          /\ IsFiniteSet({x \in Records(w) : x[2] \in warned[x[1]]})
      BY <1>7, <2>2, RecordsAreCounted, Zenon
    <2> QED
      BY <1>9, <2>1, <2>3
  <1>13. ASSUME NEW f \in DOMAIN a.populated
         PROVE  a.populated[f]
                   = Cardinality({x \in Records(w) : f \in Validity(w, fields, x).populated})
    <2> DEFINE P == populated(f)
    <2>1. {x \in Records(w) : x[2] \in P[x[1]]}
            = {x \in Records(w) : f \in Validity(w, fields, x).populated}
      BY DEF Records, Validity, Populated
    <2>2. \A i \in S : P[i] \subseteq DOMAIN Batches[w[i]]
      BY DEF Populated
    <2>3. f \in all /\ a.populated[f] = SumFunction(values(f))
      BY <1>9, <1>13
    <2>4. values(f) = [i \in S |-> Cardinality(P[i])]
      BY <1>8, <2>3
    <2> HIDE DEF P
    <2> QED
      <3>1. SumFunction(values(f)) = Cardinality({x \in Records(w) : x[2] \in P[x[1]]})
        BY <2>2, <2>4, RecordsAreCounted, Zenon
      <3> QED
        BY <2>1, <2>3, <3>1
  <1>14. (a.status = "error") = (a.error > 0)
    BY <1>9
  <1>15. a.processed = a.total
    BY <1>4, <1>5, <1>9
  <1> QED
    BY <1>9, <1>15, <1>10, <1>11, <1>12, <1>13, <1>14 DEF Counts, ReportOf, a, rs

Outcome ==
    {ValidateBatch(Batches[b], fields) :
        b \in DOMAIN Batches, fields \in {{}, DOMAIN SchemaFields}}

BatchWorker == [at : {"idle", "range", "stats", "done", "failed"}, attempt : Nat,
                results : Seq(Outcome), written : Seq(DOMAIN Batches)]

ValidationTypeOK ==
    /\ worker \in [Objects -> BatchWorker]
    /\ committed \in [Objects -> Seq(DOMAIN Batches)]

(* A worker has the results of the batches it has written: of this attempt,*)
(* and of no other.                                                        *)
OwnResults(o, k) == k.results = ResultsOf(k.written, FieldsOf(o))

(* In strict mode a batch with errors is the last of its attempt.          *)
Clean(k) ==
    strict => \A i \in DOMAIN k.results :
                  \/ k.at \in {"range", "done"}
                  \/ k.at = "stats" /\ i < Len(k.results)
                  => ~HasErrors(k.results[i])

CommitsKept ==
    /\ results = {o \in Objects : worker[o].at = "done"}
    /\ \A o \in results : committed[o] = worker[o].written

(* What ReportMatchesCommits says, of the counts in one word.             *)
ReportMatches ==
    report # NoReport =>
        /\ {r.name : r \in report.objects} = {o \in Objects : worker[o].at = "done"}
        /\ \A r \in report.objects :
              /\ Counts(r, committed[r.name], FieldsOf(r.name))
              /\ strict => r.status # "error"
        /\ \A alert \in report.alerts :
              \E r \in report.objects : r.name = alert.object /\ r.error > 0
        /\ (report.status = "error") = (\E r \in report.objects : r.error > 0)

LEMMA MatchingReport == ReportMatches => ReportMatchesCommits
  <1> SUFFICES ASSUME ReportMatches, report # NoReport
               PROVE  ReportMatchesCommits
    BY DEF ReportMatchesCommits
  <1>1. ASSUME NEW r \in report.objects
        PROVE  LET batch(i) == Batches[committed[r.name][i]]
                   records == UNION {{<<i, j>> : j \in DOMAIN batch(i)}
                                        : i \in DOMAIN committed[r.name]}
                   Of(x) == ValidateRecord(batch(x[1])[x[2]], FieldsOf(r.name))
                   Number(Is(_)) == Cardinality({x \in records : Is(Of(x))})
               IN /\ r.total = Cardinality(records)
                  /\ r.error = Number(LAMBDA v : ~v.valid)
                  /\ r.warning = Number(LAMBDA v : v.warned)
                  /\ \A f \in DOMAIN r.populated :
                        r.populated[f] = Number(LAMBDA v : f \in v.populated)
                  /\ strict => r.status # "error"
    <2>1. Counts(r, committed[r.name], FieldsOf(r.name)) /\ (strict => r.status # "error")
      BY DEF ReportMatches
    <2> QED
      BY <2>1 DEF Counts, Records, Validity
  <1>2. /\ {r.name : r \in report.objects} = {o \in Objects : worker[o].at = "done"}
        /\ \A alert \in report.alerts :
              \E r \in report.objects : r.name = alert.object /\ r.error > 0
        /\ (report.status = "error") = (\E r \in report.objects : r.error > 0)
    BY DEF ReportMatches
  <1> QED
    BY <1>1, <1>2 DEF ReportMatchesCommits

ValidationInv ==
    /\ ValidationTypeOK
    /\ \A o \in Objects : OwnResults(o, worker[o]) /\ Clean(worker[o])
    /\ CommitsKept
    /\ report # NoReport => run = "done"
    /\ ReportMatches

LEMMA ValidationInvInit == ValidationInit => ValidationInv
  <1> SUFFICES ASSUME ValidationInit PROVE ValidationInv
    OBVIOUS
  <1> USE DEF ValidationInit
  <1>1. Idle \in BatchWorker
    BY DEF Idle, BatchWorker
  <1>2. ValidationTypeOK
    BY <1>1 DEF ValidationTypeOK
  <1>3. \A o \in Objects : OwnResults(o, Idle) /\ Clean(Idle)
    BY DEF Idle, OwnResults, ResultsOf, Clean
  <1>4. \A o \in Objects : worker[o] = Idle /\ Idle.at = "idle"
    BY DEF Idle
  <1>5. CommitsKept
    BY <1>4 DEF CommitsKept
  <1> QED
    BY <1>2, <1>3, <1>4, <1>5 DEF ValidationInv, ReportMatches

(* A step of one worker that does not commit.                              *)
LEMMA WorkerMoves ==
    ASSUME ValidationInv, NEW o \in Objects, run = "syncing", NEW k \in BatchWorker,
           k.at # "done", worker[o].at # "done", OwnResults(o, k), Clean(k),
           worker' = [worker EXCEPT ![o] = k],
           UNCHANGED <<strict, schema, committed, results, report>>
    PROVE  ValidationInv'
  <1> USE DEF ValidationInv
  <1>1. ValidationTypeOK'
    BY DEF ValidationTypeOK
  <1>2. worker'[o] = k /\ \A p \in Objects : p # o => worker'[p] = worker[p]
    BY DEF ValidationTypeOK
  <1>3. ASSUME NEW p \in Objects PROVE (OwnResults(p, worker[p]) /\ Clean(worker[p]))'
    <2>1. OwnResults(p, worker'[p]) /\ Clean(worker'[p])
      BY <1>2
    <2>2. FieldsOf(p)' = FieldsOf(p)
      BY DEF FieldsOf
    <2> QED
      BY <2>1, <2>2 DEF OwnResults, ResultsOf, Clean
  <1>4. CommitsKept'
    BY <1>2 DEF CommitsKept
  <1>5. report = NoReport
    OBVIOUS
  <1> QED
    BY <1>1, <1>3, <1>4, <1>5 DEF ReportMatches

LEMMA AttemptKeeps ==
    ASSUME ValidationInv, NEW o \in Objects,
           StartAttempt(o) \/ FailAttempt(o) \/ GiveUp(o)
    PROVE  ValidationInv'
  <1>1. worker[o] \in BatchWorker /\ OwnResults(o, worker[o]) /\ Clean(worker[o])
    BY DEF ValidationInv, ValidationTypeOK
  <1>2. CASE StartAttempt(o)
    <2> DEFINE n == worker[o].attempt + 1
               k == [worker[o] EXCEPT !.at = "range", !.attempt = n, !.results = <<>>,
                                      !.written = <<>>]
    <2>1. n \in Nat /\ <<>> \in Seq(Outcome) /\ <<>> \in Seq(DOMAIN Batches)
      BY <1>1 DEF BatchWorker
    <2>2. worker' = [worker EXCEPT ![o] = k]
      BY <1>2 DEF StartAttempt
    <2> HIDE DEF n
    <2>3. k \in BatchWorker
      BY <1>1, <2>1 DEF BatchWorker
    <2>4. k.at = "range" /\ k.results = <<>> /\ k.written = <<>>
      BY <1>1 DEF BatchWorker
    <2> HIDE DEF k
    <2>5. OwnResults(o, k) /\ Clean(k)
      BY <2>4 DEF OwnResults, ResultsOf, Clean
    <2> QED
      BY <1>2, <2>2, <2>3, <2>4, <2>5, WorkerMoves DEF StartAttempt
  <1>3. CASE FailAttempt(o) \/ GiveUp(o)
    <2>1. PICK at \in {"idle", "failed"} : worker' = [worker EXCEPT ![o].at = at]
      BY <1>3 DEF FailAttempt, GiveUp, Fail
    <2> DEFINE k == [worker[o] EXCEPT !.at = at]
    <2>2. k = [at |-> at, attempt |-> worker[o].attempt, results |-> worker[o].results,
               written |-> worker[o].written]
      BY <1>1 DEF BatchWorker
    <2>3. k \in BatchWorker
      BY <1>1, <2>2 DEF BatchWorker
    <2>4. OwnResults(o, k) /\ Clean(k)
      BY <1>1, <2>1, <2>2 DEF OwnResults, ResultsOf, Clean
    <2>5. worker' = [worker EXCEPT ![o] = k]
      BY <2>1
    <2>6. k.at # "done"
      BY <2>1, <2>2
    <2> HIDE DEF k
    <2> QED
      BY <1>3, <2>3, <2>4, <2>5, <2>6, WorkerMoves DEF FailAttempt, GiveUp
  <1> QED
    BY <1>2, <1>3

(* A batch that is validated adds its result to those of its attempt.      *)
LEMMA ValidateKeeps ==
    ASSUME ValidationInv, NEW o \in Objects, NEW batch \in DOMAIN Batches,
           Validate(o, batch)
    PROVE  ValidationInv'
  <1>1. worker[o] \in BatchWorker /\ OwnResults(o, worker[o]) /\ Clean(worker[o])
    BY DEF ValidationInv, ValidationTypeOK
  <1>2. CASE schema[o] = "nil"
    <2>1. UNCHANGED <<strict, schema, worker, committed, results, report>> /\ run = "syncing"
      BY <1>2 DEF Validate
    <2> QED
      BY <2>1 DEF ValidationInv, ValidationTypeOK, OwnResults, Clean, FieldsOf,
                  CommitsKept, ReportMatches
  <1>3. CASE schema[o] # "nil"
    <2> DEFINE r == ValidateBatch(Batches[batch], FieldsOf(o))
               rs == Append(worker[o].results, r)
               w == Append(worker[o].written, batch)
               k == [worker[o] EXCEPT !.at = "stats", !.results = rs, !.written = w]
    <2>1. r \in Outcome
      BY DEF Outcome, FieldsOf
    <2>2. r = ValidateBatch(Batches[batch], FieldsOf(o))
      OBVIOUS
    <2>3. worker' = [worker EXCEPT ![o] = k]
      BY <1>3 DEF Validate
    <2>4. worker[o].results \in Seq(Outcome) /\ worker[o].written \in Seq(DOMAIN Batches)
          /\ rs \in Seq(Outcome) /\ w \in Seq(DOMAIN Batches)
      BY <1>1, <2>1 DEF BatchWorker
    <2>5. rs = Append(worker[o].results, r) /\ w = Append(worker[o].written, batch)
      OBVIOUS
    <2> HIDE DEF r, rs, w
    <2>6. k \in BatchWorker
      BY <1>1, <2>4 DEF BatchWorker
    <2>7. k.at = "stats" /\ k.results = rs /\ k.written = w
      BY <1>1 DEF BatchWorker
    <2> HIDE DEF k
    <2>8. OwnResults(o, k)
      <3> DEFINE u == worker[o].written
                 us == worker[o].results
                 Result(b) == ValidateBatch(Batches[b], FieldsOf(o))
      <3>1. us = [i \in 1..Len(u) |-> Result(u[i])] /\ r = Result(batch)
        BY <1>1, <2>2 DEF OwnResults, ResultsOf
      <3>2. k.results = Append(us, r) /\ k.written = Append(u, batch)
        BY <2>7, <2>5
      <3>3. u \in Seq(DOMAIN Batches) /\ us \in Seq(Outcome)
        BY <2>4
      <3> HIDE DEF u, us, Result
      <3>4. /\ Len(us) = Len(u) /\ Len(u) \in Nat
            /\ \A i \in 1..Len(u) : us[i] = Result(u[i])
        BY <3>1, <3>3
      <3>5. Append(us, r) = [i \in 1..Len(u) + 1 |-> IF i = Len(u) + 1 THEN r ELSE us[i]]
        <4> DEFINE s == Append(us, r)
        <4>1. /\ s \in Seq(Outcome) /\ Len(s) = Len(us) + 1
              /\ \A i \in 1..Len(us) + 1 : s[i] = IF i = Len(us) + 1 THEN r ELSE us[i]
          BY <2>1, <3>3
        <4> HIDE DEF s
        <4>2. s = [i \in 1..Len(s) |-> s[i]]
          BY <4>1
        <4>3. s = [i \in 1..Len(u) + 1 |-> IF i = Len(u) + 1 THEN r ELSE us[i]]
          BY <3>4, <4>1, <4>2
        <4> QED
          BY <4>3 DEF s
      <3>6. /\ Len(Append(u, batch)) = Len(u) + 1
            /\ \A i \in 1..Len(u) + 1 :
                  Append(u, batch)[i] = IF i = Len(u) + 1 THEN batch ELSE u[i]
        BY <3>3
      <3>7. \A i \in 1..Len(u) + 1 :
                (IF i = Len(u) + 1 THEN r ELSE us[i]) = Result(Append(u, batch)[i])
        BY <3>1, <3>4, <3>6
      <3>8. Append(us, r) = [i \in 1..Len(u) + 1 |-> Result(Append(u, batch)[i])]
        BY <3>5, <3>7
      <3> QED
        BY <3>2, <3>6, <3>8 DEF OwnResults, ResultsOf, Result
    <2>9. Clean(k)
      <3> SUFFICES ASSUME strict, NEW i \in DOMAIN k.results, i < Len(k.results)
                   PROVE  ~HasErrors(k.results[i])
        BY <2>7 DEF Clean
      <3>1. i \in DOMAIN worker[o].results /\ k.results[i] = worker[o].results[i]
        BY <2>1, <2>7, <2>4, <2>5
      <3>2. worker[o].at = "range"
        BY DEF Validate
      <3> QED
        BY <1>1, <3>1, <3>2 DEF Clean
    <2>10. k.at # "done" /\ worker[o].at # "done"
      BY <2>7 DEF Validate
    <2> QED
      BY <1>3, <2>3, <2>6, <2>8, <2>9, <2>10, WorkerMoves DEF Validate
  <1> QED
    BY <1>2, <1>3

(* A batch that is written had no errors, in strict mode.                  *)
LEMMA WriteBatchKeeps ==
    ASSUME ValidationInv, NEW o \in Objects, WriteBatch(o)
    PROVE  ValidationInv'
  <1>1. worker[o] \in BatchWorker /\ OwnResults(o, worker[o]) /\ Clean(worker[o])
    BY DEF ValidationInv, ValidationTypeOK
  <1>2. PICK at \in {"range", "idle", "failed"} :
            /\ worker' = [worker EXCEPT ![o].at = at]
            /\ at = "range" => ~(strict /\ HasErrors(Last(worker[o].results)))
    BY DEF WriteBatch, Fail
  <1> DEFINE k == [worker[o] EXCEPT !.at = at]
  <1>3. k = [at |-> at, attempt |-> worker[o].attempt, results |-> worker[o].results,
             written |-> worker[o].written]
    BY <1>1 DEF BatchWorker
  <1>4. k \in BatchWorker
    BY <1>1, <1>3 DEF BatchWorker
  <1>5. OwnResults(o, k)
    BY <1>1, <1>3 DEF OwnResults, ResultsOf
  <1>6. Clean(k)
    <2> SUFFICES ASSUME strict, NEW i \in DOMAIN worker[o].results, at = "range"
                 PROVE  ~HasErrors(worker[o].results[i])
      BY <1>2, <1>3 DEF Clean
    <2>1. worker[o].at = "stats"
      BY DEF WriteBatch
    <2>2. worker[o].results \in Seq(Outcome)
      BY <1>1 DEF BatchWorker
    <2>3. CASE i < Len(worker[o].results)
      BY <1>1, <2>1, <2>3 DEF Clean
    <2>4. CASE i = Len(worker[o].results)
      BY <1>2, <2>4 DEF Last
    <2> QED
      BY <2>2, <2>3, <2>4
  <1>7. worker' = [worker EXCEPT ![o] = k]
    BY <1>2
  <1>8. k.at # "done" /\ worker[o].at # "done"
    BY <1>2, <1>3 DEF WriteBatch
  <1> HIDE DEF k
  <1> QED
    BY <1>4, <1>5, <1>6, <1>7, <1>8, WorkerMoves DEF WriteBatch

LEMMA CommitKeeps ==
    ASSUME ValidationInv, NEW o \in Objects, Commit(o)
    PROVE  ValidationInv'
  <1>1. worker[o] \in BatchWorker /\ OwnResults(o, worker[o]) /\ Clean(worker[o])
    BY DEF ValidationInv, ValidationTypeOK
  <1> DEFINE k == [worker[o] EXCEPT !.at = "done"]
  <1>2. k = [at |-> "done", attempt |-> worker[o].attempt, results |-> worker[o].results,
             written |-> worker[o].written]
    BY <1>1 DEF BatchWorker
  <1>3. k \in BatchWorker /\ k.written = worker[o].written /\ k.at = "done"
    BY <1>1, <1>2 DEF BatchWorker
  <1>4. OwnResults(o, k)
    BY <1>1, <1>2 DEF OwnResults, ResultsOf
  <1>5. Clean(k)
    BY <1>1, <1>2 DEF Clean, Commit
  <1>6. /\ worker' = [worker EXCEPT ![o] = k]
        /\ committed' = [committed EXCEPT ![o] = worker[o].written]
        /\ results' = results \cup {o}
        /\ UNCHANGED <<strict, schema, report, run>>
        /\ run = "syncing"
    BY DEF Commit
  <1> HIDE DEF k
  <1>7. /\ worker \in [Objects -> BatchWorker]
        /\ committed \in [Objects -> Seq(DOMAIN Batches)]
        /\ worker[o].written \in Seq(DOMAIN Batches)
    BY <1>1 DEF ValidationInv, ValidationTypeOK, BatchWorker
  <1>8. ValidationTypeOK'
    BY <1>3, <1>6, <1>7 DEF ValidationTypeOK
  <1>9. worker'[o] = k /\ \A p \in Objects : p # o => worker'[p] = worker[p]
    BY <1>6, <1>7
  <1>10. ASSUME NEW p \in Objects PROVE (OwnResults(p, worker[p]) /\ Clean(worker[p]))'
    <2>1. OwnResults(p, worker'[p]) /\ Clean(worker'[p])
      BY <1>4, <1>5, <1>9 DEF ValidationInv
    <2>2. FieldsOf(p)' = FieldsOf(p)
      BY <1>6 DEF FieldsOf
    <2> QED
      BY <1>6, <2>1, <2>2 DEF OwnResults, ResultsOf, Clean
  <1>11. CommitsKept'
    <2>1. results' = {p \in Objects : worker'[p].at = "done"}
      BY <1>3, <1>6, <1>9 DEF ValidationInv, CommitsKept
    <2>2. ASSUME NEW p \in results' PROVE committed'[p] = worker'[p].written
      BY <1>3, <1>6, <1>7, <1>9 DEF ValidationInv, CommitsKept
    <2> QED
      BY <2>1, <2>2 DEF CommitsKept
  <1>12. report' = NoReport
    BY <1>6 DEF ValidationInv
  <1> QED
    BY <1>8, <1>10, <1>11, <1>12 DEF ValidationInv, ReportMatches

(* No alert is raised by an object without errors.                         *)
LEMMA AlertMeansErrors ==
    ASSUME NEW reports, NEW alert \in GenerateAlerts(reports),
           \A r \in reports : r.error \in Nat /\ r.processed \in Nat
    PROVE  \E r \in reports : r.name = alert.object /\ r.error > 0
  <1>1. PICK r \in reports :
            /\ alert = [object |-> r.name, severity |-> DetermineSeverity(r)]
            /\ 100 * r.error > ErrorThreshold * r.processed
    BY DEF GenerateAlerts
  <1>2. ErrorThreshold * r.processed \in Nat /\ r.error \in Nat
    <2>1. ErrorThreshold \in Nat /\ r.processed \in Nat
      BY ValidationAssumption
    <2> QED
      BY <2>1
  <1>3. ErrorThreshold * r.processed >= 0
    BY <1>2
  <1>4. r.error > 0
    BY <1>1, <1>2, <1>3
  <1> QED
    BY <1>1, <1>4

LEMMA SaveReportKeeps == ValidationInv /\ SaveReport => ValidationInv'
  <1> SUFFICES ASSUME ValidationInv, SaveReport PROVE ValidationInv'
    OBVIOUS
  <1> DEFINE a(o) == AddObjectValidation(o, worker[o].results)
             reports == {a(o) : o \in results}
             saved == [objects |-> reports, alerts |-> GenerateAlerts(reports),
                       status |-> FinalizeReport(reports)]
  <1>1. /\ UNCHANGED <<strict, schema, worker, committed, results>>
        /\ run' = "done" /\ report = NoReport
        /\ report' = report \/ report' = saved
    BY DEF SaveReport, ValidationInv
  <1>2. /\ ValidationTypeOK' /\ CommitsKept'
        /\ \A o \in Objects : (OwnResults(o, worker[o]) /\ Clean(worker[o]))'
    <2>1. \A o \in Objects : FieldsOf(o)' = FieldsOf(o)
      BY <1>1 DEF FieldsOf
    <2> HIDE DEF saved
    <2> QED
      BY <1>1, <2>1 DEF ValidationInv, ValidationTypeOK, CommitsKept, OwnResults,
                  Clean
  <1>3. CASE report' = report
    <2> HIDE DEF saved
    <2> QED
      BY <1>1, <1>2, <1>3 DEF ValidationInv, ReportMatches
  <1>4. CASE report' = saved
    <2>1. results = {o \in Objects : worker[o].at = "done"}
      BY DEF ValidationInv, CommitsKept
    <2>2. ASSUME NEW o \in results
          PROVE  ReportOf(a(o), o, committed[o], FieldsOf(o))
      <3>1. committed[o] \in Seq(DOMAIN Batches) /\ committed[o] = worker[o].written
            /\ o \in Objects
        BY <2>1 DEF ValidationInv, ValidationTypeOK, CommitsKept
      <3>2. worker[o].results = ResultsOf(committed[o], FieldsOf(o))
        BY <3>1 DEF ValidationInv, OwnResults
      <3> QED
        BY <3>1, <3>2, ReportIsCounted
    <2>3. saved = [objects |-> reports, alerts |-> GenerateAlerts(reports),
                   status |-> FinalizeReport(reports)]
      OBVIOUS
    <2> HIDE DEF a, saved
    <2>4. ASSUME NEW o \in results PROVE a(o).error \in Nat /\ a(o).total \in Nat
      <3> DEFINE bad == {x \in Records(committed[o]) :
                            ~Validity(committed[o], FieldsOf(o), x).valid}
      <3>1. bad \subseteq Records(committed[o])
        OBVIOUS
      <3>2. a(o).error = Cardinality(bad) /\ IsFiniteSet(Records(committed[o]))
            /\ a(o).total = Cardinality(Records(committed[o]))
        BY <2>2 DEF ReportOf, Counts
      <3> HIDE DEF bad
      <3> QED
        BY <3>1, <3>2, FS_Subset, FS_CardinalityType
    <2>5. \A alert \in GenerateAlerts(reports) :
              \E r \in reports : r.name = alert.object /\ r.error > 0
      <3>1. \A r \in reports : r.error \in Nat /\ r.processed \in Nat
        BY <2>2, <2>4 DEF ReportOf
      <3> HIDE DEF reports
      <3> QED
        BY <3>1, AlertMeansErrors
    <2>6. ASSUME NEW o \in results, strict PROVE a(o).status # "error"
      <3>1. o \in Objects /\ worker[o].at = "done"
            /\ worker[o] \in BatchWorker /\ Clean(worker[o]) /\ OwnResults(o, worker[o])
            /\ committed[o] = worker[o].written
        BY <2>1 DEF ValidationInv, ValidationTypeOK, CommitsKept
      <3>2. \A i \in DOMAIN worker[o].results : ~HasErrors(worker[o].results[i])
        BY <2>6, <3>1 DEF Clean
      <3> DEFINE w == committed[o]
                 bad == {x \in Records(w) : ~Validity(w, FieldsOf(o), x).valid}
      <3>3. ASSUME NEW i \in DOMAIN w PROVE Invalid(w[i], FieldsOf(o)) = {}
        <4> DEFINE r == ValidateBatch(Batches[w[i]], FieldsOf(o))
        <4>1. w \in Seq(DOMAIN Batches)
          BY <3>1 DEF BatchWorker
        <4>2. w[i] \in DOMAIN Batches /\ i \in 1..Len(w)
          BY <4>1
        <4>3. i \in DOMAIN worker[o].results /\ worker[o].results[i] = r
          BY <3>1, <4>2 DEF OwnResults, ResultsOf
        <4>4. ~(r.error > 0)
          BY <3>2, <4>3 DEF HasErrors
        <4>5. r.error = Cardinality(Invalid(w[i], FieldsOf(o)))
              /\ IsFiniteSet(DOMAIN Batches[w[i]])
          <5> DEFINE b == w[i]
                     fields == FieldsOf(o)
          <5>1. b \in DOMAIN Batches
            BY <4>2
          <5> HIDE DEF b, fields
          <5>2. ValidateBatch(Batches[b], fields).error = Cardinality(Invalid(b, fields))
            <6> DEFINE q == ValidateBatch(Batches[b], fields)
            <6>1. q = ValidateBatch(Batches[b], fields)
              OBVIOUS
            <6> HIDE DEF q
            <6>2. q.error = Cardinality(Invalid(b, fields))
              BY <5>1, <6>1, BatchIsCounted, ZenonT(30)
            <6> QED
              BY <6>1, <6>2, Zenon
          <5>3. IsFiniteSet(DOMAIN Batches[b])
            BY <5>1, BatchIsCounted
          <5> QED
            BY <5>2, <5>3 DEF b, fields
        <4>6. Invalid(w[i], FieldsOf(o)) \subseteq DOMAIN Batches[w[i]]
          BY DEF Invalid
        <4> HIDE DEF r, w
        <4>7. IsFiniteSet(Invalid(w[i], FieldsOf(o)))
          BY <4>5, <4>6, FS_Subset
        <4>8. Cardinality(Invalid(w[i], FieldsOf(o))) = 0
          BY <4>4, <4>5, <4>7, FS_CardinalityType
        <4> QED
          BY <4>7, <4>8, FS_EmptySet
      <3>4. bad = {}
        BY <3>3 DEF Records, Validity, Invalid
      <3>5. a(o).error = Cardinality(bad) /\ (a(o).status = "error") = (a(o).error > 0)
        BY <2>2 DEF ReportOf, Counts
      <3> HIDE DEF bad
      <3>6. a(o).error = 0
        BY <3>4, <3>5, FS_EmptySet
      <3> QED
        BY <3>5, <3>6
    <2>7. /\ report'.objects = reports /\ report'.alerts = GenerateAlerts(reports)
          /\ report'.status = FinalizeReport(reports)
      BY <1>4, <2>3
    <2>8. {r.name : r \in report'.objects} = {o \in Objects : worker'[o].at = "done"}
      <3>1. {r.name : r \in reports} = {a(o).name : o \in results}
        OBVIOUS
      <3>2. {a(o).name : o \in results} = results
        BY <2>2 DEF ReportOf
      <3> QED
        BY <1>1, <2>1, <2>7, <3>1, <3>2
    <2>9. (report'.status = "error") = (\E r \in report'.objects : r.error > 0)
      <3>1. (FinalizeReport(reports) = "error") = (\E r \in reports : r.status = "error")
        BY DEF FinalizeReport
      <3>2. \A r \in reports : (r.status = "error") = (r.error > 0)
        BY <2>2 DEF ReportOf
      <3> HIDE DEF reports
      <3> QED
        BY <2>7, <3>1, <3>2
    <2>10. ASSUME NEW r \in report'.objects
           PROVE  /\ Counts(r, committed'[r.name], FieldsOf(r.name)')
                  /\ strict' => r.status # "error"
      <3>1. PICK o \in results : r = a(o)
        BY <2>7
      <3>2. r.name = o /\ Counts(r, committed[o], FieldsOf(o))
        BY <2>2, <3>1 DEF ReportOf
      <3>3. strict' => r.status # "error"
        BY <1>1, <2>6, <3>1
      <3>4. FieldsOf(r.name)' = FieldsOf(o) /\ committed'[r.name] = committed[o]
        BY <1>1, <3>2 DEF FieldsOf
      <3> QED
        BY <3>2, <3>3, <3>4
    <2>11. ReportMatches'
      <3>1. \A alert \in report'.alerts :
                \E r \in report'.objects : r.name = alert.object /\ r.error > 0
        BY <2>5, <2>7
      <3> HIDE DEF reports
      <3> QED
        BY <2>8, <2>9, <2>10, <3>1 DEF ReportMatches
    <2> QED
      BY <1>1, <1>2, <2>11 DEF ValidationInv
  <1> QED
    BY <1>1, <1>3, <1>4

LEMMA ValidationInvNext == ValidationInv /\ ValidationNext => ValidationInv'
  <1> SUFFICES ASSUME ValidationInv, ValidationNext PROVE ValidationInv'
    OBVIOUS
  <1>1. CASE \E o \in Objects : StartAttempt(o) \/ FailAttempt(o) \/ GiveUp(o)
    BY <1>1, AttemptKeeps
  <1>2. CASE \E o \in Objects : WriteBatch(o)
    BY <1>2, WriteBatchKeeps
  <1>3. CASE \E o \in Objects : Commit(o)
    BY <1>3, CommitKeeps
  <1>4. CASE \E o \in Objects : \E batch \in DOMAIN Batches : Validate(o, batch)
    BY <1>4, ValidateKeeps
  <1>5. CASE EndSync
    <2>1. /\ UNCHANGED <<strict, schema, worker, committed, results, report>>
          /\ run = "syncing"
      BY <1>5 DEF EndSync
    <2> QED
      BY <2>1 DEF ValidationInv, ValidationTypeOK, OwnResults, Clean, FieldsOf, CommitsKept,
                  ReportMatches
  <1>6. CASE SaveReport
    BY <1>6, SaveReportKeeps
  <1> QED
    BY <1>1, <1>2, <1>3, <1>4, <1>5, <1>6 DEF ValidationNext

(* A saved report counts the records that the run committed, however many  *)
(* attempts each object took and in whatever order the workers went; it    *)
(* alerts only of objects with errors, and in strict mode there are none.  *)
THEOREM ReportsMatchCommits == Spec => []ReportMatchesCommits
  <1>1. Init => ValidationInv
    BY ValidationInvInit DEF Init
  <1>2. ValidationInv /\ [Next]_vars => ValidationInv'
    <2> SUFFICES ASSUME ValidationInv, [Next]_vars PROVE ValidationInv'
      OBVIOUS
    <2>1. CASE ValidationNext
      BY <2>1, ValidationInvNext
    <2>2. CASE UNCHANGED validationVars
      BY <2>2 DEF validationVars, ValidationInv, ValidationTypeOK, OwnResults, Clean, FieldsOf,
                  CommitsKept, ReportMatches
    <2> QED
      BY <2>1, <2>2 DEF Next, vars, MonitorStep, ValidationStep, RuntimeStep, ProfilerStep,
                        DriftStep, RetryStep
  <1>3. ValidationInv => ReportMatchesCommits
    BY MatchingReport DEF ValidationInv
  <1> QED
    BY <1>1, <1>2, <1>3, PTL DEF Spec
=============================================================================
