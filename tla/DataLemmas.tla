----------------------------- MODULE DataLemmas -----------------------------
(***************************************************************************)
(* What Append and Tail do to the elements of a queue, as the proofs about *)
(* ArrayQueue and DnsThreaded need it: which elements there are, that none *)
(* occurs twice, and how often one occurs.  And what the sum of a function *)
(* over a finite set is, which StatsAgree is about.                        *)
(***************************************************************************)
EXTENDS Integers, Sequences, FiniteSets, Functions, FiniteSetTheorems,
        WellFoundedInduction, TLAPS

LEMMA RangeIs ==
  ASSUME NEW S, NEW s \in Seq(S)
  PROVE  /\ Range(s) \subseteq S
         /\ \A x : x \in Range(s) <=> \E i \in 1 .. Len(s) : s[i] = x
  BY DEF Range

(* A string is put at the end ...                                           *)
LEMMA AppendElements ==
  ASSUME NEW S, NEW s \in Seq(S), NEW e \in S
  PROVE  /\ Append(s, e) \in Seq(S)
         /\ Range(Append(s, e)) = Range(s) \cup {e}
         /\ IsInjective(s) /\ e \notin Range(s) => IsInjective(Append(s, e))
<1>1. /\ Append(s, e) \in Seq(S) /\ Len(Append(s, e)) = Len(s) + 1
      /\ \A i \in 1 .. Len(s) : Append(s, e)[i] = s[i]
      /\ Append(s, e)[Len(s) + 1] = e
  OBVIOUS
<1>2. DOMAIN s = 1 .. Len(s) /\ DOMAIN Append(s, e) = 1 .. Len(s) + 1 /\ Len(s) \in Nat
  BY <1>1
<1>3. Range(Append(s, e)) = Range(s) \cup {e}
  BY <1>1, <1>2 DEF Range
<1>4. ASSUME IsInjective(s), e \notin Range(s) PROVE IsInjective(Append(s, e))
  BY <1>1, <1>2, <1>4 DEF IsInjective, Range
<1> QED
  BY <1>1, <1>3, <1>4

(* ... and taken from the front.                                            *)
LEMMA TailElements ==
  ASSUME NEW S, NEW s \in Seq(S), s # <<>>
  PROVE  /\ Tail(s) \in Seq(S)
         /\ Head(s) \in Range(s)
         /\ Range(s) = Range(Tail(s)) \cup {Head(s)}
         /\ IsInjective(s) => IsInjective(Tail(s)) /\ Head(s) \notin Range(Tail(s))
<1>1. /\ Tail(s) \in Seq(S) /\ Len(Tail(s)) = Len(s) - 1 /\ Len(s) \in Nat \ {0}
      /\ \A i \in 1 .. Len(s) - 1 : Tail(s)[i] = s[i + 1]
      /\ Head(s) = s[1]
  OBVIOUS
<1>2. DOMAIN s = 1 .. Len(s) /\ DOMAIN Tail(s) = 1 .. Len(s) - 1
  BY <1>1
<1>3. Range(Tail(s)) = {s[i] : i \in 2 .. Len(s)}
  <2>1. \A i \in 2 .. Len(s) : i - 1 \in 1 .. Len(s) - 1 /\ s[i] = Tail(s)[i - 1]
    BY <1>1
  <2>2. \A i \in 1 .. Len(s) - 1 : i + 1 \in 2 .. Len(s) /\ s[i + 1] = Tail(s)[i]
    BY <1>1
  <2>3. Range(Tail(s)) = {Tail(s)[i] : i \in 1 .. Len(s) - 1}
    BY <1>2 DEF Range
  <2> QED
    BY <2>1, <2>2, <2>3
<1>4. Range(s) = {s[i] : i \in 1 .. Len(s)}
  BY <1>2 DEF Range
<1>5. Head(s) \in Range(s) /\ Range(s) = Range(Tail(s)) \cup {Head(s)}
  <2>1. \A i \in 1 .. Len(s) : i = 1 \/ i \in 2 .. Len(s)
    BY <1>1
  <2>2. 1 \in 1 .. Len(s) /\ \A i \in 2 .. Len(s) : i \in 1 .. Len(s)
    BY <1>1
  <2> QED
    BY <1>1, <1>3, <1>4, <2>1, <2>2
<1>6. ASSUME IsInjective(s)
      PROVE  IsInjective(Tail(s)) /\ Head(s) \notin Range(Tail(s))
  <2>1. \A i, j \in 1 .. Len(s) : s[i] = s[j] => i = j
    BY <1>2, <1>6 DEF IsInjective
  <2>2. \A i, j \in 1 .. Len(s) - 1 : Tail(s)[i] = Tail(s)[j] => i = j
    BY <1>1, <2>1
  <2>3. \A i \in 2 .. Len(s) : s[i] # s[1]
    BY <1>1, <2>1
  <2> QED
    BY <1>1, <1>2, <1>3, <2>2, <2>3 DEF IsInjective
<1> QED
  BY <1>1, <1>5, <1>6

(* A set with at most one element has that many.                            *)
LEMMA AtMostOne ==
  ASSUME NEW S, \A a, b \in S : a = b
  PROVE  IsFiniteSet(S) /\ Cardinality(S) = IF S = {} THEN 0 ELSE 1
<1>1. CASE S = {}
  BY <1>1, FS_EmptySet
<1>2. CASE S # {}
  <2>1. PICK a \in S : S = {a}
    BY <1>2
  <2> QED
    BY <1>2, <2>1, FS_Singleton
<1> QED
  BY <1>1, <1>2

(* All but the last element.                                                *)
LEMMA FrontElements ==
  ASSUME NEW S, NEW s \in Seq(S), NEW front, front = SubSeq(s, 1, Len(s) - 1)
  PROVE  /\ front \in Seq(S)
         /\ DOMAIN front \subseteq DOMAIN s /\ \A i \in DOMAIN front : front[i] = s[i]
         /\ Range(front) \subseteq Range(s)
         /\ Range(s) \subseteq Range(front) \cup {s[Len(s)]}
         /\ IsInjective(s) => IsInjective(front)
<1>1. Len(s) \in Nat /\ DOMAIN s = 1 .. Len(s)
  OBVIOUS
<1>2. front = [i \in 1 .. Len(s) - 1 |-> s[i]]
  BY <1>1
<1>3. DOMAIN front = 1 .. Len(s) - 1 /\ \A i \in 1 .. Len(s) - 1 : front[i] = s[i]
  BY <1>2
<1>4. front \in Seq(S)
  <2>1. CASE Len(s) = 0
    <3>1. front = <<>>
      BY <1>1, <1>2, <2>1
    <3> QED
      BY <3>1
  <2>2. CASE Len(s) # 0
    <3>1. Len(s) - 1 \in Nat /\ \A i \in 1 .. Len(s) - 1 : s[i] \in S
      BY <1>1, <2>2
    <3> QED
      BY <1>2, <3>1
  <2> QED
    BY <2>1, <2>2
<1>5. DOMAIN front \subseteq DOMAIN s
  BY <1>1, <1>3
<1>6. Range(front) \subseteq Range(s) /\ (IsInjective(s) => IsInjective(front))
  BY <1>3, <1>5 DEF Range, IsInjective
<1>7. Range(s) \subseteq Range(front) \cup {s[Len(s)]}
  <2>1. \A i \in DOMAIN s : i \in 1 .. Len(s) - 1 \/ i = Len(s)
    BY <1>1
  <2> QED
    BY <1>3, <2>1 DEF Range
<1> QED
  BY <1>3, <1>4, <1>5, <1>6, <1>7

-----------------------------------------------------------------------------
(* Sums over a finite set of threads: how the statistics are added up.      *)

(* Induction over the natural numbers and over the subsets of a finite set, *)
(* for a set T instead of a predicate.                                      *)
LEMMA Induction ==
  ASSUME NEW T, 0 \in T, \A n \in Nat : n \in T => n + 1 \in T
  PROVE  Nat \subseteq T
<1> DEFINE R == OpToRel(<, Nat)
           B == Nat \ T
<1>1. IsWellFoundedOn(R, Nat)
  BY NatLessThanWellFounded
<1>2. \A x, y \in Nat : x < y => <<x, y>> \in R
  BY DEF OpToRel
<1>3. SUFFICES ASSUME B # {} PROVE FALSE
  OBVIOUS
<1>4. B \subseteq Nat
  OBVIOUS
<1>5. \E x \in B : \A y \in B : ~(<<y, x>> \in R)
  <2> HIDE DEF R, B
  <2> QED
    BY <1>1, <1>3, <1>4, WFMin
<1> HIDE DEF R
<1>6. PICK x \in B : \A y \in B : ~(<<y, x>> \in R)
  BY <1>5
<1>7. x - 1 \in Nat /\ x - 1 < x /\ x = (x - 1) + 1
  BY <1>6
<1>8. x - 1 \in B
  BY <1>6, <1>7
<1> QED
  BY <1>2, <1>6, <1>7, <1>8

(* The subsets of D with at most n elements.                                *)
UpTo(D, n) == {s \in SUBSET D : Cardinality(s) <= n}

LEMMA FiniteInduction ==
  ASSUME NEW D, IsFiniteSet(D), NEW T, {} \in T,
         \A s \in SUBSET D : s # {} /\ (\A y \in s : s \ {y} \in T) => s \in T
  PROVE  SUBSET D \subseteq T
<1> DEFINE U == {n \in Nat : UpTo(D, n) \subseteq T}
<1>1. \A s \in SUBSET D : IsFiniteSet(s) /\ Cardinality(s) \in Nat
  BY FS_Subset, FS_CardinalityType
<1>2. 0 \in U
  <2>1. \A s \in UpTo(D, 0) : s = {}
    BY <1>1, FS_EmptySet DEF UpTo
  <2> QED
    BY <2>1
<1>3. ASSUME NEW n \in Nat, n \in U PROVE n + 1 \in U
  <2> SUFFICES ASSUME NEW s \in UpTo(D, n + 1) PROVE s \in T
    OBVIOUS
  <2>0. s \in SUBSET D /\ Cardinality(s) <= n + 1
    BY DEF UpTo
  <2>1. ASSUME NEW y \in s PROVE s \ {y} \in T
    <3>1. Cardinality(s \ {y}) = Cardinality(s) - 1
      BY <1>1, <2>0, FS_RemoveElement
    <3>2. Cardinality(s \ {y}) <= n
      BY <1>1, <2>0, <3>1
    <3> QED
      BY <1>3, <2>0, <3>2 DEF UpTo
  <2> QED
    BY <2>0, <2>1
<1>4. Nat \subseteq U
  <2> HIDE DEF U
  <2> QED
    BY <1>2, <1>3, Induction
<1>5. ASSUME NEW s \in SUBSET D PROVE s \in T
  <2>1. Cardinality(s) \in U
    BY <1>1, <1>4
  <2> QED
    BY <1>1, <2>1 DEF UpTo
<1> QED
  BY <1>5

(* The sum of the values of a function.                                     *)
Total(f) == FoldFunction(+, 0, f)

(* h adds up the values of f over any of the sets in C.                      *)
Adds(h, f, C) ==
  h = [s \in C |-> IF s = {} THEN 0
                   ELSE LET x == CHOOSE x \in s : TRUE IN f[x] + h[s \ {x}]]

(* There is such a function, so that the fold computes one.                 *)
LEMMA AddsExists ==
  ASSUME NEW D, IsFiniteSet(D), NEW f
  PROVE  \E h : Adds(h, f, SUBSET D)
<1> DEFINE U == {n \in Nat : \E h : Adds(h, f, UpTo(D, n))}
           Pick(s) == CHOOSE x \in s : TRUE
<1>1. \A s \in SUBSET D : IsFiniteSet(s) /\ Cardinality(s) \in Nat
  BY FS_Subset, FS_CardinalityType
<1>2. 0 \in U
  <2>1. \A s \in UpTo(D, 0) : s = {}
    BY <1>1, FS_EmptySet DEF UpTo
  <2>2. Adds([s \in UpTo(D, 0) |-> 0], f, UpTo(D, 0))
    BY <2>1 DEF Adds
  <2> QED
    BY <2>2
<1>3. ASSUME NEW n \in Nat, n \in U PROVE n + 1 \in U
  <2>1. PICK h : Adds(h, f, UpTo(D, n))
    BY <1>3
  <2> DEFINE k == [s \in UpTo(D, n + 1) |-> IF s = {} THEN 0
                                            ELSE f[Pick(s)] + h[s \ {Pick(s)}]]
  <2>2. ASSUME NEW s \in UpTo(D, n + 1), s # {}
        PROVE  s \ {Pick(s)} \in UpTo(D, n) /\ s \ {Pick(s)} \in UpTo(D, n + 1)
    <3>1. Pick(s) \in s
      BY <2>2
    <3>2. Cardinality(s \ {Pick(s)}) = Cardinality(s) - 1
      BY <1>1, <3>1, FS_RemoveElement DEF UpTo
    <3> QED
      BY <1>1, <3>1, <3>2 DEF UpTo
  <2>3. ASSUME NEW s \in UpTo(D, n), s \in UpTo(D, n + 1) PROVE k[s] = h[s]
    <3>1. h[s] = IF s = {} THEN 0 ELSE f[Pick(s)] + h[s \ {Pick(s)}]
      BY <2>1, <2>3 DEF Adds
    <3> QED
      BY <2>3, <3>1
  <2>4. \A s \in UpTo(D, n + 1) :
          k[s] = IF s = {} THEN 0 ELSE f[Pick(s)] + k[s \ {Pick(s)}]
    <3>1. ASSUME NEW s \in UpTo(D, n + 1), s # {} PROVE k[s \ {Pick(s)}] = h[s \ {Pick(s)}]
      <4> DEFINE p == s \ {Pick(s)}
      <4>1. p \in UpTo(D, n) /\ p \in UpTo(D, n + 1)
        BY <2>2, <3>1
      <4> HIDE DEF p, k
      <4>2. k[p] = h[p]
        BY <2>3, <4>1
      <4> QED
        BY <4>2 DEF p
    <3>2. \A s \in UpTo(D, n + 1) :
            k[s] = IF s = {} THEN 0 ELSE f[Pick(s)] + h[s \ {Pick(s)}]
      OBVIOUS
    <3> HIDE DEF k
    <3> QED
      BY <3>1, <3>2
  <2>5. k = [s \in UpTo(D, n + 1) |-> k[s]]
    OBVIOUS
  <2>6. Adds(k, f, UpTo(D, n + 1))
    <3> HIDE DEF k
    <3> QED
      BY <2>4, <2>5 DEF Adds
  <2> QED
    BY <2>6
<1>4. Nat \subseteq U
  <2> HIDE DEF U
  <2> QED
    BY <1>2, <1>3, Induction
<1>5. UpTo(D, Cardinality(D)) = SUBSET D
  BY FS_Subset DEF UpTo
<1>6. Cardinality(D) \in U
  BY <1>4, FS_CardinalityType
<1> QED
  BY <1>5, <1>6

LEMMA TotalAdds ==
  ASSUME NEW D, IsFiniteSet(D), NEW f, DOMAIN f = D
  PROVE  \E g : Adds(g, f, SUBSET D) /\ Total(f) = g[D]
<1>1. \E h : Adds(h, f, SUBSET D)
  BY AddsExists
<1>2. \E g : Adds(g, f, SUBSET DOMAIN f) /\ FoldFunction(+, 0, f) = g[DOMAIN f]
  BY <1>1 DEF Adds, FoldFunction, FoldFunctionOnSet, MapThenFoldSet
<1> QED
  BY <1>2 DEF Total

(* The order in which the values are added does not matter.                 *)
Sums(g, f, D) ==
  /\ g[{}] = 0
  /\ \A s \in SUBSET D : g[s] \in Int
  /\ \A s \in SUBSET D : \A y \in s : g[s] = f[y] + g[s \ {y}]

LEMMA AddsAny ==
  ASSUME NEW D, IsFiniteSet(D), NEW f \in [D -> Int], NEW g, Adds(g, f, SUBSET D)
  PROVE  Sums(g, f, D)
<1> DEFINE Good(s) == \A y \in s : g[s] = f[y] + g[s \ {y}]
           T == {s \in SUBSET D : Good(s)}
<1>1. g[{}] = 0
  BY DEF Adds
<1>2. \A s \in SUBSET D : g[s] \in Int
  <2> DEFINE I == {s \in SUBSET D : g[s] \in Int}
  <2>1. {} \in I
    BY <1>1
  <2>2. ASSUME NEW s \in SUBSET D, s # {}, \A y \in s : s \ {y} \in I PROVE s \in I
    <3> DEFINE x == CHOOSE x \in s : TRUE
    <3>1. g[s] = f[x] + g[s \ {x}]
      BY <2>2 DEF Adds
    <3>2. x \in s
      BY <2>2
    <3> HIDE DEF x
    <3>3. f[x] \in Int /\ g[s \ {x}] \in Int
      BY <2>2, <3>2
    <3> QED
      BY <3>1, <3>3
  <2>3. SUBSET D \subseteq I
    <3> HIDE DEF I
    <3> QED
      BY <2>1, <2>2, FiniteInduction
  <2> QED
    BY <2>3
<1>3. {} \in T
  BY <1>1
<1>4. ASSUME NEW s \in SUBSET D, s # {}, \A y \in s : s \ {y} \in T PROVE s \in T
  <2> DEFINE x == CHOOSE x \in s : TRUE
  <2>1. g[s] = f[x] + g[s \ {x}]
    BY <1>4 DEF Adds
  <2>2. x \in s
    BY <1>4
  <2> HIDE DEF x
  <2>3. \A y \in s : Good(s \ {y})
    BY <1>4
  <2>4. \A y \in s : f[y] \in Int /\ g[s \ {y}] \in Int
    BY <1>2
  <2>5. ASSUME NEW y \in s, y # x PROVE g[s] = f[y] + g[s \ {y}]
    <3> DEFINE r == (s \ {x}) \ {y}
    <3>1. y \in s \ {x} /\ x \in s \ {y} /\ r = (s \ {y}) \ {x}
      BY <2>2, <2>5
    <3>2. g[s \ {x}] = f[y] + g[r]
      BY <2>2, <2>3, <3>1
    <3>3. g[s \ {y}] = f[x] + g[r]
      BY <2>3, <3>1
    <3>4. g[r] \in Int
      BY <1>2
    <3> HIDE DEF r
    <3> QED
      BY <2>1, <2>2, <2>4, <3>2, <3>3, <3>4
  <2>6. Good(s)
    BY <2>1, <2>5
  <2> QED
    BY <2>6
<1>5. SUBSET D \subseteq T
  <2> HIDE DEF T
  <2> QED
    BY <1>3, <1>4, FiniteInduction
<1> QED
  BY <1>2, <1>1, <1>5 DEF Sums

LEMMA TotalSums ==
  ASSUME NEW D, IsFiniteSet(D), NEW f \in [D -> Int]
  PROVE  \E g : Sums(g, f, D) /\ Total(f) = g[D]
<1>1. PICK g : Adds(g, f, SUBSET D) /\ Total(f) = g[D]
  BY TotalAdds
<1>2. Sums(g, f, D)
  BY <1>1, AddsAny
<1> QED
  BY <1>1, <1>2

(* The counters start at zero ...                                           *)
LEMMA TotalZero ==
  ASSUME NEW D, IsFiniteSet(D), NEW f \in [D -> Int], \A x \in D : f[x] = 0
  PROVE  Total(f) = 0
<1>1. PICK g : Sums(g, f, D) /\ Total(f) = g[D]
  BY TotalSums
<1> DEFINE T == {s \in SUBSET D : g[s] = 0}
<1>2. {} \in T
  BY <1>1 DEF Sums
<1>3. ASSUME NEW s \in SUBSET D, s # {}, \A y \in s : s \ {y} \in T PROVE s \in T
  <2>1. PICK y \in s : g[s] = f[y] + g[s \ {y}]
    BY <1>1, <1>3 DEF Sums
  <2> QED
    BY <1>3, <2>1
<1>4. SUBSET D \subseteq T
  <2> HIDE DEF T
  <2> QED
    BY <1>2, <1>3, FiniteInduction
<1> QED
  BY <1>1, <1>4

(* ... and when one changes, the sum changes by as much.                    *)
LEMMA TotalUpdate ==
  ASSUME NEW D, IsFiniteSet(D), NEW f \in [D -> Int], NEW k \in [D -> Int],
         NEW x \in D, \A y \in D \ {x} : k[y] = f[y]
  PROVE  /\ Total(f) \in Int
         /\ Total(k) = Total(f) - f[x] + k[x]
<1>1. PICK g : Sums(g, f, D) /\ Total(f) = g[D]
  BY TotalSums
<1>2. PICK h : Sums(h, k, D) /\ Total(k) = h[D]
  BY TotalSums
<1>3. /\ g[{}] = 0
      /\ \A s \in SUBSET D : g[s] \in Int
      /\ \A s \in SUBSET D : \A y \in s : g[s] = f[y] + g[s \ {y}]
  BY <1>1 DEF Sums
<1>4. /\ h[{}] = 0
      /\ \A s \in SUBSET D : h[s] \in Int
      /\ \A s \in SUBSET D : \A y \in s : h[s] = k[y] + h[s \ {y}]
  BY <1>2 DEF Sums
<1> DEFINE T == {s \in SUBSET D : x \notin s => h[s] = g[s]}
<1>5. {} \in T
  BY <1>3, <1>4
<1>6. ASSUME NEW s \in SUBSET D, s # {}, \A y \in s : s \ {y} \in T PROVE s \in T
  <2> SUFFICES ASSUME x \notin s PROVE h[s] = g[s]
    OBVIOUS
  <2>1. PICK y \in s : TRUE
    BY <1>6
  <2>2. h[s \ {y}] = g[s \ {y}] /\ k[y] = f[y]
    BY <1>6
  <2> QED
    BY <1>3, <1>4, <2>2
<1>7. SUBSET D \subseteq T
  <2> HIDE DEF T
  <2> QED
    BY <1>5, <1>6, FiniteInduction
<1>8. h[D \ {x}] = g[D \ {x}]
  BY <1>7
<1>9. g[D] = f[x] + g[D \ {x}] /\ h[D] = k[x] + h[D \ {x}] /\ D \ {x} \in SUBSET D
  BY <1>3, <1>4
<1>10. f[x] \in Int /\ k[x] \in Int /\ g[D \ {x}] \in Int
  BY <1>3, <1>9
<1> QED
  BY <1>1, <1>2, <1>8, <1>9, <1>10

LEMMA TotalCounts ==
  ASSUME NEW D, IsFiniteSet(D), NEW f \in [D -> Int], NEW x \in D
  PROVE  /\ Total(f) \in Int
         /\ Total([f EXCEPT ![x] = @ + 1]) = Total(f) + 1
<1> DEFINE k == [f EXCEPT ![x] = @ + 1]
<1>1. k \in [D -> Int] /\ k[x] = f[x] + 1 /\ f[x] \in Int /\ \A y \in D \ {x} : k[y] = f[y]
  OBVIOUS
<1> HIDE DEF k
<1>2. Total(f) \in Int /\ Total(k) = Total(f) - f[x] + k[x]
  BY <1>1, TotalUpdate
<1>3. Total(k) = Total(f) + 1
  BY <1>1, <1>2
<1> QED
  BY <1>2, <1>3 DEF k

(* When all the others go down or stay, so does the sum, but for that one.  *)
LEMMA TotalDrops ==
  ASSUME NEW D, IsFiniteSet(D), NEW f \in [D -> Int], NEW k \in [D -> Int],
         NEW x \in D, \A y \in D \ {x} : k[y] <= f[y]
  PROVE  /\ Total(f) \in Int /\ Total(k) \in Int
         /\ Total(k) - k[x] <= Total(f) - f[x]
<1>1. PICK g : Sums(g, f, D) /\ Total(f) = g[D]
  BY TotalSums
<1>2. PICK h : Sums(h, k, D) /\ Total(k) = h[D]
  BY TotalSums
<1>3. /\ g[{}] = 0
      /\ \A s \in SUBSET D : g[s] \in Int
      /\ \A s \in SUBSET D : \A y \in s : g[s] = f[y] + g[s \ {y}]
  BY <1>1 DEF Sums
<1>4. /\ h[{}] = 0
      /\ \A s \in SUBSET D : h[s] \in Int
      /\ \A s \in SUBSET D : \A y \in s : h[s] = k[y] + h[s \ {y}]
  BY <1>2 DEF Sums
<1> DEFINE T == {s \in SUBSET D : x \notin s => h[s] <= g[s]}
<1>5. {} \in T
  BY <1>3, <1>4
<1>6. ASSUME NEW s \in SUBSET D, s # {}, \A y \in s : s \ {y} \in T PROVE s \in T
  <2> SUFFICES ASSUME x \notin s PROVE h[s] <= g[s]
    OBVIOUS
  <2>1. PICK y \in s : TRUE
    BY <1>6
  <2>2. h[s \ {y}] <= g[s \ {y}] /\ k[y] <= f[y]
    BY <1>6
  <2>3. h[s \ {y}] \in Int /\ g[s \ {y}] \in Int /\ k[y] \in Int /\ f[y] \in Int
    BY <1>3, <1>4
  <2>4. h[s] = k[y] + h[s \ {y}] /\ g[s] = f[y] + g[s \ {y}]
    BY <1>3, <1>4
  <2> QED
    BY <2>2, <2>3, <2>4
<1>7. SUBSET D \subseteq T
  <2> HIDE DEF T
  <2> QED
    BY <1>5, <1>6, FiniteInduction
<1>8. h[D \ {x}] <= g[D \ {x}]
  BY <1>7
<1>9. g[D] = f[x] + g[D \ {x}] /\ h[D] = k[x] + h[D \ {x}] /\ D \ {x} \in SUBSET D
  BY <1>3, <1>4
<1>10. f[x] \in Int /\ k[x] \in Int /\ g[D \ {x}] \in Int /\ h[D \ {x}] \in Int
  BY <1>3, <1>4, <1>9
<1> QED
  BY <1>1, <1>2, <1>8, <1>9, <1>10

(* A sum of natural numbers is one.                                         *)
LEMMA TotalNat ==
  ASSUME NEW D, IsFiniteSet(D), NEW f \in [D -> Nat]
  PROVE  Total(f) \in Nat
<1> DEFINE zero == [y \in D |-> 0]
<1>0. f \in [D -> Int] /\ zero \in [D -> Int] /\ \A y \in D : zero[y] = 0 /\ 0 <= f[y]
  OBVIOUS
<1> HIDE DEF zero
<1>1. Total(zero) = 0
  BY <1>0, TotalZero
<1>2. CASE D = {}
  <2>1. Total(f) = 0
    BY <1>0, <1>2, TotalZero
  <2> QED
    BY <2>1
<1>3. ASSUME NEW x \in D PROVE Total(f) \in Nat
  <2>1. /\ Total(f) \in Int
        /\ Total(zero) - zero[x] <= Total(f) - f[x]
    BY <1>0, TotalDrops
  <2> QED
    BY <1>0, <1>1, <2>1
<1> QED
  BY <1>2, <1>3


=============================================================================
