---------------------------- MODULE DataPipeProofs ----------------------------
(***************************************************************************)
(* TLAPS: what the dispatchers of a data pipe keep, for a ring of any      *)
(* size, any number of threads, bytes written and transfers.               *)
(***************************************************************************)
EXTENDS DataPipe, FiniteSetTheorems, SequenceTheorems, TLAPS

-----------------------------------------------------------------------------
(***************************************************************************)
(* Sums.                                                                   *)
(***************************************************************************)

\* Every set of natural numbers that has an element has a least one.
LEMMA LeastNumber ==
  ASSUME NEW S \in SUBSET Nat, S # {}
  PROVE  \E x \in S : \A y \in S : x <= y
<1>1. OpToRel(<, Nat) = {ss \in Nat \X Nat : ss[1] < ss[2]}
  BY DEF OpToRel
<1>2. \E x \in S : \A y \in S : ~(<<y, x>> \in OpToRel(<, Nat))
  BY WFMin, NatLessThanWellFounded
<1>3. PICK x \in S : \A y \in S : ~(<<y, x>> \in {ss \in Nat \X Nat : ss[1] < ss[2]})
  BY <1>1, <1>2, Zenon
<1>4. ASSUME NEW y \in S PROVE x <= y
  <2>1. x \in Nat /\ y \in Nat
    OBVIOUS
  <2>2. <<y, x>> \in {ss \in Nat \X Nat : ss[1] < ss[2]} <=> y < x
    BY <2>1
  <2> QED
    BY <2>1, <2>2, <1>3
<1> QED
  BY <1>4

Chosen(T) == CHOOSE x \in T : TRUE

\* f adds the values of w up, on each set of S, in the order of SumFunction.
Adds(f, S, w) ==
  f = [T \in S |-> IF T = {} THEN 0 ELSE w[Chosen(T)] + f[T \ {Chosen(T)}]]

LEMMA SumUnfolded ==
  ASSUME NEW w, NEW D
  PROVE  SumFunctionOnSet(w, D) = (CHOOSE f : Adds(f, SUBSET D, w))[D]
BY DEF SumFunctionOnSet, FoldFunctionOnSet, MapThenFoldSet, Adds, Chosen

\* A set has a least subset with a property that some subset has.
LEMMA SmallestSubset ==
  ASSUME NEW D, IsFiniteSet(D), NEW C \in SUBSET SUBSET D, C # {}
  PROVE  \E T \in C : /\ IsFiniteSet(T)
                      /\ \A x \in T : T \ {x} \notin C
<1>1. \A T \in SUBSET D : IsFiniteSet(T) /\ Cardinality(T) \in Nat
  BY FS_Subset, FS_CardinalityType
<1>2. PICK n \in {Cardinality(T) : T \in C} : \A m \in {Cardinality(T) : T \in C} : n <= m
  <2>1. {Cardinality(T) : T \in C} \in SUBSET Nat
    BY <1>1
  <2>2. {Cardinality(T) : T \in C} # {}
    OBVIOUS
  <2> QED
    BY <2>1, <2>2, LeastNumber
<1>3. PICK T \in C : n = Cardinality(T)
  BY <1>2
<1>4. ASSUME NEW x \in T, T \ {x} \in C PROVE FALSE
  <2>1. Cardinality(T \ {x}) = Cardinality(T) - 1
    BY <1>1, FS_RemoveElement
  <2>2. n <= Cardinality(T \ {x})
    BY <1>2, <1>4
  <2>3. n \in Nat
    BY <1>1, <1>3
  <2> QED
    BY <1>3, <2>1, <2>2, <2>3
<1> QED
  BY <1>1, <1>4

\* The recursive definition of a sum defines something.
LEMMA SumDefined ==
  ASSUME NEW D, IsFiniteSet(D), NEW w
  PROVE  \E f : Adds(f, SUBSET D, w)
<1> DEFINE Up(n) == {T \in SUBSET D : Cardinality(T) <= n}
           Bad == {n \in Nat : ~ \E f : Adds(f, Up(n), w)}
<1>1. \A T \in SUBSET D : IsFiniteSet(T) /\ Cardinality(T) \in Nat
  BY FS_Subset, FS_CardinalityType
<1>2. Bad = {}
  <2> SUFFICES ASSUME Bad # {} PROVE FALSE
    OBVIOUS
  <2>1. PICK n \in Bad : \A m \in Bad : n <= m
    BY LeastNumber
  <2>2. n \in Nat /\ ~ \E f : Adds(f, Up(n), w)
    BY <2>1
  <2>3. CASE n = 0
    <3> DEFINE g == [T \in Up(0) |-> 0]
    <3>1. \A T \in Up(0) : T = {}
      BY <1>1, FS_EmptySet
    <3>2. Adds(g, Up(0), w)
      BY <3>1 DEF Adds
    <3> QED
      BY <2>2, <2>3, <3>2
  <2>4. CASE n # 0
    <3>1. n - 1 \in Nat /\ n - 1 \notin Bad
      <4> HIDE DEF Bad
      <4>1. n - 1 \in Nat /\ ~(n <= n - 1)
        BY <2>2, <2>4
      <4> QED
        BY <2>1, <4>1
    <3>2. PICK f : Adds(f, Up(n - 1), w)
      BY <3>1
    <3> DEFINE g == [T \in Up(n) |-> IF T = {} THEN 0
                                     ELSE w[Chosen(T)] + f[T \ {Chosen(T)}]]
    <3>3. ASSUME NEW T \in Up(n), T # {}
          PROVE  T \ {Chosen(T)} \in Up(n - 1) /\ T \ {Chosen(T)} \in Up(n)
      <4>1. Chosen(T) \in T
        BY <3>3 DEF Chosen
      <4>2. Cardinality(T \ {Chosen(T)}) = Cardinality(T) - 1
        BY <1>1, <4>1, FS_RemoveElement
      <4>3. Cardinality(T) \in Nat /\ Cardinality(T) <= n /\ T \ {Chosen(T)} \in SUBSET D
        BY <1>1
      <4> QED
        BY <2>2, <4>2, <4>3
    <3>4. ASSUME NEW T \in Up(n - 1) PROVE T \in Up(n) /\ g[T] = f[T]
      <4>1. T \in Up(n)
        <5>1. Cardinality(T) \in Nat /\ Cardinality(T) <= n - 1
          BY <1>1
        <5> QED
          BY <2>2, <5>1
      <4>2. f[T] = IF T = {} THEN 0 ELSE w[Chosen(T)] + f[T \ {Chosen(T)}]
        BY <3>2 DEF Adds
      <4> QED
        BY <4>1, <4>2
    <3>5. Adds(g, Up(n), w)
      <4>1. \A T \in Up(n) : T # {} => g[T \ {Chosen(T)}] = f[T \ {Chosen(T)}]
        BY <3>3, <3>4
      <4> HIDE DEF Up
      <4> QED
        BY <4>1 DEF Adds
    <3> QED
      BY <2>2, <3>5
  <2> QED
    BY <2>3, <2>4
<1>3. Cardinality(D) \in Nat /\ Cardinality(D) \notin Bad
  BY <1>1, <1>2
<1>4. Up(Cardinality(D)) = SUBSET D
  BY <1>1, FS_Subset
<1> QED
  BY <1>3, <1>4

SumsOf(f, D, w) == Adds(f, SUBSET D, w)

LEMMA SumIs ==
  ASSUME NEW D, IsFiniteSet(D), NEW w
  PROVE  \E f : SumsOf(f, D, w) /\ f[D] = SumFunctionOnSet(w, D)
<1>1. \E f : Adds(f, SUBSET D, w)
  BY SumDefined
<1>2. Adds(CHOOSE f : Adds(f, SUBSET D, w), SUBSET D, w)
  BY <1>1
<1> QED
  BY <1>2, SumUnfolded DEF SumsOf

\* What is added up depends on the values of the set only.
LEMMA SameSums ==
  ASSUME NEW D, IsFiniteSet(D), NEW E, NEW v, NEW w, NEW f, NEW g,
         SumsOf(f, D, v), SumsOf(g, E, w),
         NEW S \in SUBSET D, S \in SUBSET E, \A x \in S : v[x] = w[x]
  PROVE  f[S] = g[S]
<1> DEFINE Bad == {T \in SUBSET S : f[T] # g[T]}
<1>1. Bad = {}
  <2> SUFFICES ASSUME Bad # {} PROVE FALSE
    OBVIOUS
  <2>1. PICK T \in Bad : \A x \in T : T \ {x} \notin Bad
    <3>1. IsFiniteSet(S)
      BY FS_Subset
    <3> QED
      BY <3>1, SmallestSubset
  <2>2. T \in SUBSET D /\ T \in SUBSET E /\ T \in SUBSET S
    OBVIOUS
  <2>3. /\ f[T] = IF T = {} THEN 0 ELSE v[Chosen(T)] + f[T \ {Chosen(T)}]
        /\ g[T] = IF T = {} THEN 0 ELSE w[Chosen(T)] + g[T \ {Chosen(T)}]
    BY <2>2 DEF Adds, SumsOf
  <2>4. T # {} => Chosen(T) \in T
    BY DEF Chosen
  <2>5. T # {} => f[T \ {Chosen(T)}] = g[T \ {Chosen(T)}]
    BY <2>1, <2>2, <2>4
  <2>6. T # {} => v[Chosen(T)] = w[Chosen(T)]
    BY <2>2, <2>4
  <2> QED
    BY <2>3, <2>5, <2>6
<1> QED
  BY <1>1

\* Sums of integers are integers, and any element may be added last.
LEMMA AnyLast ==
  ASSUME NEW D, IsFiniteSet(D), NEW w, \A x \in D : w[x] \in Int,
         NEW f, SumsOf(f, D, w)
  PROVE  /\ f[{}] = 0
         /\ \A T \in SUBSET D : f[T] \in Int
         /\ \A T \in SUBSET D : \A x \in T : f[T] = w[x] + f[T \ {x}]
<1>1. ASSUME NEW T \in SUBSET D, T # {}
      PROVE  Chosen(T) \in T /\ f[T] = w[Chosen(T)] + f[T \ {Chosen(T)}]
  BY <1>1 DEF Adds, SumsOf, Chosen
<1>2. f[{}] = 0
  BY DEF Adds, SumsOf
<1>3. \A T \in SUBSET D : f[T] \in Int
  <2> DEFINE Bad == {T \in SUBSET D : f[T] \notin Int}
  <2> SUFFICES ASSUME Bad # {} PROVE FALSE
    OBVIOUS
  <2>1. PICK T \in Bad : \A x \in T : T \ {x} \notin Bad
    BY SmallestSubset
  <2>2. T # {}
    <3>1. f[T] \notin Int
      OBVIOUS
    <3>2. 0 \in Int
      OBVIOUS
    <3> QED
      BY <1>2, <3>1, <3>2, Zenon
  <2>3. f[T \ {Chosen(T)}] \in Int /\ w[Chosen(T)] \in Int
    BY <1>1, <2>1, <2>2
  <2>4. f[T] = w[Chosen(T)] + f[T \ {Chosen(T)}]
    BY <1>1, <2>2
  <2> QED
    BY <2>3, <2>4
<1>4. \A T \in SUBSET D : \A x \in T : f[T] = w[x] + f[T \ {x}]
  <2> DEFINE Bad == {T \in SUBSET D : \E x \in T : f[T] # w[x] + f[T \ {x}]}
  <2> SUFFICES ASSUME Bad # {} PROVE FALSE
    OBVIOUS
  <2>1. PICK T \in Bad : \A x \in T : T \ {x} \notin Bad
    BY SmallestSubset
  <2>2. PICK x \in T : f[T] # w[x] + f[T \ {x}]
    OBVIOUS
  <2>3. PICK c : c = Chosen(T)
    OBVIOUS
  <2>4. c \in T /\ f[T] = w[c] + f[T \ {c}] /\ c # x
    BY <1>1, <2>2, <2>3
  <2>5. /\ T \ {x} \in SUBSET D /\ T \ {c} \in SUBSET D
        /\ c \in T \ {x} /\ x \in T \ {c}
        /\ (T \ {x}) \ {c} = (T \ {c}) \ {x}
    BY <2>4
  <2>6. /\ f[T \ {x}] = w[c] + f[(T \ {x}) \ {c}]
        /\ f[T \ {c}] = w[x] + f[(T \ {c}) \ {x}]
    BY <2>1, <2>4, <2>5
  <2>7. PICK r \in Int : r = f[(T \ {x}) \ {c}]
    BY <1>3, <2>5
  <2>8. w[x] \in Int /\ w[c] \in Int
    BY <2>4
  <2>9. f[T] = w[c] + (w[x] + r) /\ f[T \ {x}] = w[c] + r
    BY <2>4, <2>5, <2>6, <2>7
  <2> QED
    BY <2>2, <2>7, <2>8, <2>9
<1> QED
  BY <1>2, <1>3, <1>4

LEMMA SumLaws ==
  ASSUME NEW D, IsFiniteSet(D), NEW w, \A x \in D : w[x] \in Int
  PROVE  /\ SumFunctionOnSet(w, D) \in Int
         /\ SumFunctionOnSet(w, {}) = 0
         /\ \A x \in D : SumFunctionOnSet(w, D) = w[x] + SumFunctionOnSet(w, D \ {x})
<1>1. PICK f : SumsOf(f, D, w) /\ f[D] = SumFunctionOnSet(w, D)
  BY SumIs
<1>2. /\ \A T \in SUBSET D : f[T] \in Int
      /\ \A T \in SUBSET D : \A x \in T : f[T] = w[x] + f[T \ {x}]
  BY <1>1, AnyLast
<1>3. SumFunctionOnSet(w, {}) = 0
  <2>1. PICK g : SumsOf(g, {}, w) /\ g[{}] = SumFunctionOnSet(w, {})
    BY SumIs, FS_EmptySet
  <2> QED
    BY <2>1 DEF Adds, SumsOf
<1>4. ASSUME NEW x \in D PROVE f[D \ {x}] = SumFunctionOnSet(w, D \ {x})
  <2>1. IsFiniteSet(D \ {x}) /\ D \ {x} \in SUBSET D
    BY FS_Subset
  <2>2. PICK g : SumsOf(g, D \ {x}, w) /\ g[D \ {x}] = SumFunctionOnSet(w, D \ {x})
    BY <2>1, SumIs
  <2> QED
    BY <1>1, <2>1, <2>2, SameSums
<1> QED
  BY <1>1, <1>2, <1>3, <1>4

LEMMA SumAgrees ==
  ASSUME NEW D, IsFiniteSet(D), NEW v, NEW w, \A x \in D : v[x] = w[x]
  PROVE  SumFunctionOnSet(v, D) = SumFunctionOnSet(w, D)
<1>1. PICK f : SumsOf(f, D, v) /\ f[D] = SumFunctionOnSet(v, D)
  BY SumIs
<1>2. PICK g : SumsOf(g, D, w) /\ g[D] = SumFunctionOnSet(w, D)
  BY SumIs
<1> QED
  BY <1>1, <1>2, SameSums

LEMMA SumNat ==
  ASSUME NEW D, IsFiniteSet(D), NEW w, \A x \in D : w[x] \in Nat
  PROVE  SumFunctionOnSet(w, D) \in Nat
<1> DEFINE Bad == {T \in SUBSET D : SumFunctionOnSet(w, T) \notin Nat}
<1>1. Bad = {}
  <2> SUFFICES ASSUME Bad # {} PROVE FALSE
    OBVIOUS
  <2>1. PICK T \in Bad : IsFiniteSet(T) /\ \A x \in T : T \ {x} \notin Bad
    BY SmallestSubset
  <2>2. \A x \in T : w[x] \in Int
    OBVIOUS
  <2>3. CASE T = {}
    <3>1. SumFunctionOnSet(w, {}) = 0
      BY <2>1, <2>2, SumLaws
    <3>2. 0 \in Nat
      OBVIOUS
    <3>3. SumFunctionOnSet(w, T) \notin Nat
      OBVIOUS
    <3> QED
      BY <2>3, <3>1, <3>2, <3>3, Zenon
  <2>4. CASE T # {}
    <3>1. PICK x : x \in T
      BY <2>4
    <3>2. SumFunctionOnSet(w, T) = w[x] + SumFunctionOnSet(w, T \ {x})
      BY <2>1, <2>2, <3>1, SumLaws
    <3>3. SumFunctionOnSet(w, T \ {x}) \in Nat /\ w[x] \in Nat
      BY <2>1, <3>1
    <3>4. w[x] + SumFunctionOnSet(w, T \ {x}) \in Nat
      BY <3>3
    <3>5. SumFunctionOnSet(w, T) \notin Nat
      OBVIOUS
    <3> QED
      BY <3>2, <3>4, <3>5, Zenon
  <2> QED
    BY <2>3, <2>4
<1> QED
  BY <1>1

-----------------------------------------------------------------------------
(***************************************************************************)
(* Totals of control messages.                                             *)
(***************************************************************************)

LEMMA TotalIs ==
  ASSUME NEW q \in Seq(Int)
  PROVE  /\ Total(q) = SumFunctionOnSet(q, 1 .. Len(q))
         /\ IsFiniteSet(1 .. Len(q)) /\ \A i \in 1 .. Len(q) : q[i] \in Int
         /\ Total(q) \in Int
<1>1. DOMAIN q = 1 .. Len(q) /\ Len(q) \in Nat /\ \A i \in 1 .. Len(q) : q[i] \in Int
  OBVIOUS
<1>2. IsFiniteSet(1 .. Len(q))
  BY <1>1, FS_Interval
<1>3. Total(q) = SumFunctionOnSet(q, 1 .. Len(q))
  BY <1>1 DEF Total, SumFunction
<1> QED
  BY <1>1, <1>2, <1>3, SumLaws

LEMMA TotalEmpty == Total(<< >>) = 0
<1>1. << >> \in Seq(Int) /\ 1 .. Len(<< >>) = {}
  OBVIOUS
<1>2. Total(<< >>) = SumFunctionOnSet(<< >>, {})
  BY <1>1, TotalIs
<1>3. SumFunctionOnSet(<< >>, {}) = 0
  BY FS_EmptySet, SumLaws
<1> QED
  BY <1>2, <1>3

LEMMA TotalAppend ==
  ASSUME NEW q \in Seq(Int), NEW n \in Int
  PROVE  Total(Append(q, n)) = Total(q) + n
<1>1. PICK p : p = Append(q, n)
  OBVIOUS
<1>2. /\ p \in Seq(Int) /\ Len(p) = Len(q) + 1 /\ Len(q) \in Nat /\ p[Len(q) + 1] = n
      /\ \A i \in 1 .. Len(q) : p[i] = q[i]
  BY <1>1
<1>3. /\ Total(p) = SumFunctionOnSet(p, 1 .. Len(p))
      /\ IsFiniteSet(1 .. Len(p)) /\ \A i \in 1 .. Len(p) : p[i] \in Int
  BY <1>2, TotalIs
<1>4. /\ Total(q) = SumFunctionOnSet(q, 1 .. Len(q)) /\ IsFiniteSet(1 .. Len(q))
      /\ Total(q) \in Int
  BY TotalIs
<1>5. Len(p) \in 1 .. Len(p) /\ (1 .. Len(p)) \ {Len(p)} = 1 .. Len(q)
  BY <1>2
<1>6. SumFunctionOnSet(p, 1 .. Len(p))
        = p[Len(p)] + SumFunctionOnSet(p, (1 .. Len(p)) \ {Len(p)})
  BY <1>3, <1>5, SumLaws
<1>7. SumFunctionOnSet(p, 1 .. Len(q)) = SumFunctionOnSet(q, 1 .. Len(q))
  BY <1>2, <1>4, SumAgrees
<1>8. Total(p) = n + Total(q)
  BY <1>2, <1>3, <1>4, <1>5, <1>6, <1>7
<1> QED
  BY <1>1, <1>4, <1>8

LEMMA TotalNat ==
  ASSUME NEW q \in Seq(Nat)
  PROVE  Total(q) \in Nat
<1>1. q \in Seq(Int) /\ \A i \in 1 .. Len(q) : q[i] \in Nat
  OBVIOUS
<1> QED
  BY <1>1, TotalIs, SumNat

LEMMA EqualSeqs ==
  ASSUME NEW S, NEW p \in Seq(S), NEW q \in Seq(S), Len(p) = Len(q),
         \A i \in 1 .. Len(p) : p[i] = q[i]
  PROVE  p = q
OBVIOUS

LEMMA ConcatAppend ==
  ASSUME NEW S, NEW u \in Seq(S), NEW v \in Seq(S), NEW y \in S
  PROVE  u \o Append(v, y) = Append(u \o v, y) /\ u \o v \in Seq(S)
<1>1. /\ u \o v \in Seq(S) /\ Append(v, y) \in Seq(S)
      /\ Len(u \o v) = Len(u) + Len(v) /\ Len(Append(v, y)) = Len(v) + 1
      /\ Len(u) \in Nat /\ Len(v) \in Nat
  OBVIOUS
<1>2. u \o Append(v, y) \in Seq(S) /\ Append(u \o v, y) \in Seq(S)
  BY <1>1
<1>3. Len(u \o Append(v, y)) = Len(u) + Len(v) + 1
  BY <1>1
<1>4. Len(Append(u \o v, y)) = Len(u) + Len(v) + 1
  BY <1>1
<1>5. ASSUME NEW i \in 1 .. Len(u) + Len(v) + 1
      PROVE  (u \o Append(v, y))[i] = Append(u \o v, y)[i]
  BY <1>1
<1> QED
  BY <1>1, <1>2, <1>3, <1>4, <1>5, EqualSeqs

LEMMA SplitLast ==
  ASSUME NEW S, NEW q \in Seq(S), Len(q) # 0
  PROVE  \E p \in Seq(S), x \in S : q = Append(p, x) /\ Len(p) = Len(q) - 1
<1>1. Len(q) \in Nat /\ Len(q) - 1 \in Nat
  OBVIOUS
<1>2. \A i \in 1 .. Len(q) - 1 : q[i] \in S
  BY <1>1
<1>3. PICK p \in Seq(S) : Len(p) = Len(q) - 1 /\ \A i \in 1 .. Len(q) - 1 : p[i] = q[i]
  <2>1. PICK n \in Nat : n = Len(q) - 1
    BY <1>1
  <2>2. /\ SubSeq(q, 1, n) \in Seq(S) /\ Len(SubSeq(q, 1, n)) = n
        /\ \A i \in 1 .. n : SubSeq(q, 1, n)[i] = q[i]
    BY <1>2, <2>1, SubSeqProperties
  <2> QED
    BY <2>1, <2>2
<1>4. q[Len(q)] \in S
  BY <1>1
<1>5. /\ Append(p, q[Len(q)]) \in Seq(S) /\ Len(Append(p, q[Len(q)])) = Len(q)
      /\ \A i \in 1 .. Len(q) : Append(p, q[Len(q)])[i] = q[i]
  BY <1>1, <1>3, <1>4
<1>6. q = Append(p, q[Len(q)])
  BY <1>5, EqualSeqs
<1> QED
  BY <1>3, <1>4, <1>6

LEMMA TotalConcat ==
  ASSUME NEW p \in Seq(Int), NEW q \in Seq(Int)
  PROVE  Total(p \o q) = Total(p) + Total(q)
<1> DEFINE Bad == {n \in Nat : \E r \in Seq(Int) :
                     Len(r) = n /\ Total(p \o r) # Total(p) + Total(r)}
<1>1. Bad = {}
  <2> SUFFICES ASSUME Bad # {} PROVE FALSE
    OBVIOUS
  <2>1. PICK n \in Bad : \A m \in Bad : n <= m
    BY LeastNumber
  <2>2. PICK r \in Seq(Int) : Len(r) = n /\ Total(p \o r) # Total(p) + Total(r)
    OBVIOUS
  <2>3. Total(p) \in Int /\ Total(r) \in Int /\ n \in Nat
    BY TotalIs
  <2>4. CASE n = 0
    <3>1. r = << >> /\ p \o r = p
      BY <2>2, <2>4
    <3> QED
      BY <2>2, <2>3, <3>1, TotalEmpty
  <2>5. CASE n # 0
    <3>1. PICK s \in Seq(Int), x \in Int : r = Append(s, x) /\ Len(s) = n - 1
      <4>1. Len(r) # 0
        BY <2>2, <2>5
      <4>2. \E s \in Seq(Int), x \in Int : r = Append(s, x) /\ Len(s) = Len(r) - 1
        BY <4>1, SplitLast
      <4> QED
        BY <2>2, <4>2
    <3>2. n - 1 \in Nat /\ ~(n <= n - 1)
      BY <2>3, <2>5
    <3>3. p \o r = Append(p \o s, x) /\ p \o s \in Seq(Int)
      BY <3>1, ConcatAppend
    <3>4. n - 1 \notin Bad
      BY <2>1, <3>2
    <3>5. Total(p \o s) = Total(p) + Total(s)
      BY <3>1, <3>2, <3>4
    <3>6. /\ Total(p \o r) = Total(p \o s) + x /\ Total(r) = Total(s) + x
          /\ Total(s) \in Int
      BY <3>1, <3>3, TotalAppend, TotalIs
    <3> QED
      BY <2>2, <2>3, <3>1, <3>5, <3>6
  <2> QED
    BY <2>4, <2>5
<1> QED
  BY <1>1

\* A byte count that arrives, or the word that there will be no more.
Message == (1 .. Capacity) \cup {Closed}

Data(q)  == [i \in DOMAIN q |-> IF q[i] = Closed THEN 0 ELSE q[i]]
Bytes(q) == Total(Data(q))

LEMMA DataType ==
  ASSUME NEW q \in Seq(Message)
  PROVE  /\ Data(q) \in Seq(Nat) /\ Data(q) \in Seq(Int) /\ Len(Data(q)) = Len(q)
         /\ Bytes(q) \in Nat
<1>1. /\ Data(q) \in Seq(Nat) /\ Len(Data(q)) = Len(q)
  BY CapacityAssumption DEF Data, Message, Closed
<1>2. Data(q) \in Seq(Int)
  BY <1>1
<1> QED
  BY <1>1, <1>2, TotalNat DEF Bytes

LEMMA ConcatAt ==
  ASSUME NEW S, NEW a \in Seq(S), NEW b \in Seq(S)
  PROVE  /\ a \o b \in Seq(S) /\ Len(a \o b) = Len(a) + Len(b)
         /\ \A i \in 1 .. Len(a) : (a \o b)[i] = a[i]
         /\ \A j \in 1 .. Len(b) : (a \o b)[Len(a) + j] = b[j]
OBVIOUS

LEMMA BytesConcat ==
  ASSUME NEW p \in Seq(Message), NEW q \in Seq(Message)
  PROVE  p \o q \in Seq(Message) /\ Bytes(p \o q) = Bytes(p) + Bytes(q)
<1>1. /\ p \o q \in Seq(Message) /\ Len(p) \in Nat /\ Len(q) \in Nat
      /\ Len(p \o q) = Len(p) + Len(q)
  OBVIOUS
<1>2. PICK a \in Seq(Int), b \in Seq(Int), c \in Seq(Int) :
        /\ a = Data(p) /\ Len(a) = Len(p) /\ b = Data(q) /\ Len(b) = Len(q)
        /\ c = Data(p \o q) /\ Len(c) = Len(p) + Len(q)
  BY <1>1, DataType
<1>3. /\ a \o b \in Seq(Int) /\ Len(a \o b) = Len(c)
      /\ \A i \in 1 .. Len(p) : (a \o b)[i] = a[i]
      /\ \A j \in 1 .. Len(q) : (a \o b)[Len(p) + j] = b[j]
  <2>1. a \in Seq(Int) /\ b \in Seq(Int)
    BY <1>2
  <2>2. /\ a \o b \in Seq(Int) /\ Len(a \o b) = Len(a) + Len(b)
        /\ \A i \in 1 .. Len(a) : (a \o b)[i] = a[i]
        /\ \A j \in 1 .. Len(b) : (a \o b)[Len(a) + j] = b[j]
    BY <2>1
  <2> QED
    BY <1>2, <2>2
<1>4. ASSUME NEW i \in 1 .. Len(c)
      PROVE  c[i] = (a \o b)[i]
  <2>1. i \in 1 .. Len(p) + Len(q) /\ i \in Nat
    BY <1>1, <1>2
  <2>2. c[i] = IF (p \o q)[i] = Closed THEN 0 ELSE (p \o q)[i]
    BY <1>1, <1>2, <2>1 DEF Data
  <2>3. CASE i <= Len(p)
    <3>1. i \in 1 .. Len(p)
      BY <1>1, <2>1, <2>3
    <3>2. (p \o q)[i] = p[i] /\ (a \o b)[i] = a[i]
      BY <1>3, <3>1, ConcatAt
    <3>3. a[i] = IF p[i] = Closed THEN 0 ELSE p[i]
      BY <1>2, <3>1 DEF Data
    <3> QED
      BY <2>2, <3>2, <3>3
  <2>4. CASE ~(i <= Len(p))
    <3>1. PICK j \in 1 .. Len(q) : i = Len(p) + j
      <4>1. i - Len(p) \in 1 .. Len(q) /\ i = Len(p) + (i - Len(p))
        BY <1>1, <2>1, <2>4
      <4> QED
        BY <4>1
    <3>2. (p \o q)[i] = q[j] /\ (a \o b)[i] = b[j]
      <4>1. \A k \in 1 .. Len(q) : (p \o q)[Len(p) + k] = q[k]
        OBVIOUS
      <4> QED
        BY <1>3, <3>1, <4>1
    <3>3. b[j] = IF q[j] = Closed THEN 0 ELSE q[j]
      BY <1>2, <3>1 DEF Data
    <3> QED
      BY <2>2, <3>2, <3>3
  <2> QED
    BY <2>3, <2>4
<1>5. c = a \o b
  BY <1>3, <1>4, EqualSeqs
<1> QED
  BY <1>1, <1>2, <1>5, TotalConcat DEF Bytes

LEMMA BytesEmpty == << >> \in Seq(Message) /\ Bytes(<< >>) = 0
<1>1. Data(<< >>) = << >>
  BY DEF Data
<1> QED
  BY <1>1, TotalEmpty DEF Bytes

LEMMA BytesAppend ==
  ASSUME NEW q \in Seq(Message), NEW m \in Message
  PROVE  /\ Append(q, m) \in Seq(Message)
         /\ Bytes(Append(q, m)) = Bytes(q) + (IF m = Closed THEN 0 ELSE m)
<1>1. Append(q, m) \in Seq(Message)
  OBVIOUS
<1>2. Data(q) \in Seq(Int) /\ Data(Append(q, m)) \in Seq(Int)
      /\ Len(Data(q)) = Len(q) /\ Len(Data(Append(q, m))) = Len(q) + 1 /\ Len(q) \in Nat
  <2>1. Len(Append(q, m)) = Len(q) + 1 /\ Len(q) \in Nat
    OBVIOUS
  <2> QED
    BY <1>1, <2>1, DataType
<1>3. PICK x \in Int : x = IF m = Closed THEN 0 ELSE m
  BY CapacityAssumption DEF Message, Closed
<1>4. Append(Data(q), x) \in Seq(Int) /\ Len(Append(Data(q), x)) = Len(q) + 1
  BY <1>2
<1>5. ASSUME NEW i \in 1 .. Len(q) + 1
      PROVE  Data(Append(q, m))[i] = Append(Data(q), x)[i]
  <2>1. Data(Append(q, m))[i] = IF Append(q, m)[i] = Closed THEN 0 ELSE Append(q, m)[i]
    BY <1>1, <1>2 DEF Data
  <2>2. CASE i = Len(q) + 1
    BY <1>2, <1>3, <2>1, <2>2
  <2>3. CASE i # Len(q) + 1
    <3>1. i \in 1 .. Len(q)
      BY <1>2, <2>3
    <3>2. Append(q, m)[i] = q[i] /\ Append(Data(q), x)[i] = Data(q)[i]
      BY <1>2, <3>1
    <3> QED
      BY <2>1, <3>1, <3>2 DEF Data
  <2> QED
    BY <2>2, <2>3
<1>6. Data(Append(q, m)) = Append(Data(q), x)
  BY <1>2, <1>4, <1>5, EqualSeqs
<1> QED
  BY <1>1, <1>2, <1>3, <1>6, TotalAppend DEF Bytes

LEMMA BytesTotal ==
  ASSUME NEW q \in Seq(1 .. Capacity)
  PROVE  q \in Seq(Message) /\ Bytes(q) = Total(q) /\ Total(q) \in Nat
<1>1. q \in Seq(Message) /\ q \in Seq(Int)
  BY CapacityAssumption DEF Message
<1>2. Data(q) \in Seq(Int) /\ Len(Data(q)) = Len(q) /\ Bytes(q) \in Nat
  BY <1>1, DataType
<1>3. \A i \in 1 .. Len(q) : Data(q)[i] = q[i]
  BY CapacityAssumption DEF Data, Closed
<1>4. Data(q) = q
  BY <1>1, <1>2, <1>3, EqualSeqs
<1> QED
  BY <1>1, <1>2, <1>4 DEF Bytes

\* A side accepts all messages, if they claim no more than there can be.
LEMMA AllAccepted ==
  ASSUME NEW q \in Seq(Nat), NEW room \in Nat, Total(q) <= room
  PROVE  Accepted(q, room) = Len(q)
<1>1. q \in Seq(Int) /\ Len(q) \in Nat /\ Total(q) \in Nat
  BY TotalNat
<1>2. ASSUME NEW k \in 0 .. Len(q)
      PROVE  Total(SubSeq(q, 1, k)) \in Nat /\ Total(SubSeq(q, 1, k)) <= Total(q)
  <2>1. PICK a, b : a = SubSeq(q, 1, k) /\ b = SubSeq(q, k + 1, Len(q))
    OBVIOUS
  <2>2. k \in Nat /\ k + 1 \in Int /\ 1 \in Int
    BY <1>1
  <2>3. a \in Seq(Nat)
    <3>1. \A i \in 1 .. k : q[i] \in Nat
      BY <1>1
    <3> QED
      BY <2>1, <2>2, <3>1, SubSeqProperties
  <2>4. b \in Seq(Nat)
    <3>1. \A i \in k + 1 .. Len(q) : q[i] \in Nat
      BY <1>1
    <3> QED
      BY <1>1, <2>1, <2>2, <3>1, SubSeqProperties
  <2>5. a \o b = q
    <3>1. /\ 1 \in 1 .. Len(q) + 1 /\ k \in 1 - 1 .. Len(q) /\ Len(q) \in k .. Len(q)
      BY <1>1
    <3>2. SubSeq(q, 1, k) \o SubSeq(q, k + 1, Len(q)) = SubSeq(q, 1, Len(q))
      BY <3>1, ConcatAdjacentSubSeq
    <3> QED
      BY <2>1, <3>2, SubSeqFull
  <2>6. a \in Seq(Int) /\ b \in Seq(Int) /\ Total(a) \in Nat /\ Total(b) \in Nat
    BY <2>3, <2>4, TotalNat
  <2>7. Total(q) = Total(a) + Total(b)
    BY <2>5, <2>6, TotalConcat
  <2> QED
    BY <2>1, <2>6, <2>7
<1>3. Total(SubSeq(q, 1, Len(q))) <= room
  BY SubSeqFull
<1>4. ASSUME NEW k \in 0 .. Len(q), k < Len(q)
      PROVE  ~(Total(SubSeq(q, 1, k + 1)) > room)
  <2>1. k + 1 \in 0 .. Len(q)
    BY <1>1, <1>4
  <2> QED
    BY <1>1, <1>2, <2>1
<1> QED
  BY <1>1, <1>3, <1>4 DEF Accepted

-----------------------------------------------------------------------------
(***************************************************************************)
(* What the threads have still to announce.                                *)
(***************************************************************************)

Announcement ==
  [side: Side, n: 1 .. Capacity, end: BOOLEAN, home: Nat, number: Nat]

CallType == {Idle} \cup Announcement

\* What an announcement c counts for the sides of S.
Weight(c, S) == IF c # Idle /\ c.side \in S THEN c.n ELSE 0

LEMMA NotIdle == ASSUME NEW c \in Announcement PROVE c # Idle
<1>1. DOMAIN c = {"side", "n", "end", "home", "number"} /\ "n" \in DOMAIN c
  BY DEF Announcement
<1>2. DOMAIN Idle = {}
  BY DEF Idle
<1> QED
  BY <1>1, <1>2

LEMMA WeightType ==
  ASSUME NEW c \in CallType, NEW S
  PROVE  Weight(c, S) \in Nat
<1>1. CASE c = Idle
  BY <1>1 DEF Weight
<1>2. CASE c \in Announcement
  BY <1>2, CapacityAssumption DEF Weight, Announcement
<1> QED
  BY <1>1, <1>2 DEF CallType

\* The thread whose call changes makes the difference.
LEMMA SumChange ==
  ASSUME NEW D, IsFiniteSet(D), NEW v, NEW w, NEW t \in D,
         \A x \in D : v[x] \in Nat /\ w[x] \in Nat,
         \A x \in D : x # t => v[x] = w[x]
  PROVE  /\ SumFunctionOnSet(v, D) \in Nat /\ SumFunctionOnSet(w, D) \in Nat
         /\ SumFunctionOnSet(v, D) - v[t] = SumFunctionOnSet(w, D) - w[t]
<1>1. IsFiniteSet(D \ {t})
  BY FS_Subset
<1>2. \A x \in D : v[x] \in Int /\ w[x] \in Int
  OBVIOUS
<1>3. SumFunctionOnSet(v, D \ {t}) = SumFunctionOnSet(w, D \ {t})
  BY <1>1, SumAgrees
<1>4. SumFunctionOnSet(v, D \ {t}) \in Nat
  BY <1>1, SumNat
<1>5. SumFunctionOnSet(v, D) \in Nat /\ SumFunctionOnSet(w, D) \in Nat
  BY SumNat
<1>6. SumFunctionOnSet(v, D) = v[t] + SumFunctionOnSet(v, D \ {t})
  BY <1>2, SumLaws
<1>7. SumFunctionOnSet(w, D) = w[t] + SumFunctionOnSet(w, D \ {t})
  BY <1>2, SumLaws
<1>8. v[t] \in Nat /\ w[t] \in Nat
  OBVIOUS
<1> QED
  BY <1>3, <1>4, <1>5, <1>6, <1>7, <1>8

\* Weights of all threads.
Weights(S) == [t \in Thread |-> Weight(call[t], S)]

LEMMA UnsentIs == ASSUME NEW S PROVE Unsent(S) = SumFunctionOnSet(Weights(S), Thread)
<1>1. DOMAIN Weights(S) = Thread
  BY DEF Weights
<1> QED
  BY <1>1 DEF Unsent, Weights, Weight, SumFunction

LEMMA UnsentPrime == ASSUME NEW S PROVE Unsent(S)' = SumFunctionOnSet(Weights(S)', Thread)
<1>1. DOMAIN Weights(S)' = Thread
  BY DEF Weights
<1> QED
  BY <1>1 DEF Unsent, Weights, Weight, SumFunction

LEMMA UnsentType ==
  ASSUME call \in [Thread -> CallType], NEW S
  PROVE  Unsent(S) \in Nat
<1>1. \A t \in Thread : Weights(S)[t] \in Nat
  BY WeightType DEF Weights
<1> QED
  BY <1>1, ThreadAssumption, SumNat, UnsentIs

LEMMA UnsentChange ==
  ASSUME call \in [Thread -> CallType], NEW t \in Thread, NEW c \in CallType,
         call' = [call EXCEPT ![t] = c], NEW S
  PROVE  /\ call' \in [Thread -> CallType]
         /\ Unsent(S)' \in Nat /\ Unsent(S) \in Nat
         /\ Unsent(S)' = Unsent(S) - Weight(call[t], S) + Weight(c, S)
<1>1. call' \in [Thread -> CallType] /\ call'[t] = c
  OBVIOUS
<1>2. PICK v, w : v = Weights(S) /\ w = Weights(S)'
  OBVIOUS
<1>3. \A x \in Thread : v[x] \in Nat /\ w[x] \in Nat
  BY <1>1, <1>2, WeightType DEF Weights
<1>4. \A x \in Thread : x # t => v[x] = w[x]
  BY <1>2 DEF Weights
<1>5. v[t] = Weight(call[t], S) /\ w[t] = Weight(c, S)
  BY <1>1, <1>2 DEF Weights
<1>6. /\ SumFunctionOnSet(v, Thread) \in Nat /\ SumFunctionOnSet(w, Thread) \in Nat
      /\ SumFunctionOnSet(v, Thread) - v[t] = SumFunctionOnSet(w, Thread) - w[t]
  BY <1>3, <1>4, ThreadAssumption, SumChange
<1>7. Unsent(S) = SumFunctionOnSet(v, Thread) /\ Unsent(S)' = SumFunctionOnSet(w, Thread)
  BY <1>2, UnsentIs, UnsentPrime
<1>8. v[t] \in Nat /\ w[t] \in Nat
  BY <1>3
<1>9. Unsent(S)' = Unsent(S) - v[t] + w[t]
  BY <1>6, <1>7, <1>8
<1> QED
  BY <1>1, <1>5, <1>6, <1>7, <1>9

LEMMA UnsentSame ==
  ASSUME call' = call, NEW S
  PROVE  Unsent(S)' = Unsent(S)
BY DEF Unsent

-----------------------------------------------------------------------------
(***************************************************************************)
(* Places in the ring.                                                     *)
(***************************************************************************)

LEMMA Place ==
  ASSUME NEW a \in Nat
  PROVE  /\ a % Capacity \in 0 .. Capacity - 1
         /\ \E k \in Nat : a = Capacity * k + (a % Capacity)
<1>1. Capacity \in Nat /\ Capacity > 0
  BY CapacityAssumption
<1>2. a % Capacity \in 0 .. Capacity - 1
  BY <1>1
<1>3. a \div Capacity \in Nat /\ a = Capacity * (a \div Capacity) + (a % Capacity)
  BY <1>1
<1> QED
  BY <1>2, <1>3

\* A number less than one round away from 0 is 0 or goes round.
LEMMA OneRound ==
  ASSUME NEW k \in Int, NEW d \in Int, d = Capacity * k, d < Capacity, -d < Capacity
  PROVE  k = 0
<1>1. Capacity \in Int /\ Capacity > 0
  BY CapacityAssumption
<1>2. CASE k >= 1
  <2>1. Capacity * k >= Capacity
    BY <1>1, <1>2
  <2> QED
    BY <1>1, <2>1
<1>3. CASE k <= -1
  <2>1. Capacity * k <= -Capacity
    BY <1>1, <1>3
  <2> QED
    BY <1>1, <2>1
<1> QED
  BY <1>2, <1>3

LEMMA PlaceIs ==
  ASSUME NEW a \in Nat, NEW k \in Int, NEW r \in 0 .. Capacity - 1, a = Capacity * k + r
  PROVE  a % Capacity = r
<1>1. PICK j \in Nat : a = Capacity * j + (a % Capacity)
  BY Place
<1>2. Capacity \in Int /\ a % Capacity \in 0 .. Capacity - 1 /\ r \in Int
      /\ a % Capacity \in Int /\ j \in Int
  BY Place, CapacityAssumption
<1>3. PICK d \in Int : d = r - (a % Capacity)
  BY <1>2
<1>4. d < Capacity /\ -d < Capacity
  BY <1>2, <1>3
<1>5. d = Capacity * (j - k)
  <2>1. Capacity * (j - k) = Capacity * j - Capacity * k
    BY <1>2
  <2>2. PICK x \in Int, y \in Int : x = Capacity * j /\ y = Capacity * k
    BY <1>2
  <2> QED
    BY <1>1, <1>2, <1>3, <2>1, <2>2
<1>6. j - k = 0
  BY <1>4, <1>5, <1>2, OneRound
<1>7. j = k
  BY <1>2, <1>6
<1> QED
  BY <1>1, <1>2, <1>7

LEMMA SlotIs ==
  ASSUME NEW a \in Nat, NEW i \in Nat
  PROVE  Slot(a % Capacity, i) = (a + i) % Capacity
<1>1. PICK j \in Nat : a = Capacity * j + (a % Capacity)
  BY Place
<1>2. PICK b \in Nat : b = (a % Capacity) + i
  <2>1. a % Capacity \in 0 .. Capacity - 1 /\ Capacity \in Nat
    BY Place, CapacityAssumption
  <2>2. a % Capacity \in Nat
    BY <2>1
  <2> QED
    BY <2>2
<1>3. PICK k \in Nat : b = Capacity * k + (b % Capacity)
  BY Place
<1>4. b % Capacity \in 0 .. Capacity - 1 /\ a + i \in Nat /\ j + k \in Int
  BY Place
<1>5. a + i = Capacity * (j + k) + (b % Capacity)
  <2>1. Capacity \in Int /\ a % Capacity \in Int /\ b % Capacity \in Int
    BY <1>4, Place, CapacityAssumption
  <2>2. PICK x \in Int, y \in Int : x = Capacity * j /\ y = Capacity * k
    BY <2>1
  <2>3. Capacity * (j + k) = x + y
    BY <2>1, <2>2
  <2> QED
    BY <1>1, <1>2, <1>3, <2>1, <2>2, <2>3
<1>6. (a + i) % Capacity = b % Capacity
  BY <1>4, <1>5, PlaceIs
<1> QED
  BY <1>2, <1>6 DEF Slot

\* Bytes less than one round apart have different places.
LEMMA PlacesApart ==
  ASSUME NEW a \in Nat, NEW b \in Nat, a - b < Capacity, b - a < Capacity,
         a % Capacity = b % Capacity
  PROVE  a = b
<1>1. PICK j \in Nat : a = Capacity * j + (a % Capacity)
  BY Place
<1>2. PICK k \in Nat : b = Capacity * k + (b % Capacity)
  BY Place
<1>3. Capacity \in Int /\ a % Capacity \in Int /\ j \in Int /\ k \in Int
  BY Place, CapacityAssumption
<1>4. PICK x \in Int, y \in Int : x = Capacity * j /\ y = Capacity * k
  BY <1>3
<1>5. Capacity * (j - k) = x - y
  BY <1>3, <1>4
<1>6. a - b = Capacity * (j - k)
  BY <1>1, <1>2, <1>3, <1>4, <1>5
<1>7. j - k = 0
  BY <1>3, <1>6, OneRound
<1>8. j = k
  BY <1>3, <1>7
<1> QED
  BY <1>1, <1>2, <1>8

LEMMA FirstRound ==
  ASSUME NEW a \in 0 .. Capacity - 1
  PROVE  a % Capacity = a
<1>1. a \in Nat /\ 0 \in Int /\ a = Capacity * 0 + a
  BY CapacityAssumption
<1> QED
  BY <1>1, PlaceIs

-----------------------------------------------------------------------------
(***************************************************************************)
(* The inductive invariant.                                                *)
(***************************************************************************)

Dispatcher ==
  [at: {"here", "transit", "wire", "away"}, closed: BOOLEAN,
   offset: 0 .. Capacity - 1, avail: 0 .. Capacity, grant: 0 .. Capacity,
   newData: BOOLEAN, peerClosed: BOOLEAN, queue: Seq(1 .. Capacity),
   ended: BOOLEAN, home: Nat, number: Nat, overlooked: BOOLEAN]

Types ==
  /\ ring \in [0 .. Capacity - 1 -> Nat]
  /\ side \in [Side -> Dispatcher]
  /\ net \in [Side -> Seq(Message)]
  /\ call \in [Thread -> CallType]
  /\ changed \subseteq Side
  /\ moves \in Nat /\ written \in Nat /\ consumed \in Nat /\ lost \in Nat

\* Bytes side s has, or will have when it has read what is on its way.
Held(s) == side[s].avail + Announced(s)

\* The books: the two offsets follow the bytes written and taken; what the
\* consumer holds, or is to be told of, has been written and not been taken;
\* what the producer holds, or is to be told of, is free.  Messages to a side
\* that is closed, and announcements that no port takes, make these
\* inequalities.
Books ==
  /\ consumed <= written
  /\ side[Consumer].offset = consumed % Capacity
  /\ side[Producer].offset = written % Capacity
  /\ Held(Consumer) + Unsent({Producer}) <= written - consumed
  /\ Held(Producer) + Unsent({Consumer}) <= Capacity - (written - consumed)
  /\ ~side[Consumer].closed =>
       consumed + Held(Consumer) + Unsent({Producer}) + lost >= written
  /\ CapacityConserved

\* The bytes that have been written and not been taken are in their places.
RingKept == \A p \in consumed .. written - 1 : ring[p % Capacity] = p + 1

IsEnding(t, s) == call[t] # Idle /\ call[t].end /\ call[t].side = s

\* Two-phase operations: a handle in transit has none; a thread that is ending
\* one is the only one, of the dispatcher it has begun with; what has been
\* handed out to the consumer can be read until it is given back.
Grants ==
  /\ \A s \in Side : side[s].at # "here" => side[s].grant = 0
  /\ \A t \in Thread, s \in Side : IsEnding(t, s) =>
       /\ call[t].number = side[s].number /\ side[s].grant > 0
       /\ \A u \in Thread : IsEnding(u, s) => u = t
  /\ side[Consumer].grant > 0 /\ ~Ending(Consumer) =>
       side[Consumer].grant <= side[Consumer].avail

\* Word of closure comes last, and only from a side that is closed.
Closure ==
  \A s \in Side :
    /\ \A i \in 1 .. Len(net[s]) :
         net[s][i] = Closed => i = Len(net[s]) /\ side[Peer(s)].closed
    /\ side[s].ended => net[s] = << >> /\ side[Peer(s)].closed
    /\ side[s].peerClosed => /\ side[Peer(s)].closed /\ side[s].queue = << >>
                             /\ \A i \in 1 .. Len(net[s]) : net[s][i] = Closed

PipeInv == Types /\ Books /\ RingKept /\ Grants /\ Closure

LEMMA SideFacts ==
  /\ Side = {Producer, Consumer} /\ Producer # Consumer
  /\ Peer(Producer) = Consumer /\ Peer(Consumer) = Producer
  /\ Producer \in Side /\ Consumer \in Side
  /\ \A s \in Side : Peer(s) \in Side /\ Peer(s) # s /\ Peer(Peer(s)) = s
BY DEF Side, Peer, Producer, Consumer

LEMMA SetFacts ==
  ASSUME Types, NEW s \in Side, NEW d \in Dispatcher, side' = [side EXCEPT ![s] = d]
  PROVE  /\ side' \in [Side -> Dispatcher] /\ side'[s] = d
         /\ \A r \in Side : r # s => side'[r] = side[r]
         /\ side'[Peer(s)] = side[Peer(s)]
BY SideFacts DEF Types

LEMMA HeldIs ==
  ASSUME Types, NEW s \in Side
  PROVE  /\ Announced(s) = Bytes(side[s].queue) + Bytes(net[s])
         /\ Bytes(side[s].queue) = Total(side[s].queue)
         /\ Bytes(side[s].queue) \in Nat /\ Bytes(net[s]) \in Nat
         /\ Held(s) = side[s].avail + Bytes(side[s].queue) + Bytes(net[s])
         /\ Held(s) \in Nat /\ side[s].avail \in Nat
<1>1. side[s] \in Dispatcher /\ net[s] \in Seq(Message) /\ side[s].avail \in 0 .. Capacity
  BY DEF Types, Dispatcher
<1>2. side[s].queue \in Seq(1 .. Capacity)
  BY <1>1 DEF Dispatcher
<1>3. /\ side[s].queue \in Seq(Message) /\ Bytes(side[s].queue) = Total(side[s].queue)
      /\ Bytes(side[s].queue) \in Nat /\ Bytes(net[s]) \in Nat
  BY <1>1, <1>2, BytesTotal, DataType
<1>4. Announced(s) = Bytes(side[s].queue \o net[s])
  BY DEF Announced, Bytes, Data
<1>5. Announced(s) = Bytes(side[s].queue) + Bytes(net[s])
  BY <1>1, <1>3, <1>4, BytesConcat
<1>6. side[s].avail \in Nat
  BY <1>1, CapacityAssumption
<1> QED
  BY <1>3, <1>5, <1>6 DEF Held

LEMMA HeldPrime ==
  ASSUME Types', NEW s \in Side
  PROVE  /\ Announced(s)' = Bytes(side'[s].queue) + Bytes(net'[s])
         /\ Bytes(side'[s].queue) \in Nat /\ Bytes(net'[s]) \in Nat
         /\ Held(s)' = side'[s].avail + Bytes(side'[s].queue) + Bytes(net'[s])
         /\ Held(s)' \in Nat
<1>1. side'[s] \in Dispatcher /\ net'[s] \in Seq(Message) /\ side'[s].avail \in 0 .. Capacity
  BY DEF Types, Dispatcher
<1>2. side'[s].queue \in Seq(1 .. Capacity)
  BY <1>1 DEF Dispatcher
<1>3. /\ side'[s].queue \in Seq(Message)
      /\ Bytes(side'[s].queue) \in Nat /\ Bytes(net'[s]) \in Nat
  BY <1>1, <1>2, BytesTotal, DataType
<1>4. Announced(s)' = Bytes(side'[s].queue \o net'[s])
  BY DEF Announced, Bytes, Data
<1>5. Announced(s)' = Bytes(side'[s].queue) + Bytes(net'[s])
  BY <1>1, <1>3, <1>4, BytesConcat
<1>6. side'[s].avail \in Nat
  BY <1>1, CapacityAssumption
<1> QED
  BY <1>3, <1>5, <1>6 DEF Held

LEMMA ConservedIs ==
  ASSUME Types
  PROVE  CapacityConserved <=>
           ((\A s \in Side : ~side[s].closed) =>
              Held(Producer) + Held(Consumer) + Unsent(Side) + lost = Capacity)
<1>1. /\ side[Producer].avail \in Nat /\ side[Consumer].avail \in Nat
      /\ Announced(Producer) \in Nat /\ Announced(Consumer) \in Nat
      /\ Unsent(Side) \in Nat /\ lost \in Nat /\ Capacity \in Nat
  <2>1. Unsent(Side) \in Nat
    BY UnsentType DEF Types
  <2>2. /\ side[Producer].avail \in Nat /\ Announced(Producer) \in Nat
        /\ side[Consumer].avail \in Nat /\ Announced(Consumer) \in Nat
    BY HeldIs, SideFacts
  <2> QED
    BY <2>1, <2>2, CapacityAssumption DEF Types
<1> QED
  BY <1>1 DEF CapacityConserved, Held

LEMMA ConservedPrime ==
  ASSUME Types'
  PROVE  CapacityConserved' <=>
           ((\A s \in Side : ~side'[s].closed) =>
              Held(Producer)' + Held(Consumer)' + Unsent(Side)' + lost' = Capacity)
<1>1. /\ side'[Producer].avail \in Nat /\ side'[Consumer].avail \in Nat
      /\ Announced(Producer)' \in Nat /\ Announced(Consumer)' \in Nat
      /\ Unsent(Side)' \in Nat /\ lost' \in Nat /\ Capacity \in Nat
  <2>1. Unsent(Side)' \in Nat
    <3>1. \A t \in Thread : Weights(Side)'[t] \in Nat
      BY WeightType DEF Weights, Types
    <3> QED
      BY <3>1, ThreadAssumption, SumNat, UnsentPrime
  <2>2. /\ Announced(Producer)' \in Nat /\ Announced(Consumer)' \in Nat
    BY HeldPrime, SideFacts
  <2>3. side'[Producer].avail \in 0 .. Capacity /\ side'[Consumer].avail \in 0 .. Capacity
    BY SideFacts DEF Types, Dispatcher
  <2> QED
    BY <2>1, <2>2, <2>3, CapacityAssumption DEF Types
<1> QED
  BY <1>1 DEF CapacityConserved, Held

LEMMA Numbers ==
  ASSUME Types
  PROVE  /\ Held(Producer) \in Nat /\ Held(Consumer) \in Nat
         /\ Unsent({Producer}) \in Nat /\ Unsent({Consumer}) \in Nat /\ Unsent(Side) \in Nat
         /\ written \in Nat /\ consumed \in Nat /\ lost \in Nat
         /\ Capacity \in Nat /\ Capacity > 0
<1>1. Held(Producer) \in Nat /\ Held(Consumer) \in Nat
  BY HeldIs, SideFacts
<1>2. Unsent({Producer}) \in Nat /\ Unsent({Consumer}) \in Nat /\ Unsent(Side) \in Nat
  BY UnsentType DEF Types
<1> QED
  BY <1>1, <1>2, CapacityAssumption DEF Types

-----------------------------------------------------------------------------
(***************************************************************************)
(* Steps that leave the books as they are.                                 *)
(***************************************************************************)

LEMMA BooksKept ==
  ASSUME Types, Types', Books, UNCHANGED <<call, written, consumed, lost>>,
         \A s \in Side : /\ Held(s)' <= Held(s)
                         /\ ~side'[s].closed => Held(s)' = Held(s)
                         /\ side'[s].offset = side[s].offset
                         /\ side[s].closed => side'[s].closed
  PROVE  Books'
<1>1. \A S : Unsent(S)' = Unsent(S)
  BY UnsentSame
<1>2. Held(Producer)' \in Nat /\ Held(Consumer)' \in Nat
  BY HeldPrime, SideFacts
<1>3. /\ Held(Producer)' <= Held(Producer) /\ Held(Consumer)' <= Held(Consumer)
      /\ ~side'[Consumer].closed => Held(Consumer)' = Held(Consumer) /\ ~side[Consumer].closed
      /\ side'[Producer].offset = side[Producer].offset
      /\ side'[Consumer].offset = side[Consumer].offset
  BY SideFacts
<1>4. CapacityConserved'
  <2>1. SUFFICES ASSUME \A s \in Side : ~side'[s].closed
                 PROVE  Held(Producer)' + Held(Consumer)' + Unsent(Side)' + lost' = Capacity
    BY ConservedPrime
  <2>2. Held(Producer)' = Held(Producer) /\ Held(Consumer)' = Held(Consumer)
    BY <2>1, SideFacts
  <2>3. Held(Producer) + Held(Consumer) + Unsent(Side) + lost = Capacity
    BY <2>1, ConservedIs DEF Books
  <2> QED
    BY <1>1, <2>2, <2>3
<1>5. /\ Held(Consumer)' + Unsent({Producer}) <= written - consumed
      /\ Held(Producer)' + Unsent({Consumer}) <= Capacity - (written - consumed)
  BY <1>2, <1>3, Numbers DEF Books
<1> QED
  BY <1>1, <1>3, <1>4, <1>5 DEF Books

\* Nobody is ending a two-phase operation that has not begun.
LEMMA NoneEnding ==
  ASSUME Types, Grants, NEW s \in Side, side[s].grant = 0
  PROVE  (\A t \in Thread : ~IsEnding(t, s)) /\ ~Ending(s)
<1>1. \A t \in Thread : ~IsEnding(t, s)
  BY DEF Grants
<1> QED
  BY <1>1 DEF Ending, IsEnding

\* Side s changes in where it is, in what it has handed out, or in whether its
\* data are new.
LEMMA QuietStep ==
  ASSUME PipeInv, NEW s \in Side, NEW d \in Dispatcher, side' = [side EXCEPT ![s] = d],
         UNCHANGED <<net, call, written, consumed, lost>>,
         ring' \in [0 .. Capacity - 1 -> Nat], RingKept',
         changed' \subseteq Side, moves' \in Nat,
         d.closed = side[s].closed, d.offset = side[s].offset, d.avail = side[s].avail,
         d.queue = side[s].queue, d.ended = side[s].ended,
         d.peerClosed = side[s].peerClosed, d.number = side[s].number,
         d.at # "here" => d.grant = 0,
         \/ d.grant = side[s].grant
         \/ ~Ending(s) /\ (s = Consumer => d.grant <= d.avail)
  PROVE  PipeInv'
<1> USE DEF PipeInv
<1>1. /\ side' \in [Side -> Dispatcher] /\ side'[s] = d
      /\ \A r \in Side : r # s => side'[r] = side[r]
  BY SetFacts
<1>2. Types'
  BY <1>1 DEF Types
<1>3. \A r \in Side : /\ side'[r].closed = side[r].closed /\ side'[r].offset = side[r].offset
                      /\ side'[r].avail = side[r].avail /\ side'[r].queue = side[r].queue
                      /\ side'[r].ended = side[r].ended /\ side'[r].number = side[r].number
                      /\ side'[r].peerClosed = side[r].peerClosed
  BY <1>1
<1>4. \A r \in Side : Held(r)' = Held(r) /\ Held(r) \in Nat
  <2>1. ASSUME NEW r \in Side PROVE Held(r)' = Held(r) /\ Held(r) \in Nat
    <3>1. /\ Held(r) = side[r].avail + Bytes(side[r].queue) + Bytes(net[r]) /\ Held(r) \in Nat
      BY HeldIs
    <3>2. Held(r)' = side'[r].avail + Bytes(side'[r].queue) + Bytes(net[r])
      BY <1>2, HeldPrime
    <3> QED
      BY <1>3, <3>1, <3>2
  <2> QED
    BY <2>1
<1>5. Books'
  <2>1. \A r \in Side : Held(r)' <= Held(r)
    BY <1>4
  <2> QED
    BY <1>2, <1>3, <1>4, <2>1, BooksKept
<1>6. Grants'
  <2>1. ASSUME NEW t \in Thread, NEW r \in Side
        PROVE  IsEnding(t, r)' <=> IsEnding(t, r)
    BY DEF IsEnding
  <2>2. ASSUME NEW t \in Thread, NEW r \in Side, IsEnding(t, r)'
        PROVE  side'[r].grant = side[r].grant
    <3>1. IsEnding(t, r) /\ Ending(r)
      BY <2>1, <2>2 DEF Ending, IsEnding
    <3> QED
      BY <1>1, <3>1
  <2>3. ASSUME NEW t \in Thread, NEW r \in Side, IsEnding(t, r)'
        PROVE  /\ call'[t].number = side'[r].number /\ side'[r].grant > 0
               /\ \A u \in Thread : IsEnding(u, r)' => u = t
    BY <1>3, <2>1, <2>2, <2>3 DEF Grants
  <2>4. ASSUME NEW r \in Side, side'[r].at # "here" PROVE side'[r].grant = 0
    BY <1>1, <2>4 DEF Grants
  <2>5. ASSUME side'[Consumer].grant > 0, ~Ending(Consumer)'
        PROVE  side'[Consumer].grant <= side'[Consumer].avail
    <3>1. ~Ending(Consumer)
      BY <2>5 DEF Ending
    <3>2. CASE side'[Consumer].grant = side[Consumer].grant
      BY <1>3, <2>5, <3>1, <3>2, SideFacts DEF Grants
    <3>3. CASE side'[Consumer].grant # side[Consumer].grant
      BY <1>1, <3>3, SideFacts
    <3> QED
      BY <3>2, <3>3
  <2> QED
    BY <2>3, <2>4, <2>5 DEF Grants
<1>7. Closure'
  BY <1>3, SideFacts DEF Closure
<1> QED
  BY <1>2, <1>5, <1>6, <1>7

LEMMA RingStays ==
  ASSUME Types, RingKept, UNCHANGED <<ring, written, consumed>>
  PROVE  ring' \in [0 .. Capacity - 1 -> Nat] /\ RingKept'
BY DEF Types, RingKept

LEMMA DispatcherFacts ==
  ASSUME Types, NEW s \in Side
  PROVE  /\ side[s] \in Dispatcher /\ side[s].avail \in 0 .. Capacity
         /\ side[s].grant \in 0 .. Capacity /\ side[s].offset \in 0 .. Capacity - 1
         /\ side[s].queue \in Seq(1 .. Capacity) /\ net[s] \in Seq(Message)
         /\ side[s].closed \in BOOLEAN /\ side[s].ended \in BOOLEAN
         /\ side[s].peerClosed \in BOOLEAN /\ side[s].number \in Nat /\ side[s].home \in Nat
BY DEF Types, Dispatcher

\* What the producer holds lies outside of what is to be read.
LEMMA Free ==
  ASSUME Types, Books
  PROVE  written + side[Producer].avail - consumed <= Capacity
<1>1. /\ Held(Producer) = side[Producer].avail + Bytes(side[Producer].queue)
                            + Bytes(net[Producer])
      /\ side[Producer].avail \in Nat /\ Bytes(side[Producer].queue) \in Nat
      /\ Bytes(net[Producer]) \in Nat
  BY HeldIs, SideFacts
<1>2. side[Producer].avail <= Held(Producer)
  BY <1>1
<1> QED
  BY <1>1, <1>2, Numbers DEF Books

LEMMA LeastFacts ==
  ASSUME NEW a \in Int, NEW b \in Int
  PROVE  Least(a, b) \in {a, b} /\ Least(a, b) <= a /\ Least(a, b) <= b
BY DEF Least

LEMMA BeginWriteInv ==
  ASSUME PipeInv, BeginWriteData
  PROVE  PipeInv'
<1> USE DEF PipeInv
<1>1. PICK d, k : d = side[Producer] /\ k = Least(Capacity - d.offset, d.avail)
  OBVIOUS
<1>2. /\ d \in Dispatcher /\ d.grant = 0 /\ d.at = "here" /\ d.avail > 0
      /\ d.avail \in 0 .. Capacity /\ d.offset \in 0 .. Capacity - 1
      /\ Capacity \in Nat
  BY <1>1, DispatcherFacts, SideFacts, CapacityAssumption DEF BeginWriteData, Usable
<1>3. k \in 1 .. Capacity /\ k \in 0 .. Capacity /\ k <= d.avail /\ d.offset + k <= Capacity
  <2>1. PICK a \in Int : a = Capacity - d.offset
    BY <1>2
  <2>2. k \in {a, d.avail} /\ k <= a /\ k <= d.avail
    BY <1>1, <1>2, <2>1, LeastFacts
  <2> QED
    BY <1>2, <2>1, <2>2
<1>4. PICK e : e = [d EXCEPT !.grant = k]
  OBVIOUS
<1>5. /\ ring' = [o \in DOMAIN ring |->
                    IF o \in d.offset .. d.offset + k - 1 THEN 0 ELSE ring[o]]
      /\ side' = [side EXCEPT ![Producer] = e]
      /\ UNCHANGED <<net, changed, call, moves, written, consumed, lost>>
  BY <1>1, <1>4 DEF BeginWriteData, Set
<1>6. /\ e \in Dispatcher /\ e.closed = d.closed /\ e.offset = d.offset /\ e.avail = d.avail
      /\ e.queue = d.queue /\ e.ended = d.ended /\ e.peerClosed = d.peerClosed
      /\ e.number = d.number /\ e.at = "here"
  <2>1. e \in Dispatcher
    BY <1>2, <1>3, <1>4 DEF Dispatcher
  <2> QED
    BY <2>1, <1>2, <1>4 DEF Dispatcher
<1>7. ring' \in [0 .. Capacity - 1 -> Nat]
  BY <1>5 DEF Types
<1>8. RingKept'
  <2>1. SUFFICES ASSUME NEW p \in consumed .. written - 1
                 PROVE  ring'[p % Capacity] = p + 1
    BY <1>5 DEF RingKept
  <2>2. p \in Nat /\ written \in Nat /\ consumed \in Nat
    BY DEF Types
  <2>3. p % Capacity \in 0 .. Capacity - 1
    BY <2>2, Place
  <2>4. ASSUME p % Capacity \in d.offset .. d.offset + k - 1 PROVE FALSE
    <3>1. PICK j \in 0 .. k - 1 : p % Capacity = d.offset + j
      <4>1. (p % Capacity) - d.offset \in 0 .. k - 1
        BY <1>2, <1>3, <2>3, <2>4
      <4> QED
        BY <1>2, <2>3, <4>1
    <3>2. d.offset + j \in 0 .. Capacity - 1 /\ j \in Nat
      BY <1>2, <1>3, <3>1
    <3>3. Slot(written % Capacity, j) = (written + j) % Capacity
      BY <2>2, <3>2, SlotIs
    <3>4. d.offset = written % Capacity
      BY <1>1 DEF Books
    <3>5. (d.offset + j) % Capacity = d.offset + j
      BY <3>2, FirstRound
    <3>6. p % Capacity = (written + j) % Capacity
      BY <3>1, <3>3, <3>4, <3>5 DEF Slot
    <3>7. written + d.avail - consumed <= Capacity
      BY <1>1, Free
    <3>8. written + j \in Nat /\ p - (written + j) < Capacity /\ (written + j) - p < Capacity
      BY <1>2, <1>3, <2>1, <2>2, <3>1, <3>2, <3>7
    <3>9. p = written + j
      BY <2>2, <3>6, <3>8, PlacesApart
    <3> QED
      BY <2>1, <2>2, <3>2, <3>9
  <2>5. ring'[p % Capacity] = ring[p % Capacity]
    BY <1>5, <2>3, <2>4 DEF Types
  <2> QED
    BY <2>1, <2>5 DEF RingKept
<1>9. ~Ending(Producer)
  BY <1>1, <1>2, NoneEnding, SideFacts
<1> QED
  BY <1>1, <1>5, <1>6, <1>7, <1>8, <1>9, QuietStep, SideFacts DEF Types

LEMMA EndInvalidInv ==
  ASSUME PipeInv, NEW s \in Side, ~Ending(s), side[s].at = "here",
         side' = [side EXCEPT ![s] = [side[s] EXCEPT !.grant = 0]],
         UNCHANGED <<ring, net, changed, call, moves, written, consumed, lost>>
  PROVE  PipeInv'
<1> USE DEF PipeInv
<1>1. PICK e : e = [side[s] EXCEPT !.grant = 0]
  OBVIOUS
<1>2. side[s] \in Dispatcher /\ side[s].avail \in Nat
  BY DispatcherFacts, CapacityAssumption
<1>3. /\ e \in Dispatcher /\ e.closed = side[s].closed /\ e.offset = side[s].offset
      /\ e.avail = side[s].avail /\ e.queue = side[s].queue /\ e.ended = side[s].ended
      /\ e.peerClosed = side[s].peerClosed /\ e.number = side[s].number
      /\ e.grant = 0 /\ e.grant <= e.avail
  <2>1. 0 \in 0 .. Capacity
    BY CapacityAssumption
  <2>2. e \in Dispatcher
    BY <1>1, <1>2, <2>1 DEF Dispatcher
  <2>3. /\ e.closed = side[s].closed /\ e.offset = side[s].offset
        /\ e.avail = side[s].avail /\ e.queue = side[s].queue /\ e.ended = side[s].ended
        /\ e.peerClosed = side[s].peerClosed /\ e.number = side[s].number
        /\ e.grant = 0
    BY <1>1, <1>2 DEF Dispatcher
  <2> QED
    BY <1>2, <2>2, <2>3
<1> QED
  BY <1>1, <1>3, QuietStep, RingStays DEF Types

LEMMA QueryInv ==
  ASSUME PipeInv, QueryData
  PROVE  PipeInv'
<1> USE DEF PipeInv
<1>1. PICK d, e : d = side[Consumer] /\ e = [side[Consumer] EXCEPT !.newData = FALSE]
  OBVIOUS
<1>2. d \in Dispatcher /\ d.at = "here"
  BY <1>1, DispatcherFacts, SideFacts DEF QueryData, Usable
<1>3. /\ e \in Dispatcher /\ e.closed = d.closed /\ e.offset = d.offset
      /\ e.avail = d.avail /\ e.queue = d.queue /\ e.ended = d.ended
      /\ e.peerClosed = d.peerClosed /\ e.number = d.number
      /\ e.grant = d.grant /\ e.at = "here"
  BY <1>1, <1>2 DEF Dispatcher
<1>4. /\ side' = [side EXCEPT ![Consumer] = e]
      /\ UNCHANGED <<ring, net, changed, call, moves, written, consumed, lost>>
  BY <1>1 DEF QueryData, Set
<1> QED
  BY <1>1, <1>3, <1>4, QuietStep, RingStays, SideFacts DEF Types

LEMMA BeginReadInv ==
  ASSUME PipeInv, BeginReadData
  PROVE  PipeInv'
<1> USE DEF PipeInv
<1>1. PICK d, k : d = side[Consumer] /\ k = Least(d.avail, Capacity - d.offset)
  OBVIOUS
<1>2. /\ d \in Dispatcher /\ d.grant = 0 /\ d.at = "here" /\ d.avail > 0
      /\ d.avail \in 0 .. Capacity /\ d.offset \in 0 .. Capacity - 1
      /\ Capacity \in Nat
  BY <1>1, DispatcherFacts, SideFacts, CapacityAssumption DEF BeginReadData, Usable
<1>3. k \in 1 .. Capacity /\ k \in 0 .. Capacity /\ k <= d.avail
  <2>1. PICK a \in Int : a = Capacity - d.offset
    BY <1>2
  <2>2. k \in {a, d.avail} /\ k <= a /\ k <= d.avail
    BY <1>1, <1>2, <2>1, LeastFacts
  <2> QED
    BY <1>2, <2>1, <2>2
<1>4. PICK e : e = [d EXCEPT !.newData = FALSE, !.grant = k]
  OBVIOUS
<1>5. /\ side' = [side EXCEPT ![Consumer] = e]
      /\ UNCHANGED <<ring, net, changed, call, moves, written, consumed, lost>>
  BY <1>1, <1>4 DEF BeginReadData, Set
<1>6. /\ e \in Dispatcher /\ e.closed = d.closed /\ e.offset = d.offset /\ e.avail = d.avail
      /\ e.queue = d.queue /\ e.ended = d.ended /\ e.peerClosed = d.peerClosed
      /\ e.number = d.number /\ e.at = "here" /\ e.grant <= e.avail
  <2>1. e \in Dispatcher
    BY <1>2, <1>3, <1>4 DEF Dispatcher
  <2>2. /\ e.closed = d.closed /\ e.offset = d.offset /\ e.avail = d.avail
        /\ e.queue = d.queue /\ e.ended = d.ended /\ e.peerClosed = d.peerClosed
        /\ e.number = d.number /\ e.at = "here" /\ e.grant = k
    BY <1>2, <1>4 DEF Dispatcher
  <2> QED
    BY <1>3, <2>1, <2>2
<1>7. ~Ending(Consumer)
  BY <1>1, <1>2, NoneEnding, SideFacts
<1> QED
  BY <1>1, <1>5, <1>6, <1>7, QuietStep, RingStays, SideFacts DEF Types

\* The handle begins or ends its journey; what has arrived stays where it is.
LEMMA MoveInv ==
  ASSUME PipeInv, NEW s \in Side,
         BeginTransit(s) \/ CompleteTransitAndClose(s) \/ (CancelTransit(s) /\ s # Consumer)
  PROVE  PipeInv'
<1> USE DEF PipeInv
<1>1. PICK d \in Dispatcher : d = side[s]
  BY DispatcherFacts
<1>2. d.grant = 0
  BY <1>1 DEF BeginTransit, CompleteTransitAndClose, CancelTransit, Grants
<1>3. PICK e \in Dispatcher :
        /\ side' = [side EXCEPT ![s] = e] /\ e.closed = d.closed /\ e.offset = d.offset
        /\ e.avail = d.avail /\ e.queue = d.queue /\ e.ended = d.ended
        /\ e.peerClosed = d.peerClosed /\ e.number = d.number /\ e.grant = d.grant
  <2>1. CASE BeginTransit(s)
    <3>1. side' = [side EXCEPT ![s] = [d EXCEPT !.at = "transit"]]
      BY <1>1, <2>1 DEF BeginTransit
    <3>2. [d EXCEPT !.at = "transit"] \in Dispatcher
      BY <1>1 DEF Dispatcher
    <3> QED
      BY <3>1, <3>2, <1>1 DEF Dispatcher
  <2>2. CASE CompleteTransitAndClose(s)
    <3>1. side' = [side EXCEPT ![s] = [d EXCEPT !.at = "wire", !.newData = FALSE]]
      BY <1>1, <2>2 DEF CompleteTransitAndClose, Set
    <3>2. [d EXCEPT !.at = "wire", !.newData = FALSE] \in Dispatcher
      BY <1>1 DEF Dispatcher
    <3> QED
      BY <3>1, <3>2, <1>1 DEF Dispatcher
  <2>3. CASE CancelTransit(s) /\ s # Consumer
    <3>1. side' = [side EXCEPT ![s] = [d EXCEPT !.at = "here", !.overlooked = TRUE]]
      BY <1>1, <2>3 DEF CancelTransit, Set
    <3>2. [d EXCEPT !.at = "here", !.overlooked = TRUE] \in Dispatcher
      BY <1>1 DEF Dispatcher
    <3> QED
      BY <3>1, <3>2, <1>1 DEF Dispatcher
  <2> QED
    BY <2>1, <2>2, <2>3
<1>4. /\ UNCHANGED <<ring, net, call, written, consumed, lost>>
      /\ changed' \subseteq Side /\ moves' \in Nat
  <2>1. CASE BeginTransit(s)
    BY <2>1 DEF BeginTransit, Types
  <2>2. CASE CompleteTransitAndClose(s)
    BY <2>2 DEF CompleteTransitAndClose, Types
  <2>3. CASE CancelTransit(s)
    BY <2>3 DEF CancelTransit, Types
  <2> QED
    BY <2>1, <2>2, <2>3
<1> QED
  BY <1>1, <1>2, <1>3, <1>4, QuietStep, RingStays

-----------------------------------------------------------------------------
(***************************************************************************)
(* A side reads its control messages.                                      *)
(***************************************************************************)

\* UpdateSignalsStateNoLock, when the messages claim no more than there is: all
\* of them are read, or, in transit, none.
ReadsAll(s, d, e) ==
  /\ e \in Dispatcher
  /\ e.at = d.at /\ e.closed = d.closed /\ e.offset = d.offset /\ e.grant = d.grant
  /\ e.ended = d.ended /\ e.home = d.home /\ e.number = d.number
  /\ e.avail = d.avail + Total(d.queue) - Total(e.queue) /\ d.avail <= e.avail
  /\ \/ e = d /\ d.at = "transit" /\ d.queue # << >>
     \/ /\ e.queue = << >> /\ Total(e.queue) = 0
        /\ e.peerClosed = (d.peerClosed \/ d.ended)
        /\ e.newData = (d.newData \/ (s = Consumer /\ Total(d.queue) > 0))

LEMMA UpdatedIs ==
  ASSUME NEW s \in Side, NEW d \in Dispatcher, d.avail + Total(d.queue) <= Capacity
  PROVE  ReadsAll(s, d, Updated(s, d))
<1>1. /\ d.queue \in Seq(1 .. Capacity) /\ d.avail \in 0 .. Capacity /\ Capacity \in Nat
      /\ d.avail \in Nat
  BY CapacityAssumption DEF Dispatcher
<1>2. d.queue \in Seq(Nat) /\ Len(d.queue) \in Nat
  BY <1>1
<1>3. PICK n \in Nat, room \in Nat : n = Total(d.queue) /\ room = Capacity - d.avail
  BY <1>1, <1>2, TotalNat
<1>4. Accepted(d.queue, Capacity - d.avail) = Len(d.queue)
  <2>1. Total(d.queue) <= room
    BY <1>1, <1>3
  <2>2. Accepted(d.queue, room) = Len(d.queue)
    BY <1>2, <2>1, AllAccepted
  <2> QED
    BY <1>3, <2>2
<1>5. SubSeq(d.queue, 1, Len(d.queue)) = d.queue
  BY <1>1, SubSeqFull
<1>6. SubSeq(d.queue, Len(d.queue) + 2, Len(d.queue)) = << >>
  <2>1. Len(d.queue) + 2 \in Int /\ Len(d.queue) \in Int /\ Len(d.queue) < Len(d.queue) + 2
    BY <1>2
  <2> QED
    BY <2>1, SubSeqEmpty
<1>7. ~(Len(d.queue) < Len(d.queue))
  BY <1>2
<1>8. CASE d.at = "transit" /\ d.queue # << >>
  <2>1. Updated(s, d) = d
    BY <1>8 DEF Updated
  <2> QED
    BY <1>1, <1>3, <1>8, <2>1 DEF ReadsAll
<1>9. CASE ~(d.at = "transit" /\ d.queue # << >>)
  <2>1. PICK e : e = [d EXCEPT !.avail = d.avail + n,
                               !.newData = d.newData \/ (s = Consumer /\ n > 0),
                               !.peerClosed = d.peerClosed \/ d.ended,
                               !.queue = << >>, !.overlooked = FALSE]
    OBVIOUS
  <2>2. Updated(s, d) = e
    BY <1>3, <1>4, <1>5, <1>6, <1>7, <1>9, <2>1 DEF Updated
  <2>3. /\ d.avail + n \in 0 .. Capacity /\ << >> \in Seq(1 .. Capacity)
        /\ d.newData \in BOOLEAN /\ d.peerClosed \in BOOLEAN /\ d.ended \in BOOLEAN
    BY <1>1, <1>3 DEF Dispatcher
  <2>4. e \in Dispatcher
    BY <2>1, <2>3 DEF Dispatcher
  <2>5. /\ e.at = d.at /\ e.closed = d.closed /\ e.offset = d.offset /\ e.grant = d.grant
        /\ e.ended = d.ended /\ e.home = d.home /\ e.number = d.number
        /\ e.avail = d.avail + n /\ e.queue = << >>
        /\ e.peerClosed = (d.peerClosed \/ d.ended)
        /\ e.newData = (d.newData \/ (s = Consumer /\ n > 0))
    BY <2>1 DEF Dispatcher
  <2>6. Total(e.queue) = 0
    BY <2>5, TotalEmpty
  <2>7. e.avail = d.avail + Total(d.queue) - Total(e.queue) /\ d.avail <= e.avail
    BY <1>1, <1>3, <2>5, <2>6
  <2> QED
    BY <1>3, <2>2, <2>4, <2>5, <2>6, <2>7 DEF ReadsAll
<1> QED
  BY <1>8, <1>9

\* Nobody has been told of more than there can be.
LEMMA NoOverclaim ==
  ASSUME Types, Books, NEW s \in Side
  PROVE  side[s].avail + Total(side[s].queue) <= Capacity
<1>1. /\ Held(s) = side[s].avail + Bytes(side[s].queue) + Bytes(net[s])
      /\ Bytes(side[s].queue) = Total(side[s].queue)
      /\ side[s].avail \in Nat /\ Bytes(side[s].queue) \in Nat /\ Bytes(net[s]) \in Nat
  BY HeldIs
<1>2. Held(Producer) <= Capacity /\ Held(Consumer) <= Capacity
  BY Numbers DEF Books
<1>3. Held(s) <= Capacity
  BY <1>2, SideFacts
<1> QED
  BY <1>1, <1>3, Numbers

LEMMA ReadStep ==
  ASSUME PipeInv, NEW s \in Side, NEW d \in Dispatcher, NEW e,
         ReadsAll(s, d, e), side' = [side EXCEPT ![s] = e],
         UNCHANGED <<ring, net, call, moves, written, consumed, lost>>,
         changed' \subseteq Side,
         d.closed = side[s].closed, d.offset = side[s].offset, d.avail = side[s].avail,
         d.queue = side[s].queue, d.ended = side[s].ended, d.grant = side[s].grant,
         d.peerClosed = side[s].peerClosed,
         d.number = side[s].number \/ side[s].grant = 0,
         d.at = "here" \/ d.at = side[s].at
  PROVE  PipeInv'
<1> USE DEF PipeInv
<1>1. e \in Dispatcher
  BY DEF ReadsAll
<1>2. /\ side' \in [Side -> Dispatcher] /\ side'[s] = e
      /\ \A r \in Side : r # s => side'[r] = side[r]
  BY <1>1, SetFacts
<1>3. Types'
  BY <1>2 DEF Types
<1>4. Held(s)' = Held(s) /\ Held(s) \in Nat
  <2>1. /\ Held(s) = side[s].avail + Bytes(side[s].queue) + Bytes(net[s])
        /\ Bytes(side[s].queue) = Total(side[s].queue) /\ Held(s) \in Nat
        /\ side[s].avail \in Nat /\ Bytes(side[s].queue) \in Nat /\ Bytes(net[s]) \in Nat
    BY HeldIs
  <2>2. Held(s)' = side'[s].avail + Bytes(side'[s].queue) + Bytes(net'[s])
    BY <1>3, HeldPrime
  <2>3. Bytes(e.queue) = Total(e.queue) /\ Total(e.queue) \in Nat
    <3>1. e.queue \in Seq(1 .. Capacity)
      BY <1>1 DEF Dispatcher
    <3> QED
      BY <3>1, BytesTotal
  <2>4. e.avail = side[s].avail + Total(side[s].queue) - Total(e.queue)
    BY DEF ReadsAll
  <2> QED
    BY <1>2, <2>1, <2>2, <2>3, <2>4
<1>5. \A r \in Side : Held(r)' = Held(r) /\ Held(r) \in Nat
  <2>1. ASSUME NEW r \in Side, r # s PROVE Held(r)' = Held(r) /\ Held(r) \in Nat
    BY <1>2, <1>3, <2>1, HeldIs, HeldPrime
  <2> QED
    BY <1>4, <2>1
<1>6. \A r \in Side : side'[r].closed = side[r].closed /\ side'[r].offset = side[r].offset
  BY <1>2 DEF ReadsAll
<1>7. Books'
  <2>1. \A r \in Side : Held(r)' <= Held(r)
    BY <1>5
  <2> QED
    BY <1>3, <1>5, <1>6, <2>1, BooksKept
<1>8. RingKept'
  BY RingStays
<1>9. Grants'
  <2>1. \A t \in Thread, r \in Side : IsEnding(t, r)' <=> IsEnding(t, r)
    BY DEF IsEnding
  <2>2. \A r \in Side : /\ side'[r].grant = side[r].grant
                        /\ side'[r].number = side[r].number \/ side[r].grant = 0
                        /\ side'[r].at = "here" \/ side'[r].at = side[r].at
    BY <1>2 DEF ReadsAll
  <2>3. ASSUME NEW t \in Thread, NEW r \in Side, IsEnding(t, r)'
        PROVE  /\ call'[t].number = side'[r].number /\ side'[r].grant > 0
               /\ \A u \in Thread : IsEnding(u, r)' => u = t
    <3>1. side[r].grant > 0 /\ call[t].number = side[r].number
      BY <2>1, <2>3 DEF Grants
    <3>2. side'[r].number = side[r].number
      BY <2>2, <3>1
    <3> QED
      BY <2>1, <2>2, <2>3, <3>1, <3>2 DEF Grants
  <2>4. ASSUME NEW r \in Side, side'[r].at # "here" PROVE side'[r].grant = 0
    BY <2>2, <2>4 DEF Grants
  <2>5. ASSUME side'[Consumer].grant > 0, ~Ending(Consumer)'
        PROVE  side'[Consumer].grant <= side'[Consumer].avail
    <3>1. ~Ending(Consumer)
      BY <2>5 DEF Ending
    <3>2. side[Consumer].grant <= side[Consumer].avail
      BY <2>2, <2>5, <3>1, SideFacts DEF Grants
    <3>3. side[Consumer].avail <= side'[Consumer].avail
      <4>1. CASE s = Consumer
        BY <1>2, <4>1 DEF ReadsAll
      <4>2. CASE s # Consumer
        BY <1>2, <4>2, SideFacts, DispatcherFacts, CapacityAssumption
      <4> QED
        BY <4>1, <4>2
    <3>4. /\ side[Consumer].avail \in Int /\ side[Consumer].grant \in Int
          /\ side'[Consumer].avail \in Int
      BY <1>2, SideFacts, CapacityAssumption DEF Types, Dispatcher
    <3> QED
      BY <2>2, <3>2, <3>3, <3>4, SideFacts
  <2> QED
    BY <2>3, <2>4, <2>5 DEF Grants
<1>10. Closure'
  <2>1. SUFFICES ASSUME NEW r \in Side
                 PROVE
                   /\ \A i \in 1 .. Len(net[r]) :
                        net[r][i] = Closed => i = Len(net[r]) /\ side[Peer(r)].closed
                   /\ side[r].ended => net[r] = << >> /\ side[Peer(r)].closed
                   /\ side'[r].peerClosed =>
                        /\ side[Peer(r)].closed /\ side'[r].queue = << >>
                        /\ \A i \in 1 .. Len(net[r]) : net[r][i] = Closed
    <3>1. \A r \in Side : side'[r].ended = side[r].ended
      BY <1>2 DEF ReadsAll
    <3> QED
      BY <1>6, <3>1, SideFacts DEF Closure
  <2>2. CASE r # s
    BY <1>2, <2>2 DEF Closure
  <2>3. CASE r = s /\ e = d
    BY <1>2, <2>3 DEF Closure
  <2>4. CASE r = s /\ e # d
    <3>1. e.queue = << >> /\ e.peerClosed = (side[s].peerClosed \/ side[s].ended)
      BY <2>4 DEF ReadsAll
    <3>2. side[s].ended => \A i \in 1 .. Len(net[s]) : net[s][i] = Closed
      BY DEF Closure
    <3> QED
      BY <1>2, <2>4, <3>1, <3>2 DEF Closure
  <2> QED
    BY <2>2, <2>3, <2>4
<1> QED
  BY <1>3, <1>7, <1>8, <1>9, <1>10

LEMMA UpdateInv ==
  ASSUME PipeInv, NEW s \in Side,
         OnPortStatusChanged(s) \/ (CancelTransit(s) /\ s = Consumer) \/ Deserialize(s)
  PROVE  PipeInv' /\ \E d \in Dispatcher :
                       /\ ReadsAll(s, d, side'[s]) /\ side' = [side EXCEPT ![s] = side'[s]]
                       /\ Deserialize(s) \/ CancelTransit(s) => d.at = "here"
                       /\ OnPortStatusChanged(s) => d = side[s]
<1> USE DEF PipeInv
<1>1. PICK d \in Dispatcher :
        /\ side' = [side EXCEPT ![s] = Updated(s, d)]
        /\ d.closed = side[s].closed /\ d.offset = side[s].offset /\ d.avail = side[s].avail
        /\ d.queue = side[s].queue /\ d.ended = side[s].ended /\ d.grant = side[s].grant
        /\ d.peerClosed = side[s].peerClosed
        /\ d.number = side[s].number \/ side[s].grant = 0
        /\ d.at = "here" \/ d.at = side[s].at
        /\ Deserialize(s) \/ CancelTransit(s) => d.at = "here"
        /\ OnPortStatusChanged(s) => d = side[s]
  <2>0. PICK c \in Dispatcher : c = side[s]
    BY DispatcherFacts
  <2>1. CASE OnPortStatusChanged(s) /\ ~(Deserialize(s) \/ CancelTransit(s))
    BY <2>0, <2>1 DEF OnPortStatusChanged, UpdateSignalsState, Set
  <2>2. CASE CancelTransit(s) /\ s = Consumer /\ ~OnPortStatusChanged(s)
    <3>1. PICK d : d = [c EXCEPT !.at = "here"]
      OBVIOUS
    <3>2. side' = [side EXCEPT ![s] = Updated(s, d)]
      BY <2>0, <2>2, <3>1 DEF CancelTransit, UpdateSignalsState, Set
    <3>3. d \in Dispatcher
      BY <3>1 DEF Dispatcher
    <3> QED
      BY <2>0, <2>2, <3>1, <3>2, <3>3 DEF Dispatcher
  <2>3. CASE Deserialize(s) /\ ~OnPortStatusChanged(s)
    <3>1. PICK d : d = [c EXCEPT !.at = "here", !.number = c.number + 1,
                                 !.newData = (s = Consumer /\ c.avail > 0)]
      OBVIOUS
    <3>2. side' = [side EXCEPT ![s] = Updated(s, d)] /\ c.at \in {"wire", "away"}
      BY <2>0, <2>3, <3>1 DEF Deserialize, Set
    <3>3. c.number + 1 \in Nat /\ (s = Consumer /\ c.avail > 0) \in BOOLEAN
      BY DEF Dispatcher
    <3>4. d \in Dispatcher
      BY <3>1, <3>3 DEF Dispatcher
    <3>5. c.grant = 0
      BY <2>0, <3>2 DEF Grants
    <3>6. /\ d.closed = c.closed /\ d.offset = c.offset /\ d.avail = c.avail
          /\ d.queue = c.queue /\ d.ended = c.ended /\ d.grant = c.grant
          /\ d.peerClosed = c.peerClosed /\ d.at = "here"
      BY <2>0, <3>1 DEF Dispatcher
    <3> QED
      BY <2>0, <2>3, <3>2, <3>4, <3>5, <3>6
  <2>4. ~(OnPortStatusChanged(s) /\ CancelTransit(s))
    BY DEF OnPortStatusChanged, CancelTransit, Types
  <2>5. ~(OnPortStatusChanged(s) /\ Deserialize(s))
    BY DEF OnPortStatusChanged, Deserialize, Types
  <2> QED
    BY <2>1, <2>2, <2>3, <2>4, <2>5
<1>2. d.avail + Total(d.queue) <= Capacity
  BY <1>1, NoOverclaim
<1>3. ReadsAll(s, d, Updated(s, d))
  BY <1>2, UpdatedIs
<1>4. UNCHANGED <<ring, net, call, moves, written, consumed, lost>> /\ changed' \subseteq Side
  <2>1. CASE OnPortStatusChanged(s)
    BY <2>1 DEF OnPortStatusChanged, Types
  <2>2. CASE CancelTransit(s)
    BY <2>2 DEF CancelTransit, Types
  <2>3. CASE Deserialize(s)
    BY <2>3 DEF Deserialize, Types
  <2> QED
    BY <2>1, <2>2, <2>3
<1>5. side'[s] = Updated(s, d)
  BY <1>1 DEF Types
<1>6. PipeInv'
  BY <1>1, <1>3, <1>4, ReadStep
<1> QED
  BY <1>1, <1>3, <1>5, <1>6

-----------------------------------------------------------------------------
(***************************************************************************)
(* Control messages on their way.                                          *)
(***************************************************************************)

\* The grants of a side are looked at by those who change them only.
LEMMA GrantsKept ==
  ASSUME Types, Grants, call' = call, side' \in [Side -> Dispatcher],
         \A r \in Side : /\ side'[r].grant = side[r].grant /\ side'[r].number = side[r].number
                         /\ side'[r].at = "here" \/ side[r].at # "here"
                         /\ side'[r].avail = side[r].avail
  PROVE  Grants'
<1>1. \A t \in Thread, r \in Side : IsEnding(t, r)' <=> IsEnding(t, r)
  BY DEF IsEnding
<1>2. Ending(Consumer)' <=> Ending(Consumer)
  BY DEF Ending
<1> QED
  BY <1>1, <1>2, SideFacts DEF Grants

LEMMA HeadTail ==
  ASSUME NEW q \in Seq(Message), q # << >>
  PROVE  /\ Head(q) \in Message /\ Tail(q) \in Seq(Message) /\ Len(q) \in Nat /\ Len(q) >= 1
         /\ Len(Tail(q)) = Len(q) - 1 /\ Head(q) = q[1]
         /\ \A i \in 1 .. Len(q) - 1 : Tail(q)[i] = q[i + 1]
         /\ 1 = Len(q) => Tail(q) = << >>
         /\ Bytes(q) = Bytes(Tail(q)) + (IF Head(q) = Closed THEN 0 ELSE Head(q))
<1>1. /\ Head(q) \in Message /\ Tail(q) \in Seq(Message) /\ Len(q) \in Nat /\ Len(q) >= 1
      /\ Len(Tail(q)) = Len(q) - 1 /\ Head(q) = q[1]
      /\ \A i \in 1 .. Len(q) - 1 : Tail(q)[i] = q[i + 1]
      /\ 1 = Len(q) => Tail(q) = << >>
  <2>1. \A r \in Seq(Message) : Len(r) = 0 => r = << >>
    OBVIOUS
  <2>2. /\ Head(q) \in Message /\ Tail(q) \in Seq(Message) /\ Len(q) \in Nat /\ Len(q) >= 1
        /\ Len(Tail(q)) = Len(q) - 1 /\ Head(q) = q[1]
        /\ \A i \in 1 .. Len(q) - 1 : Tail(q)[i] = q[i + 1]
    OBVIOUS
  <2>3. 1 = Len(q) => Len(Tail(q)) = 0
    BY <2>2
  <2> QED
    BY <2>1, <2>2, <2>3
<1>2. PICK m \in Message, h \in Seq(Message) : m = Head(q) /\ h = << m >>
  <2>1. \A m \in Message : << m >> \in Seq(Message)
    OBVIOUS
  <2> QED
    BY <1>1, <2>1
<1>3. q = h \o Tail(q)
  <2>1. /\ h \o Tail(q) \in Seq(Message) /\ Len(h) = 1
        /\ Len(h \o Tail(q)) = Len(q)
    BY <1>1, <1>2
  <2>2. \A i \in 1 .. Len(q) : (h \o Tail(q))[i] = q[i]
    BY <1>1, <1>2, <2>1
  <2> QED
    BY <2>1, <2>2, EqualSeqs
<1>4. h = Append(<< >>, Head(q))
  <2>1. \A x \in Message : << x >> = Append(<< >>, x)
    OBVIOUS
  <2> QED
    BY <1>2, <2>1
<1>5. Bytes(h) = (IF Head(q) = Closed THEN 0 ELSE Head(q)) /\ Bytes(h) \in Nat
  <2>1. Bytes(h) = Bytes(<< >>) + (IF Head(q) = Closed THEN 0 ELSE Head(q))
    BY <1>1, <1>4, BytesEmpty, BytesAppend
  <2>2. PICK x \in Nat : x = IF Head(q) = Closed THEN 0 ELSE Head(q)
    BY <1>1, CapacityAssumption DEF Message, Closed
  <2> QED
    BY <2>1, <2>2, BytesEmpty
<1>6. Bytes(q) = Bytes(h) + Bytes(Tail(q)) /\ Bytes(Tail(q)) \in Nat
  BY <1>1, <1>3, BytesConcat, DataType
<1> QED
  BY <1>1, <1>5, <1>6

LEMMA DeliverInv ==
  ASSUME PipeInv, NEW s \in Side, Deliver(s)
  PROVE  PipeInv'
<1> USE DEF PipeInv
<1>1. PICK q \in Seq(Message), d \in Dispatcher : q = net[s] /\ d = side[s]
  BY DispatcherFacts
<1>2. PICK m, e : /\ m = Head(q)
                  /\ e = IF m = Closed THEN [d EXCEPT !.ended = TRUE]
                         ELSE [d EXCEPT !.queue = Append(d.queue, m)]
  OBVIOUS
<1>3. /\ q # << >> /\ net' = [net EXCEPT ![s] = Tail(q)]
      /\ side' = [side EXCEPT ![s] = e]
      /\ changed' \subseteq Side
      /\ UNCHANGED <<ring, call, moves, told, written, consumed, lost>>
  BY <1>1, <1>2 DEF Deliver, Types
<1>4. /\ m \in Message /\ Tail(q) \in Seq(Message) /\ Len(q) \in Nat /\ Len(q) >= 1
      /\ Len(Tail(q)) = Len(q) - 1 /\ m = q[1]
      /\ \A i \in 1 .. Len(q) - 1 : Tail(q)[i] = q[i + 1]
      /\ Bytes(q) = Bytes(Tail(q)) + (IF m = Closed THEN 0 ELSE m)
  BY <1>1, <1>2, <1>3, HeadTail
<1>5. d.queue \in Seq(1 .. Capacity) /\ d.queue \in Seq(Message)
  BY <1>1, BytesTotal DEF Dispatcher
<1>6. m # Closed => m \in 1 .. Capacity /\ Append(d.queue, m) \in Seq(1 .. Capacity)
  BY <1>4, <1>5 DEF Message
<1>7. /\ e \in Dispatcher /\ e.at = d.at /\ e.closed = d.closed /\ e.offset = d.offset
      /\ e.avail = d.avail /\ e.grant = d.grant /\ e.newData = d.newData
      /\ e.peerClosed = d.peerClosed /\ e.number = d.number
      /\ e.queue = (IF m = Closed THEN d.queue ELSE Append(d.queue, m))
      /\ e.ended => m = Closed \/ d.ended
  <2>1. CASE m = Closed
    BY <1>2, <2>1 DEF Dispatcher
  <2>2. CASE m # Closed
    <3>1. e = [d EXCEPT !.queue = Append(d.queue, m)]
      BY <1>2, <2>2
    <3> QED
      BY <1>6, <2>2, <3>1 DEF Dispatcher
  <2> QED
    BY <2>1, <2>2
<1>8. /\ side' \in [Side -> Dispatcher] /\ side'[s] = e
      /\ \A r \in Side : r # s => side'[r] = side[r]
  BY <1>3, <1>7, SetFacts
<1>9. /\ net' \in [Side -> Seq(Message)] /\ net'[s] = Tail(q)
      /\ \A r \in Side : r # s => net'[r] = net[r]
  BY <1>3, <1>4 DEF Types
<1>10. Types'
  BY <1>3, <1>8, <1>9 DEF Types
<1>11. \A r \in Side : /\ side'[r].closed = side[r].closed /\ side'[r].offset = side[r].offset
                       /\ side'[r].avail = side[r].avail /\ side'[r].grant = side[r].grant
                       /\ side'[r].number = side[r].number /\ side'[r].at = side[r].at
                       /\ side'[r].peerClosed = side[r].peerClosed
  BY <1>1, <1>7, <1>8
<1>12. \A r \in Side : Held(r)' = Held(r) /\ Held(r) \in Nat
  <2>1. ASSUME NEW r \in Side, r # s PROVE Held(r)' = Held(r) /\ Held(r) \in Nat
    BY <1>8, <1>9, <1>10, <2>1, HeldIs, HeldPrime
  <2>2. Held(s)' = Held(s) /\ Held(s) \in Nat
    <3>1. Bytes(e.queue) = Bytes(d.queue) + (IF m = Closed THEN 0 ELSE m)
      <4>1. Bytes(d.queue) \in Nat
        BY <1>5, DataType
      <4> QED
        BY <1>4, <1>5, <1>7, <4>1, BytesAppend
    <3>2. /\ Held(s) = d.avail + Bytes(d.queue) + Bytes(q) /\ Held(s) \in Nat
          /\ d.avail \in Nat /\ Bytes(d.queue) \in Nat /\ Bytes(q) \in Nat
      BY <1>1, HeldIs
    <3>3. Held(s)' = e.avail + Bytes(e.queue) + Bytes(Tail(q))
      BY <1>8, <1>9, <1>10, HeldPrime
    <3>4. Bytes(Tail(q)) \in Nat
      BY <1>4, DataType
    <3>5. PICK x \in Nat : x = IF m = Closed THEN 0 ELSE m
      BY <1>4, CapacityAssumption DEF Message, Closed
    <3>6. Bytes(e.queue) = Bytes(d.queue) + x /\ Bytes(q) = Bytes(Tail(q)) + x
      BY <1>4, <3>1, <3>5
    <3>7. e.avail = d.avail
      BY <1>7
    <3>8. x \in Nat
      BY <3>5
    <3>9. e.avail + Bytes(e.queue) + Bytes(Tail(q)) = d.avail + Bytes(d.queue) + Bytes(q)
      BY <3>2, <3>4, <3>6, <3>7, <3>8
    <3> QED
      BY <3>2, <3>3, <3>9
  <2> QED
    BY <2>1, <2>2
<1>13. Books'
  <2>1. \A r \in Side : Held(r)' <= Held(r)
    BY <1>12
  <2> QED
    BY <1>3, <1>10, <1>11, <1>12, <2>1, BooksKept
<1>14. RingKept'
  BY <1>3, RingStays
<1>15. Grants'
  BY <1>3, <1>8, <1>11, GrantsKept
<1>16. Closure'
  <2>1. SUFFICES ASSUME NEW r \in Side
                 PROVE
                   /\ \A i \in 1 .. Len(net'[r]) :
                        net'[r][i] = Closed => i = Len(net'[r]) /\ side[Peer(r)].closed
                   /\ side'[r].ended => net'[r] = << >> /\ side[Peer(r)].closed
                   /\ side[r].peerClosed =>
                        /\ side[Peer(r)].closed /\ side'[r].queue = << >>
                        /\ \A i \in 1 .. Len(net'[r]) : net'[r][i] = Closed
    BY <1>11, SideFacts DEF Closure
  <2>2. CASE r # s
    BY <1>8, <1>9, <2>2 DEF Closure
  <2>3. CASE r = s
    <3>1. ASSUME NEW i \in 1 .. Len(Tail(q))
          PROVE  i + 1 \in 1 .. Len(q) /\ Tail(q)[i] = q[i + 1]
                 /\ (i + 1 = Len(q) <=> i = Len(Tail(q)))
      BY <1>4
    <3>2. ASSUME NEW i \in 1 .. Len(Tail(q)), Tail(q)[i] = Closed
          PROVE  i = Len(Tail(q)) /\ side[Peer(s)].closed
      BY <1>1, <3>1, <3>2 DEF Closure
    <3>3. ASSUME e.ended PROVE Tail(q) = << >> /\ side[Peer(s)].closed
      <4>1. ~d.ended
        BY <1>1, <1>3 DEF Closure
      <4>2. q[1] = Closed /\ 1 \in 1 .. Len(q)
        BY <1>4, <1>7, <3>3, <4>1
      <4>3. 1 = Len(q) /\ side[Peer(s)].closed
        BY <1>1, <4>2 DEF Closure
      <4>4. 1 = Len(q) => Tail(q) = << >>
        BY <1>3, HeadTail
      <4> QED
        BY <4>3, <4>4
    <3>4. ASSUME d.peerClosed
          PROVE  /\ side[Peer(s)].closed /\ e.queue = << >>
                 /\ \A i \in 1 .. Len(Tail(q)) : Tail(q)[i] = Closed
      <4>1. /\ side[Peer(s)].closed /\ d.queue = << >>
            /\ \A i \in 1 .. Len(q) : q[i] = Closed
        BY <1>1, <3>4 DEF Closure
      <4>2. m = Closed
        BY <1>4, <4>1
      <4> QED
        BY <1>7, <3>1, <4>1, <4>2
    <3> QED
      BY <1>1, <1>8, <1>9, <2>3, <3>2, <3>3, <3>4
  <2> QED
    BY <2>2, <2>3
<1> QED
  BY <1>10, <1>13, <1>14, <1>15, <1>16

LEMMA SendAwayInv ==
  ASSUME PipeInv, NEW s \in Side, SendAway(s)
  PROVE  PipeInv'
<1> USE DEF PipeInv
<1>1. PICK q \in Seq(Message), d \in Dispatcher : q = net[s] /\ d = side[s]
  BY DispatcherFacts
<1>2. PICK a, e : /\ a = IF d.ended THEN Append(d.queue, Closed) ELSE d.queue
                  /\ e = [d EXCEPT !.at = "away", !.home = d.home + 1,
                                   !.queue = << >>, !.ended = FALSE]
  OBVIOUS
<1>3. /\ d.at = "wire" /\ net' = [net EXCEPT ![s] = a \o q]
      /\ side' = [side EXCEPT ![s] = e]
      /\ UNCHANGED <<ring, changed, call, moves, told, written, consumed, lost>>
  BY <1>1, <1>2 DEF SendAway
<1>4. d.queue \in Seq(1 .. Capacity) /\ d.queue \in Seq(Message) /\ Closed \in Message
  BY <1>1, BytesTotal DEF Dispatcher, Message
<1>5. a \in Seq(Message) /\ Bytes(a) = Bytes(d.queue) /\ Bytes(a) \in Nat
  <2>1. /\ Append(d.queue, Closed) \in Seq(Message) /\ Bytes(d.queue) \in Nat
        /\ Bytes(Append(d.queue, Closed)) = Bytes(d.queue) + 0
    BY <1>4, BytesAppend, DataType
  <2> QED
    BY <1>2, <1>4, <2>1
<1>6. a \o q \in Seq(Message) /\ Bytes(a \o q) = Bytes(a) + Bytes(q)
  BY <1>1, <1>5, BytesConcat
<1>7. /\ e \in Dispatcher /\ e.closed = d.closed /\ e.offset = d.offset /\ e.at = "away"
      /\ e.avail = d.avail /\ e.grant = d.grant /\ e.number = d.number
      /\ e.peerClosed = d.peerClosed /\ e.queue = << >> /\ ~e.ended
  <2>1. d.home + 1 \in Nat /\ << >> \in Seq(1 .. Capacity)
    BY <1>1 DEF Dispatcher
  <2> QED
    BY <1>1, <1>2, <2>1 DEF Dispatcher
<1>8. /\ side' \in [Side -> Dispatcher] /\ side'[s] = e
      /\ \A r \in Side : r # s => side'[r] = side[r]
  BY <1>3, <1>7, SetFacts
<1>9. /\ net' \in [Side -> Seq(Message)] /\ net'[s] = a \o q
      /\ \A r \in Side : r # s => net'[r] = net[r]
  BY <1>3, <1>6 DEF Types
<1>10. Types'
  BY <1>3, <1>8, <1>9 DEF Types
<1>11. \A r \in Side : /\ side'[r].closed = side[r].closed /\ side'[r].offset = side[r].offset
                       /\ side'[r].avail = side[r].avail /\ side'[r].grant = side[r].grant
                       /\ side'[r].number = side[r].number
                       /\ side'[r].at = "here" \/ side[r].at # "here"
                       /\ side'[r].peerClosed = side[r].peerClosed
  BY <1>1, <1>3, <1>7, <1>8
<1>12. \A r \in Side : Held(r)' = Held(r) /\ Held(r) \in Nat
  <2>1. ASSUME NEW r \in Side, r # s PROVE Held(r)' = Held(r) /\ Held(r) \in Nat
    BY <1>8, <1>9, <1>10, <2>1, HeldIs, HeldPrime
  <2>2. Held(s)' = Held(s) /\ Held(s) \in Nat
    <3>1. /\ Held(s) = d.avail + Bytes(d.queue) + Bytes(q) /\ Held(s) \in Nat
          /\ d.avail \in Nat /\ Bytes(d.queue) \in Nat /\ Bytes(q) \in Nat
      BY <1>1, HeldIs
    <3>2. Held(s)' = e.avail + Bytes(e.queue) + Bytes(a \o q)
      BY <1>8, <1>9, <1>10, HeldPrime
    <3>3. e.avail = d.avail /\ Bytes(e.queue) = 0
      BY <1>7, BytesEmpty
    <3>4. e.avail + Bytes(e.queue) + Bytes(a \o q) = d.avail + Bytes(d.queue) + Bytes(q)
      BY <1>5, <1>6, <3>1, <3>3
    <3> QED
      BY <3>1, <3>2, <3>4
  <2> QED
    BY <2>1, <2>2
<1>13. Books'
  <2>1. \A r \in Side : Held(r)' <= Held(r)
    BY <1>12
  <2> QED
    BY <1>3, <1>10, <1>11, <1>12, <2>1, BooksKept
<1>14. RingKept'
  BY <1>3, RingStays
<1>15. Grants'
  BY <1>3, <1>8, <1>11, GrantsKept
<1>16. Closure'
  <2>1. SUFFICES ASSUME NEW r \in Side
                 PROVE
                   /\ \A i \in 1 .. Len(net'[r]) :
                        net'[r][i] = Closed => i = Len(net'[r]) /\ side[Peer(r)].closed
                   /\ side'[r].ended => net'[r] = << >> /\ side[Peer(r)].closed
                   /\ side[r].peerClosed =>
                        /\ side[Peer(r)].closed /\ side'[r].queue = << >>
                        /\ \A i \in 1 .. Len(net'[r]) : net'[r][i] = Closed
    BY <1>11, SideFacts DEF Closure
  <2>2. CASE r # s
    BY <1>8, <1>9, <2>2 DEF Closure
  <2>3. CASE r = s
    <3>1. /\ Len(a \o q) = Len(a) + Len(q) /\ Len(a) \in Nat /\ Len(q) \in Nat
          /\ \A i \in 1 .. Len(a) : (a \o q)[i] = a[i]
          /\ \A j \in 1 .. Len(q) : (a \o q)[Len(a) + j] = q[j]
      BY <1>1, <1>5
    <3>2. \A i \in 1 .. Len(d.queue) : d.queue[i] # Closed
      BY <1>4, CapacityAssumption DEF Closed
    <3>3. ASSUME NEW i \in 1 .. Len(a \o q)
          PROVE  i \in 1 .. Len(a) \/ \E j \in 1 .. Len(q) : i = Len(a) + j
      <4>1. i \in 1 .. Len(a) \/ i - Len(a) \in 1 .. Len(q)
        BY <3>1
      <4>2. i = Len(a) + (i - Len(a))
        BY <3>1
      <4> QED
        BY <4>1, <4>2
    <3>4. ASSUME d.ended
          PROVE  /\ q = << >> /\ Len(q) = 0 /\ side[Peer(s)].closed
                 /\ Len(a) = Len(d.queue) + 1 /\ Len(d.queue) \in Nat
                 /\ \A i \in 1 .. Len(d.queue) : a[i] = d.queue[i]
                 /\ a[Len(a)] = Closed
      <4>1. q = << >> /\ side[Peer(s)].closed
        BY <1>1, <3>4 DEF Closure
      <4>2. a = Append(d.queue, Closed)
        BY <1>2, <3>4
      <4> QED
        BY <1>4, <4>1, <4>2
    <3>5. ASSUME NEW i \in 1 .. Len(a \o q), (a \o q)[i] = Closed
          PROVE  i = Len(a \o q) /\ side[Peer(s)].closed
      <4>1. CASE d.ended
        <5>1. i \in 1 .. Len(a) /\ a[i] = Closed /\ Len(a \o q) = Len(a)
          BY <3>1, <3>4, <3>5, <4>1
        <5>2. i \notin 1 .. Len(d.queue)
          BY <3>2, <3>4, <4>1, <5>1
        <5>3. PICK n \in Nat : n = Len(d.queue) /\ Len(a) = n + 1
          BY <3>4, <4>1
        <5>4. i = Len(a)
          BY <5>1, <5>2, <5>3
        <5> QED
          BY <3>4, <4>1, <5>1, <5>4
      <4>2. CASE ~d.ended
        <5>1. a = d.queue
          BY <1>2, <4>2
        <5>2. i \notin 1 .. Len(a)
          BY <3>1, <3>2, <3>5, <5>1
        <5>3. PICK j \in 1 .. Len(q) : i = Len(a) + j
          BY <3>3, <5>2
        <5>4. q[j] = Closed
          BY <3>1, <3>5, <5>3
        <5>5. j = Len(q) /\ side[Peer(s)].closed
          BY <1>1, <5>4 DEF Closure
        <5> QED
          BY <3>1, <5>3, <5>5
      <4> QED
        BY <4>1, <4>2
    <3>6. ASSUME d.peerClosed, NEW i \in 1 .. Len(a \o q)
          PROVE  (a \o q)[i] = Closed
      <4>1. d.queue = << >> /\ \A j \in 1 .. Len(q) : q[j] = Closed
        BY <1>1, <3>6 DEF Closure
      <4>2. CASE i \in 1 .. Len(a)
        <5>1. d.ended
          BY <1>2, <4>1, <4>2
        <5>2. Len(a) = 1 /\ a[1] = Closed
          <6>1. Len(d.queue) = 0
            BY <4>1
          <6>2. Len(a) = 1
            BY <3>4, <5>1, <6>1
          <6> QED
            BY <3>4, <5>1, <6>2
        <5> QED
          BY <3>1, <4>2, <5>2
      <4>3. CASE \E j \in 1 .. Len(q) : i = Len(a) + j
        BY <3>1, <4>1, <4>3
      <4> QED
        BY <3>3, <4>2, <4>3
    <3>7. d.peerClosed => side[Peer(s)].closed
      BY <1>1 DEF Closure
    <3> QED
      BY <1>1, <1>7, <1>8, <1>9, <2>3, <3>5, <3>6, <3>7
  <2> QED
    BY <2>2, <2>3
<1> QED
  BY <1>10, <1>13, <1>14, <1>15, <1>16

LEMMA CloseInv ==
  ASSUME PipeInv, NEW s \in Side, Close(s)
  PROVE  PipeInv'
<1> USE DEF PipeInv
<1>1. PICK d \in Dispatcher, p \in Side : d = side[s] /\ p = Peer(s)
  BY DispatcherFacts, SideFacts
<1>2. PICK e, b : /\ e = [d EXCEPT !.closed = TRUE, !.queue = << >>]
                  /\ b = IF side[p].closed THEN net[p] ELSE Append(net[p], Closed)
  OBVIOUS
<1>3. /\ d.at = "here" /\ ~d.closed /\ net' = [net EXCEPT ![s] = << >>, ![p] = b]
      /\ side' = [side EXCEPT ![s] = e]
      /\ changed' \subseteq Side
      /\ UNCHANGED <<ring, call, moves, written, consumed, lost>>
  BY <1>1, <1>2, SideFacts DEF Close, Set, Usable, Types
<1>4. /\ e \in Dispatcher /\ e.closed /\ e.offset = d.offset /\ e.at = d.at
      /\ e.avail = d.avail /\ e.grant = d.grant /\ e.number = d.number
      /\ e.peerClosed = d.peerClosed /\ e.queue = << >> /\ e.ended = d.ended
  <2>1. << >> \in Seq(1 .. Capacity)
    OBVIOUS
  <2> QED
    BY <1>1, <1>2, <2>1 DEF Dispatcher
<1>5. s # p /\ Peer(p) = s /\ Side = {s, p}
  BY <1>1, SideFacts
<1>6. b \in Seq(Message) /\ Bytes(b) = Bytes(net[p]) /\ << >> \in Seq(Message)
  <2>1. net[p] \in Seq(Message) /\ Closed \in Message /\ Bytes(net[p]) \in Nat
    BY <1>1, DispatcherFacts, DataType DEF Message
  <2>2. Append(net[p], Closed) \in Seq(Message)
        /\ Bytes(Append(net[p], Closed)) = Bytes(net[p]) + 0
    BY <2>1, BytesAppend
  <2> QED
    BY <1>2, <2>1, <2>2, BytesEmpty
<1>7. side' \in [Side -> Dispatcher] /\ side'[s] = e /\ side'[p] = side[p]
  BY <1>1, <1>3, <1>4, <1>5, SetFacts
<1>8. net' \in [Side -> Seq(Message)] /\ net'[s] = << >> /\ net'[p] = b
  BY <1>1, <1>3, <1>5, <1>6 DEF Types
<1>9. Types'
  BY <1>3, <1>7, <1>8 DEF Types
<1>10. Held(s)' <= Held(s) /\ Held(p)' = Held(p) /\ Held(p)' <= Held(p)
  <2>1. /\ Held(s) = d.avail + Bytes(d.queue) + Bytes(net[s])
        /\ d.avail \in Nat /\ Bytes(d.queue) \in Nat /\ Bytes(net[s]) \in Nat
    BY <1>1, HeldIs
  <2>2. Held(s)' = e.avail + Bytes(e.queue) + Bytes(<< >>)
    BY <1>7, <1>8, <1>9, HeldPrime
  <2>3. e.avail = d.avail /\ Bytes(e.queue) = 0 /\ Bytes(<< >>) = 0
    BY <1>4, BytesEmpty
  <2>4. e.avail + Bytes(e.queue) + Bytes(<< >>) <= d.avail + Bytes(d.queue) + Bytes(net[s])
    BY <2>1, <2>3
  <2>5. /\ Held(p) = side[p].avail + Bytes(side[p].queue) + Bytes(net[p])
        /\ Held(p) \in Nat
    BY <1>1, HeldIs
  <2>6. Held(p)' = side[p].avail + Bytes(side[p].queue) + Bytes(b)
    BY <1>1, <1>7, <1>8, <1>9, HeldPrime
  <2> QED
    BY <1>6, <2>1, <2>2, <2>4, <2>5, <2>6
<1>11. Books'
  <2>1. \A r \in Side : /\ Held(r)' <= Held(r)
                        /\ ~side'[r].closed => Held(r)' = Held(r)
                        /\ side'[r].offset = side[r].offset
                        /\ side[r].closed => side'[r].closed
    BY <1>1, <1>4, <1>5, <1>7, <1>10
  <2> QED
    BY <1>3, <1>9, <2>1, BooksKept
<1>12. RingKept'
  BY <1>3, RingStays
<1>13. Grants'
  <2>1. \A r \in Side : /\ side'[r].grant = side[r].grant /\ side'[r].number = side[r].number
                        /\ side'[r].at = "here" \/ side[r].at # "here"
                        /\ side'[r].avail = side[r].avail
    BY <1>1, <1>4, <1>5, <1>7
  <2> QED
    BY <1>3, <1>7, <2>1, GrantsKept
<1>14. Closure'
  <2>1. /\ \A i \in 1 .. Len(net'[s]) :
             net'[s][i] = Closed => i = Len(net'[s]) /\ side'[p].closed
        /\ side'[s].ended => net'[s] = << >> /\ side'[p].closed
        /\ side'[s].peerClosed => /\ side'[p].closed /\ side'[s].queue = << >>
                                  /\ \A i \in 1 .. Len(net'[s]) : net'[s][i] = Closed
    <3>1. /\ d.ended => side[p].closed
          /\ d.peerClosed => side[p].closed
      BY <1>1 DEF Closure
    <3>2. \A i \in 1 .. Len(<< >>) : FALSE
      OBVIOUS
    <3> QED
      BY <1>4, <1>7, <1>8, <3>1, <3>2
  <2>2. /\ ~side[p].ended /\ ~side[p].peerClosed
        /\ \A i \in 1 .. Len(net[p]) : net[p][i] # Closed
    BY <1>1, <1>3, <1>5 DEF Closure
  <2>3. \A i \in 1 .. Len(b) : b[i] = Closed => i = Len(b)
    <3>1. net[p] \in Seq(Message)
      BY <1>1, DispatcherFacts
    <3>2. \A i \in 1 .. Len(Append(net[p], Closed)) :
             Append(net[p], Closed)[i] = Closed => i = Len(Append(net[p], Closed))
      BY <2>2, <3>1
    <3> QED
      BY <1>2, <2>2, <3>2
  <2>4. /\ \A i \in 1 .. Len(net'[p]) :
             net'[p][i] = Closed => i = Len(net'[p]) /\ side'[s].closed
        /\ side'[p].ended => net'[p] = << >> /\ side'[s].closed
        /\ side'[p].peerClosed => /\ side'[s].closed /\ side'[p].queue = << >>
                                  /\ \A i \in 1 .. Len(net'[p]) : net'[p][i] = Closed
    BY <1>4, <1>7, <1>8, <2>2, <2>3
  <2> QED
    BY <1>1, <1>5, <2>1, <2>4 DEF Closure
<1> QED
  BY <1>9, <1>11, <1>12, <1>13, <1>14

-----------------------------------------------------------------------------
(***************************************************************************)
(* Bytes are written and taken.                                            *)
(***************************************************************************)

LEMMA CallChange ==
  ASSUME Types, NEW t \in Thread, NEW c \in CallType, call' = [call EXCEPT ![t] = c]
  PROVE  /\ call' \in [Thread -> CallType] /\ call'[t] = c
         /\ \A u \in Thread : u # t => call'[u] = call[u]
         /\ \A u \in Thread, r \in Side : u # t => (IsEnding(u, r)' <=> IsEnding(u, r))
         /\ \A r \in Side : IsEnding(t, r)' <=> (c # Idle /\ c.end /\ c.side = r)
<1>1. /\ call' \in [Thread -> CallType] /\ call'[t] = c
      /\ \A u \in Thread : u # t => call'[u] = call[u]
  BY DEF Types
<1> QED
  BY <1>1 DEF IsEnding

\* What a new announcement adds to what is unsent.
LEMMA NewWeights ==
  ASSUME Types, NEW t \in Thread, call[t] = Idle, NEW c \in Announcement,
         call' = [call EXCEPT ![t] = c], NEW S
  PROVE  Unsent(S)' = Unsent(S) + (IF c.side \in S THEN c.n ELSE 0)
<1>1. c # Idle /\ c \in CallType
  BY NotIdle DEF CallType
<1>2. Weight(call[t], S) = 0
  BY DEF Weight
<1>3. Weight(c, S) = IF c.side \in S THEN c.n ELSE 0
  BY <1>1 DEF Weight
<1>4. Weight(c, S) \in Nat
  BY <1>1, WeightType
<1>5. /\ Unsent(S)' = Unsent(S) - Weight(call[t], S) + Weight(c, S) /\ Unsent(S) \in Nat
  BY <1>1, UnsentChange DEF Types
<1> QED
  BY <1>2, <1>3, <1>4, <1>5

\* A thread takes up an announcement.
LEMMA GrantsAnnounced ==
  ASSUME Types, Grants, NEW s \in Side, NEW t \in Thread, call[t] = Idle,
         NEW c \in Announcement, c.side = s, c.number = side[s].number,
         c.end => side[s].grant > 0 /\ ~Ending(s),
         call' = [call EXCEPT ![t] = c], side' \in [Side -> Dispatcher],
         \A r \in Side : /\ side'[r].grant = side[r].grant /\ side'[r].number = side[r].number
                         /\ side'[r].at = side[r].at,
         \/ side'[Consumer].avail = side[Consumer].avail
         \/ side[Consumer].grant = 0
         \/ c.end /\ s = Consumer
  PROVE  Grants'
<1>1. c # Idle /\ c \in CallType
  BY NotIdle DEF CallType
<1>2. /\ call'[t] = c
      /\ \A u \in Thread : u # t => call'[u] = call[u]
      /\ \A u \in Thread, r \in Side : u # t => (IsEnding(u, r)' <=> IsEnding(u, r))
      /\ \A r \in Side : IsEnding(t, r)' <=> (c.end /\ s = r)
  BY <1>1, CallChange
<1>3. \A r \in Side : ~IsEnding(t, r)
  BY DEF IsEnding
<1>4. ASSUME NEW u \in Thread, NEW r \in Side, IsEnding(u, r)'
      PROVE  /\ call'[u].number = side'[r].number /\ side'[r].grant > 0
             /\ \A v \in Thread : IsEnding(v, r)' => v = u
  <2>1. CASE u = t
    <3>1. c.end /\ r = s
      BY <1>2, <1>4, <2>1
    <3>2. \A v \in Thread : ~IsEnding(v, s)
      BY <3>1 DEF Ending, IsEnding
    <3> QED
      BY <1>2, <2>1, <3>1, <3>2
  <2>2. CASE u # t
    <3>1. IsEnding(u, r)
      BY <1>2, <1>4, <2>2
    <3>2. ~(c.end /\ s = r)
      BY <3>1 DEF Ending, IsEnding
    <3> QED
      BY <1>2, <1>3, <2>2, <3>1, <3>2 DEF Grants
  <2> QED
    BY <2>1, <2>2
<1>5. ASSUME side'[Consumer].grant > 0, ~Ending(Consumer)'
      PROVE  side'[Consumer].grant <= side'[Consumer].avail
  <2>1. ~IsEnding(t, Consumer)'
    BY <1>5 DEF Ending, IsEnding
  <2>2. ~(c.end /\ s = Consumer)
    BY <1>2, <2>1, SideFacts
  <2>3. ~Ending(Consumer)
    <3>1. \A u \in Thread : ~IsEnding(u, Consumer)'
      BY <1>5 DEF Ending, IsEnding
    <3>2. \A u \in Thread : ~IsEnding(u, Consumer)
      BY <1>2, <1>3, <3>1, SideFacts
    <3> QED
      BY <3>2 DEF Ending, IsEnding
  <2>4. side[Consumer].grant > 0 /\ side'[Consumer].grant = side[Consumer].grant
    BY <1>5, SideFacts
  <2>5. side'[Consumer].avail = side[Consumer].avail
    BY <2>2, <2>4
  <2> QED
    BY <2>3, <2>4, <2>5 DEF Grants
<1> QED
  BY <1>4, <1>5 DEF Grants

LEMMA StoredKept ==
  ASSUME Types, Books, RingKept, NEW k \in 1 .. Capacity, k <= side[Producer].avail,
         ring' = Stored(k), written' = written + k, consumed' = consumed
  PROVE  ring' \in [0 .. Capacity - 1 -> Nat] /\ RingKept'
<1> DEFINE At(o, i) == o = Slot(side[Producer].offset, i)
<1>1. /\ written \in Nat /\ consumed \in Nat /\ Capacity \in Nat /\ consumed <= written
      /\ DOMAIN ring = 0 .. Capacity - 1 /\ ring \in [0 .. Capacity - 1 -> Nat]
      /\ side[Producer].avail \in Nat
  <2>1. side[Producer].avail \in Nat
    BY HeldIs, SideFacts
  <2> QED
    BY <2>1, CapacityAssumption DEF Types, Books
<1>2. written + k - consumed <= Capacity
  BY <1>1, Free
<1>3. \A i \in Nat : Slot(side[Producer].offset, i) = (written + i) % Capacity
  BY <1>1, SlotIs DEF Books
<1>4. ring' = [o \in 0 .. Capacity - 1 |->
                 IF \E i \in 0 .. k - 1 : At(o, i)
                 THEN written + 1 + CHOOSE i \in 0 .. k - 1 : At(o, i)
                 ELSE ring[o]]
  BY <1>1 DEF Stored
<1>5. ASSUME NEW o \in 0 .. Capacity - 1, \E i \in 0 .. k - 1 : At(o, i)
      PROVE  (CHOOSE i \in 0 .. k - 1 : At(o, i)) \in 0 .. k - 1
             /\ At(o, CHOOSE i \in 0 .. k - 1 : At(o, i))
  BY <1>5
<1> HIDE DEF At
<1>6. ring' \in [0 .. Capacity - 1 -> Nat]
  <2>1. ASSUME NEW o \in 0 .. Capacity - 1 PROVE ring'[o] \in Nat
    <3>1. CASE \E i \in 0 .. k - 1 : At(o, i)
      <4>1. PICK i \in 0 .. k - 1 : i = CHOOSE j \in 0 .. k - 1 : At(o, j)
        BY <1>5, <3>1
      <4>2. ring'[o] = written + 1 + i
        BY <1>4, <3>1, <4>1
      <4>3. i \in Nat
        OBVIOUS
      <4> QED
        BY <1>1, <4>2, <4>3
    <3>2. CASE ~ \E i \in 0 .. k - 1 : At(o, i)
      BY <1>1, <1>4, <3>2
    <3> QED
      BY <3>1, <3>2
  <2> QED
    BY <1>4, <2>1
<1>7. ASSUME NEW p \in consumed .. written + k - 1
      PROVE  ring'[p % Capacity] = p + 1
  <2>0. p \in Nat
    BY <1>1
  <2>1. p \in Nat /\ p % Capacity \in 0 .. Capacity - 1
    BY <2>0, Place
  <2>2. ASSUME NEW i \in 0 .. k - 1, At(p % Capacity, i)
        PROVE  p = written + i
    <3>1. i \in Nat /\ written + i \in Nat
      BY <1>1
    <3>2. p % Capacity = (written + i) % Capacity
      BY <1>3, <2>2, <3>1 DEF At
    <3>3. p - (written + i) < Capacity /\ (written + i) - p < Capacity
      BY <1>1, <1>2, <1>7, <2>1, <2>2
    <3> QED
      BY <2>1, <3>1, <3>2, <3>3, PlacesApart
  <2>3. CASE p < written
    <3>1. ~ \E i \in 0 .. k - 1 : At(p % Capacity, i)
      BY <1>1, <2>1, <2>2, <2>3
    <3>2. ring'[p % Capacity] = ring[p % Capacity]
      BY <1>4, <2>1, <3>1
    <3>3. p \in consumed .. written - 1
      BY <1>1, <1>7, <2>3
    <3> QED
      BY <3>2, <3>3 DEF RingKept
  <2>4. CASE p >= written
    <3>1. PICK j \in Nat : j = p - written
      BY <1>1, <2>1, <2>4
    <3>2. j \in 0 .. k - 1 /\ p = written + j
      BY <1>1, <1>7, <2>1, <3>1
    <3>3. At(p % Capacity, j)
      BY <1>3, <3>2 DEF At
    <3>4. PICK i \in 0 .. k - 1 : /\ i = CHOOSE m \in 0 .. k - 1 : At(p % Capacity, m)
                                  /\ At(p % Capacity, i)
      BY <1>5, <2>1, <3>2, <3>3
    <3>5. p = written + i
      BY <2>2, <3>4
    <3>6. ring'[p % Capacity] = written + 1 + i
      BY <1>4, <2>1, <3>2, <3>3, <3>4
    <3> QED
      BY <1>1, <3>5, <3>6
  <2> QED
    BY <1>1, <2>1, <2>3, <2>4
<1>8. RingKept'
  <2>1. RingKept' <=> \A p \in consumed' .. written' - 1 : ring'[p % Capacity] = p + 1
    BY DEF RingKept
  <2>2. PICK v : v = written + k
    OBVIOUS
  <2>3. consumed' = consumed /\ written' = v
    BY <2>2
  <2>4. RingKept' <=> \A p \in consumed .. v - 1 : ring'[p % Capacity] = p + 1
    BY <2>1, <2>3, Zenon
  <2>5. \A p \in consumed .. v - 1 : ring'[p % Capacity] = p + 1
    <3>1. v - 1 = written + k - 1
      BY <1>1, <2>2
    <3>2. consumed .. v - 1 = consumed .. written + k - 1
      BY <3>1
    <3> QED
      BY <1>7, <3>2
  <2> QED
    BY <2>4, <2>5
<1> QED
  BY <1>6, <1>8

\* Bytes are written, and a thread is to announce them.
LEMMA WriteStep ==
  ASSUME PipeInv, NEW t \in Thread, NEW k \in 1 .. Capacity, NEW end \in BOOLEAN,
         call[t] = Idle, k <= side[Producer].avail,
         end => side[Producer].grant > 0 /\ ~Ending(Producer),
         ring' = Stored(k), written' = written + k,
         side' = [side EXCEPT ![Producer] =
                    [side[Producer] EXCEPT !.avail = side[Producer].avail - k,
                                           !.offset = Slot(side[Producer].offset, k)]],
         Announcing(t, Producer, k, end),
         UNCHANGED <<net, changed, moves, consumed, lost>>
  PROVE  PipeInv'
<1> USE DEF PipeInv
<1>1. PICK d, c : /\ d \in Dispatcher /\ d = side[Producer]
                  /\ c = [side |-> Producer, n |-> k, end |-> end,
                           home |-> d.home, number |-> d.number]
  BY DispatcherFacts, SideFacts
<1>2. PICK e : e = [d EXCEPT !.avail = d.avail - k, !.offset = Slot(d.offset, k)]
  OBVIOUS
<1>3. /\ d.home \in Nat /\ d.number \in Nat /\ d.avail \in 0 .. Capacity
      /\ Capacity \in Nat /\ k \in Nat /\ written \in Nat /\ consumed \in Nat /\ lost \in Nat
  BY <1>1, CapacityAssumption DEF Dispatcher, Types
<1>4. c \in Announcement /\ c.side = Producer /\ c.n = k /\ c.end = end /\ c.number = d.number
  BY <1>1, <1>3, SideFacts DEF Announcement
<1>5. call' = [call EXCEPT ![t] = c] /\ side' = [side EXCEPT ![Producer] = e]
  BY <1>1, <1>2 DEF Announcing
<1>6. Slot(d.offset, k) = (written + k) % Capacity /\ Slot(d.offset, k) \in 0 .. Capacity - 1
  <2>1. d.offset = written % Capacity
    BY <1>1 DEF Books
  <2>2. written + k \in Nat
    BY <1>3
  <2> QED
    BY <1>3, <2>1, <2>2, SlotIs, Place
<1>7. /\ e \in Dispatcher /\ e.closed = d.closed /\ e.offset = (written + k) % Capacity
      /\ e.at = d.at /\ e.avail = d.avail - k /\ e.grant = d.grant /\ e.number = d.number
      /\ e.peerClosed = d.peerClosed /\ e.queue = d.queue /\ e.ended = d.ended
  <2>1. d.avail - k \in 0 .. Capacity
    BY <1>1, <1>3
  <2> QED
    BY <1>1, <1>2, <1>6, <2>1 DEF Dispatcher
<1>8. /\ side' \in [Side -> Dispatcher] /\ side'[Producer] = e
      /\ side'[Consumer] = side[Consumer]
  BY <1>5, <1>7, SetFacts, SideFacts
<1>9. call' \in [Thread -> CallType]
  BY <1>4, <1>5, CallChange DEF CallType
<1>10. ring' \in [0 .. Capacity - 1 -> Nat] /\ RingKept'
  BY StoredKept
<1>11. Types'
  BY <1>3, <1>8, <1>9, <1>10 DEF Types
<1>12. Held(Producer)' = Held(Producer) - k /\ Held(Consumer)' = Held(Consumer)
  <2>1. /\ Held(Producer) = d.avail + Bytes(d.queue) + Bytes(net[Producer])
        /\ Bytes(d.queue) \in Nat /\ Bytes(net[Producer]) \in Nat
    BY <1>1, HeldIs, SideFacts
  <2>2. Held(Producer)' = e.avail + Bytes(e.queue) + Bytes(net[Producer])
    BY <1>8, <1>11, HeldPrime, SideFacts
  <2>3. e.avail = d.avail - k /\ e.queue = d.queue
    BY <1>7
  <2>4. Held(Consumer)' = Held(Consumer)
    BY <1>8, <1>11, HeldIs, HeldPrime, SideFacts
  <2> QED
    BY <1>3, <2>1, <2>2, <2>3, <2>4
<1>13. /\ Unsent({Producer})' = Unsent({Producer}) + k
       /\ Unsent({Consumer})' = Unsent({Consumer})
       /\ Unsent(Side)' = Unsent(Side) + k
  <2>1. \A S : Unsent(S)' = Unsent(S) + (IF c.side \in S THEN c.n ELSE 0)
    BY <1>4, <1>5, NewWeights
  <2>2. Unsent({Consumer})' = Unsent({Consumer}) + 0
    BY <1>4, <2>1, SideFacts
  <2> QED
    BY <1>4, <2>1, <2>2, Numbers, SideFacts
<1>14. Books'
  <2>1. CapacityConserved'
    <3>1. SUFFICES ASSUME \A s \in Side : ~side'[s].closed
                   PROVE  Held(Producer)' + Held(Consumer)' + Unsent(Side)' + lost' = Capacity
      BY <1>11, ConservedPrime
    <3>2. \A s \in Side : ~side[s].closed
      BY <1>1, <1>7, <1>8, <3>1, SideFacts
    <3>3. Held(Producer) + Held(Consumer) + Unsent(Side) + lost = Capacity
      BY <3>2, ConservedIs DEF Books
    <3> QED
      BY <1>3, <1>12, <1>13, <3>3, Numbers
  <2>2. /\ side'[Consumer].offset = consumed' % Capacity
        /\ side'[Producer].offset = written' % Capacity
    BY <1>7, <1>8 DEF Books
  <2>3. /\ consumed' <= written'
        /\ Held(Consumer)' + Unsent({Producer})' <= written' - consumed'
        /\ Held(Producer)' + Unsent({Consumer})' <= Capacity - (written' - consumed')
    BY <1>3, <1>12, <1>13, Numbers DEF Books
  <2>4. ~side'[Consumer].closed =>
           consumed' + Held(Consumer)' + Unsent({Producer})' + lost' >= written'
    BY <1>3, <1>8, <1>12, <1>13, Numbers DEF Books
  <2> QED
    BY <2>1, <2>2, <2>3, <2>4 DEF Books
<1>15. Grants'
  <2>1. \A r \in Side : /\ side'[r].grant = side[r].grant /\ side'[r].number = side[r].number
                        /\ side'[r].at = side[r].at
    BY <1>1, <1>7, <1>8, SideFacts
  <2>2. c.number = side[Producer].number /\ (c.end => side[Producer].grant > 0 /\ ~Ending(Producer))
    BY <1>1, <1>4
  <2> QED
    BY <1>4, <1>5, <1>8, <2>1, <2>2, GrantsAnnounced, SideFacts
<1>16. Closure'
  <2>1. \A r \in Side : /\ side'[r].closed = side[r].closed /\ side'[r].ended = side[r].ended
                        /\ side'[r].peerClosed = side[r].peerClosed
                        /\ side'[r].queue = side[r].queue
    BY <1>1, <1>7, <1>8, SideFacts
  <2> QED
    BY <2>1, SideFacts DEF Closure
<1> QED
  BY <1>10, <1>11, <1>14, <1>15, <1>16

\* Bytes are taken, and a thread is to announce that.
LEMMA TakeStep ==
  ASSUME PipeInv, NEW t \in Thread, NEW k \in 1 .. Capacity, NEW end \in BOOLEAN,
         NEW new \in BOOLEAN,
         call[t] = Idle, k <= side[Consumer].avail,
         end => side[Consumer].grant > 0 /\ ~Ending(Consumer),
         ~end => side[Consumer].grant = 0,
         consumed' = consumed + k,
         side' = [side EXCEPT ![Consumer] =
                    [side[Consumer] EXCEPT !.avail = side[Consumer].avail - k,
                                           !.offset = Slot(side[Consumer].offset, k),
                                           !.newData = new]],
         Announcing(t, Consumer, k, end),
         UNCHANGED <<ring, net, changed, moves, written, lost>>
  PROVE  PipeInv'
<1> USE DEF PipeInv
<1>1. PICK d, c : /\ d \in Dispatcher /\ d = side[Consumer]
                  /\ c = [side |-> Consumer, n |-> k, end |-> end,
                           home |-> d.home, number |-> d.number]
  BY DispatcherFacts, SideFacts
<1>2. PICK e : e = [d EXCEPT !.avail = d.avail - k, !.offset = Slot(d.offset, k),
                             !.newData = new]
  OBVIOUS
<1>3. /\ d.home \in Nat /\ d.number \in Nat /\ d.avail \in 0 .. Capacity
      /\ Capacity \in Nat /\ k \in Nat /\ written \in Nat /\ consumed \in Nat /\ lost \in Nat
  BY <1>1, CapacityAssumption DEF Dispatcher, Types
<1>4. c \in Announcement /\ c.side = Consumer /\ c.n = k /\ c.end = end /\ c.number = d.number
  BY <1>1, <1>3, SideFacts DEF Announcement
<1>5. call' = [call EXCEPT ![t] = c] /\ side' = [side EXCEPT ![Consumer] = e]
  BY <1>1, <1>2 DEF Announcing
<1>6. Slot(d.offset, k) = (consumed + k) % Capacity /\ Slot(d.offset, k) \in 0 .. Capacity - 1
  <2>1. d.offset = consumed % Capacity
    BY <1>1 DEF Books
  <2>2. consumed + k \in Nat
    BY <1>3
  <2> QED
    BY <1>3, <2>1, <2>2, SlotIs, Place
<1>7. /\ e \in Dispatcher /\ e.closed = d.closed /\ e.offset = (consumed + k) % Capacity
      /\ e.at = d.at /\ e.avail = d.avail - k /\ e.grant = d.grant /\ e.number = d.number
      /\ e.peerClosed = d.peerClosed /\ e.queue = d.queue /\ e.ended = d.ended
  <2>1. d.avail - k \in 0 .. Capacity
    BY <1>1, <1>3
  <2> QED
    BY <1>1, <1>2, <1>6, <2>1 DEF Dispatcher
<1>8. /\ side' \in [Side -> Dispatcher] /\ side'[Consumer] = e
      /\ side'[Producer] = side[Producer]
  BY <1>5, <1>7, SetFacts, SideFacts
<1>9. call' \in [Thread -> CallType]
  BY <1>4, <1>5, CallChange DEF CallType
<1>10. RingKept'
  <2>1. SUFFICES ASSUME NEW p \in consumed + k .. written - 1
                 PROVE  ring[p % Capacity] = p + 1
    BY DEF RingKept
  <2>2. p \in consumed .. written - 1
    BY <1>3
  <2> QED
    BY <2>2 DEF RingKept
<1>11. Types'
  BY <1>3, <1>8, <1>9 DEF Types
<1>12. Held(Consumer)' = Held(Consumer) - k /\ Held(Producer)' = Held(Producer)
       /\ k <= Held(Consumer)
  <2>1. /\ Held(Consumer) = d.avail + Bytes(d.queue) + Bytes(net[Consumer])
        /\ Bytes(d.queue) \in Nat /\ Bytes(net[Consumer]) \in Nat
    BY <1>1, HeldIs, SideFacts
  <2>2. Held(Consumer)' = e.avail + Bytes(e.queue) + Bytes(net[Consumer])
    BY <1>8, <1>11, HeldPrime, SideFacts
  <2>3. e.avail = d.avail - k /\ e.queue = d.queue /\ k <= d.avail
    BY <1>1, <1>7
  <2>4. Held(Producer)' = Held(Producer)
    BY <1>8, <1>11, HeldIs, HeldPrime, SideFacts
  <2> QED
    BY <1>3, <2>1, <2>2, <2>3, <2>4
<1>13. /\ Unsent({Consumer})' = Unsent({Consumer}) + k
       /\ Unsent({Producer})' = Unsent({Producer})
       /\ Unsent(Side)' = Unsent(Side) + k
  <2>1. \A S : Unsent(S)' = Unsent(S) + (IF c.side \in S THEN c.n ELSE 0)
    BY <1>4, <1>5, NewWeights
  <2>2. Unsent({Producer})' = Unsent({Producer}) + 0
    BY <1>4, <2>1, SideFacts
  <2> QED
    BY <1>4, <2>1, <2>2, Numbers, SideFacts
<1>14. Books'
  <2>1. CapacityConserved'
    <3>1. SUFFICES ASSUME \A s \in Side : ~side'[s].closed
                   PROVE  Held(Producer)' + Held(Consumer)' + Unsent(Side)' + lost' = Capacity
      BY <1>11, ConservedPrime
    <3>2. \A s \in Side : ~side[s].closed
      BY <1>1, <1>7, <1>8, <3>1, SideFacts
    <3>3. Held(Producer) + Held(Consumer) + Unsent(Side) + lost = Capacity
      BY <3>2, ConservedIs DEF Books
    <3> QED
      BY <1>3, <1>12, <1>13, <3>3, Numbers
  <2>2. /\ side'[Consumer].offset = consumed' % Capacity
        /\ side'[Producer].offset = written' % Capacity
    BY <1>7, <1>8 DEF Books
  <2>3. /\ consumed' <= written'
        /\ Held(Consumer)' + Unsent({Producer})' <= written' - consumed'
        /\ Held(Producer)' + Unsent({Consumer})' <= Capacity - (written' - consumed')
    BY <1>3, <1>12, <1>13, Numbers DEF Books
  <2>4. ~side'[Consumer].closed =>
           consumed' + Held(Consumer)' + Unsent({Producer})' + lost' >= written'
    <3>1. side'[Consumer].closed = side[Consumer].closed
      BY <1>1, <1>7, <1>8
    <3> QED
      BY <1>3, <1>12, <1>13, <3>1, Numbers DEF Books
  <2> QED
    BY <2>1, <2>2, <2>3, <2>4 DEF Books
<1>15. Grants'
  <2>1. \A r \in Side : /\ side'[r].grant = side[r].grant /\ side'[r].number = side[r].number
                        /\ side'[r].at = side[r].at
    BY <1>1, <1>7, <1>8, SideFacts
  <2>2. /\ c.number = side[Consumer].number
        /\ c.end => side[Consumer].grant > 0 /\ ~Ending(Consumer)
        /\ c.end \/ side[Consumer].grant = 0
    BY <1>1, <1>4
  <2> QED
    BY <1>4, <1>5, <1>8, <2>1, <2>2, GrantsAnnounced, SideFacts
<1>16. Closure'
  <2>1. \A r \in Side : /\ side'[r].closed = side[r].closed /\ side'[r].ended = side[r].ended
                        /\ side'[r].peerClosed = side[r].peerClosed
                        /\ side'[r].queue = side[r].queue
    BY <1>1, <1>7, <1>8, SideFacts
  <2> QED
    BY <2>1, SideFacts DEF Closure
<1> QED
  BY <1>10, <1>11, <1>14, <1>15, <1>16

LEMMA WriteInv ==
  ASSUME PipeInv, NEW t \in Thread, NEW n \in Nat, WriteData(t, n) \/ EndWriteData(t, n), n > 0
  PROVE  PipeInv'
<1>1. /\ side[Producer].avail \in Nat /\ side[Producer].avail <= Capacity
      /\ Capacity \in Nat
  BY CapacityAssumption, DispatcherFacts, SideFacts DEF PipeInv
<1>2. CASE WriteData(t, n)
  <2>1. PICK k : k = WriteSize(n)
    OBVIOUS
  <2>2. k \in Int /\ k <= side[Producer].avail
    BY <1>1, <2>1, LeastFacts DEF WriteSize
  <2>3. /\ call[t] = Idle /\ k > 0 /\ ring' = Stored(k) /\ written' = written + k
        /\ side' = [side EXCEPT ![Producer] =
                    [side[Producer] EXCEPT !.avail = side[Producer].avail - k,
                                           !.offset = Slot(side[Producer].offset, k)]]
        /\ Announcing(t, Producer, k, FALSE)
        /\ UNCHANGED <<net, changed, moves, consumed, lost>>
    BY <1>2, <2>1 DEF WriteData, Set
  <2>4. k \in 1 .. Capacity
    BY <1>1, <2>2, <2>3
  <2> QED
    BY <2>2, <2>3, <2>4, WriteStep
<1>3. CASE EndWriteData(t, n)
  <2>1. /\ call[t] = Idle /\ ring' = Stored(n) /\ written' = written + n
        /\ n <= side[Producer].avail
        /\ side[Producer].grant > 0 /\ ~Ending(Producer)
        /\ side' = [side EXCEPT ![Producer] =
                    [side[Producer] EXCEPT !.avail = side[Producer].avail - n,
                                           !.offset = Slot(side[Producer].offset, n)]]
        /\ Announcing(t, Producer, n, TRUE)
        /\ UNCHANGED <<net, changed, moves, consumed, lost>>
    BY <1>3 DEF EndWriteData, Set
  <2>2. n \in 1 .. Capacity
    BY <1>1, <2>1
  <2> QED
    BY <2>1, <2>2, WriteStep
<1> QED
  BY <1>2, <1>3

LEMMA ReadInv ==
  ASSUME PipeInv, NEW t \in Thread, NEW n \in Nat, ReadData(t, n) \/ EndReadData(t, n), n > 0
  PROVE  PipeInv'
<1>1. /\ side[Consumer].avail \in Nat /\ side[Consumer].avail <= Capacity
      /\ Capacity \in Nat /\ side[Consumer].grant \in Nat /\ side[Consumer].newData \in BOOLEAN
      /\ side[Consumer] \in Dispatcher
  <2>1. side[Consumer] \in Dispatcher
    BY DispatcherFacts, SideFacts DEF PipeInv
  <2> QED
    BY <2>1, CapacityAssumption DEF Dispatcher
<1>2. CASE ReadData(t, n)
  <2>1. PICK k : k = Least(n, side[Consumer].avail)
    OBVIOUS
  <2>2. k \in Int /\ k <= side[Consumer].avail
    BY <1>1, <2>1, LeastFacts
  <2>3. /\ call[t] = Idle /\ k > 0 /\ consumed' = consumed + k
        /\ side[Consumer].grant = 0
        /\ side' = [side EXCEPT ![Consumer] =
                    [side[Consumer] EXCEPT !.avail = side[Consumer].avail - k,
                                           !.offset = Slot(side[Consumer].offset, k),
                                           !.newData = FALSE]]
        /\ Announcing(t, Consumer, k, FALSE)
        /\ UNCHANGED <<ring, net, changed, moves, written, lost>>
    BY <1>2, <2>1 DEF ReadData, Set
  <2>4. k \in 1 .. Capacity
    BY <1>1, <2>2, <2>3
  <2> QED
    BY <2>2, <2>3, <2>4, TakeStep
<1>3. CASE EndReadData(t, n)
  <2>1. /\ call[t] = Idle /\ consumed' = consumed + n
        /\ n <= side[Consumer].grant
        /\ side[Consumer].grant > 0 /\ ~Ending(Consumer)
        /\ side' = [side EXCEPT ![Consumer] =
                    [side[Consumer] EXCEPT !.avail = side[Consumer].avail - n,
                                           !.offset = Slot(side[Consumer].offset, n)]]
        /\ Announcing(t, Consumer, n, TRUE)
        /\ UNCHANGED <<ring, net, changed, moves, written, lost>>
    BY <1>3 DEF EndReadData, Set
  <2>2. n <= side[Consumer].avail /\ n \in 1 .. Capacity
    BY <1>1, <2>1 DEF PipeInv, Grants
  <2>3. ASSUME NEW d \in Dispatcher, NEW a, NEW o
        PROVE  [d EXCEPT !.avail = a, !.offset = o] =
               [d EXCEPT !.avail = a, !.offset = o, !.newData = d.newData]
    BY DEF Dispatcher
  <2>4. side' = [side EXCEPT ![Consumer] =
                    [side[Consumer] EXCEPT !.avail = side[Consumer].avail - n,
                                           !.offset = Slot(side[Consumer].offset, n),
                                           !.newData = side[Consumer].newData]]
    BY <1>1, <2>1, <2>3
  <2> QED
    BY <1>1, <2>1, <2>2, <2>4, TakeStep
<1> QED
  BY <1>2, <1>3

\* The call of thread t is over: its announcement is no longer unsent.
LEMMA OldWeights ==
  ASSUME Types, NEW t \in Thread, call[t] \in Announcement,
         call' = [call EXCEPT ![t] = Idle], NEW S
  PROVE  /\ Unsent(S)' = Unsent(S) - (IF call[t].side \in S THEN call[t].n ELSE 0)
         /\ Unsent(S)' \in Nat
<1>1. Idle \in CallType /\ call \in [Thread -> CallType]
  BY DEF CallType, Types
<1>2. /\ Unsent(S)' = Unsent(S) - Weight(call[t], S) + Weight(Idle, S)
      /\ Unsent(S)' \in Nat /\ Unsent(S) \in Nat
  BY <1>1, UnsentChange
<1>3. Weight(call[t], S) = IF call[t].side \in S THEN call[t].n ELSE 0
  BY NotIdle DEF Weight
<1>4. Weight(Idle, S) = 0
  BY DEF Weight
<1>5. Weight(call[t], S) \in Nat
  BY <1>1, WeightType DEF CallType
<1> QED
  BY <1>2, <1>3, <1>4, <1>5

\* What a step of Announce does, with a name for each of its parts: c the
\* announcement, e the dispatcher afterwards, x the bytes that reach the other
\* side, y those that are lost.
Announces(t, c, e, taken, x, y) ==
  /\ c = call[t] /\ c \in Announcement /\ taken \in BOOLEAN /\ x \in Nat /\ y \in Nat
  /\ taken => ~side[c.side].closed
  /\ call' = [call EXCEPT ![t] = Idle]
  /\ \/ /\ taken /\ ~side[Peer(c.side)].closed /\ x = c.n
        /\ net' = [net EXCEPT ![Peer(c.side)] = Append(net[Peer(c.side)], c.n)]
     \/ /\ ~taken \/ side[Peer(c.side)].closed
        /\ x = 0 /\ net' = net
  /\ y = (IF taken THEN 0 ELSE c.n)
  /\ lost' = lost + y
  /\ side' = [side EXCEPT ![c.side] = e]
  /\ e \in Dispatcher /\ e.at = side[c.side].at /\ e.closed = side[c.side].closed
  /\ e.offset = side[c.side].offset /\ e.avail = side[c.side].avail
  /\ e.peerClosed = side[c.side].peerClosed /\ e.queue = side[c.side].queue
  /\ e.ended = side[c.side].ended /\ e.number = side[c.side].number
  /\ e.overlooked = side[c.side].overlooked
  /\ \/ c.end /\ e.grant = 0
     \/ ~c.end /\ e.grant = side[c.side].grant
  /\ UNCHANGED <<ring, changed, moves, written, consumed>>

LEMMA AnnounceParts ==
  ASSUME PipeInv, NEW t \in Thread, Announce(t)
  PROVE  \E c, e, taken, x, y : Announces(t, c, e, taken, x, y)
<1>1. PICK c : c = call[t]
  OBVIOUS
<1>2. c \in Announcement /\ c.side \in Side /\ c.n \in Nat /\ c.end \in BOOLEAN /\ c # Idle
  BY <1>1 DEF Announce, PipeInv, Types, CallType, Announcement
<1>3. PICK s \in Side, d \in Dispatcher : s = c.side /\ d = side[s]
  BY <1>2, DispatcherFacts DEF PipeInv
<1>4. PICK taken \in BOOLEAN : taken <=> (~d.closed /\ c.home = d.home)
  OBVIOUS
<1>5. /\ call' = [call EXCEPT ![t] = Idle]
      /\ net' = IF taken /\ ~side[Peer(s)].closed
                THEN [net EXCEPT ![Peer(s)] = Append(net[Peer(s)], c.n)] ELSE net
      /\ lost' = IF taken THEN lost ELSE lost + c.n
      /\ IF c.number = d.number
         THEN side' = [side EXCEPT ![s] = IF c.end THEN [d EXCEPT !.grant = 0] ELSE d]
         ELSE side' = side
      /\ UNCHANGED <<ring, changed, moves, written, consumed>>
  BY <1>1, <1>3, <1>4 DEF Announce, Set
<1>6. c.end => c.number = d.number
  <2>1. c.end => IsEnding(t, s)
    BY <1>1, <1>2, <1>3 DEF IsEnding
  <2> QED
    BY <1>1, <1>3, <2>1 DEF PipeInv, Grants
<1>7. PICK e : e = IF c.end THEN [d EXCEPT !.grant = 0] ELSE d
  OBVIOUS
<1>8. /\ e \in Dispatcher /\ e.at = d.at /\ e.closed = d.closed
      /\ e.offset = d.offset /\ e.avail = d.avail
      /\ e.peerClosed = d.peerClosed /\ e.queue = d.queue
      /\ e.ended = d.ended /\ e.number = d.number /\ e.overlooked = d.overlooked
      /\ \/ c.end /\ e.grant = 0
         \/ ~c.end /\ e.grant = d.grant
  <2>1. 0 \in 0 .. Capacity
    BY CapacityAssumption
  <2> QED
    BY <1>2, <1>7, <2>1 DEF Dispatcher
<1>9. side' = [side EXCEPT ![s] = e]
  <2>1. CASE c.number = d.number
    BY <1>5, <1>7, <2>1
  <2>2. CASE c.number # d.number
    <3>1. e = d /\ side' = side
      BY <1>5, <1>6, <1>7, <2>2
    <3> QED
      BY <1>3, <3>1 DEF PipeInv, Types
  <2> QED
    BY <2>1, <2>2
<1>10. PICK x \in Nat : x = IF taken /\ ~side[Peer(s)].closed THEN c.n ELSE 0
  BY <1>2
<1>11. PICK y \in Nat : y = IF taken THEN 0 ELSE c.n
  BY <1>2
<1>12. lost' = lost + y
  <2>1. lost \in Nat
    BY DEF PipeInv, Types
  <2> QED
    BY <1>5, <1>11, <2>1
<1>13. Announces(t, c, e, taken, x, y)
  <2>1. taken => ~side[c.side].closed
    BY <1>3, <1>4
  <2>2. \/ /\ taken /\ ~side[Peer(c.side)].closed /\ x = c.n
           /\ net' = [net EXCEPT ![Peer(c.side)] = Append(net[Peer(c.side)], c.n)]
        \/ /\ ~taken \/ side[Peer(c.side)].closed
           /\ x = 0 /\ net' = net
    BY <1>3, <1>5, <1>10
  <2> QED
    BY <1>1, <1>2, <1>3, <1>5, <1>8, <1>9, <1>10, <1>11, <1>12, <2>1, <2>2 DEF Announces
<1> QED
  BY <1>13

LEMMA AnnounceInv ==
  ASSUME PipeInv, NEW t \in Thread, Announce(t)
  PROVE  PipeInv'
<1> USE DEF PipeInv
<1>1. PICK c, e, taken, x, y : Announces(t, c, e, taken, x, y)
  BY AnnounceParts
<1>2. PICK s \in Side, p \in Side : s = c.side /\ p = Peer(s)
  BY <1>1, SideFacts DEF Announces, Announcement
<1>3. /\ c = call[t] /\ c \in Announcement /\ c # Idle /\ c.n \in 1 .. Capacity
      /\ taken \in BOOLEAN /\ x \in Nat /\ y \in Nat /\ c.end \in BOOLEAN
      /\ c.n \in Message /\ c.n # Closed /\ c.n \in Nat
  <2>1. c = call[t] /\ c \in Announcement /\ taken \in BOOLEAN /\ x \in Nat /\ y \in Nat
    BY <1>1 DEF Announces
  <2>2. c.n \in 1 .. Capacity /\ c.end \in BOOLEAN
    BY <2>1 DEF Announcement
  <2> QED
    BY <2>1, <2>2, NotIdle DEF Message, Closed
<1>4. /\ call' = [call EXCEPT ![t] = Idle] /\ side' = [side EXCEPT ![s] = e]
      /\ lost' = lost + y /\ y = (IF taken THEN 0 ELSE c.n)
      /\ taken => ~side[s].closed
      /\ UNCHANGED <<ring, changed, moves, written, consumed>>
  BY <1>1, <1>2 DEF Announces
<1>5. /\ e \in Dispatcher /\ e.at = side[s].at /\ e.closed = side[s].closed
      /\ e.offset = side[s].offset /\ e.avail = side[s].avail
      /\ e.peerClosed = side[s].peerClosed /\ e.queue = side[s].queue
      /\ e.ended = side[s].ended /\ e.number = side[s].number
      /\ \/ c.end /\ e.grant = 0
         \/ ~c.end /\ e.grant = side[s].grant
  BY <1>1, <1>2 DEF Announces
<1>6. \/ /\ taken /\ ~side[p].closed /\ x = c.n
         /\ net' = [net EXCEPT ![p] = Append(net[p], c.n)]
      \/ (~taken \/ side[p].closed) /\ x = 0 /\ net' = net
  BY <1>1, <1>2 DEF Announces
<1>7. s # p /\ Side = {s, p} /\ Peer(p) = s /\ Peer(s) = p
  BY <1>2, SideFacts
<1>8. side' \in [Side -> Dispatcher] /\ side'[s] = e /\ side'[p] = side[p]
  BY <1>4, <1>5, <1>7, SetFacts
<1>9. /\ net' \in [Side -> Seq(Message)] /\ net'[s] = net[s]
      /\ Bytes(net'[p]) = Bytes(net[p]) + x
      /\ net'[p] = net[p] \/ (net'[p] = Append(net[p], c.n) /\ ~side[s].closed)
  <2>1. net \in [Side -> Seq(Message)] /\ net[p] \in Seq(Message) /\ Bytes(net[p]) \in Nat
    BY HeldIs DEF Types
  <2>2. CASE net' = net /\ x = 0
    BY <2>1, <2>2
  <2>3. CASE taken /\ x = c.n /\ net' = [net EXCEPT ![p] = Append(net[p], c.n)]
    <3>1. Append(net[p], c.n) \in Seq(Message) /\ Bytes(Append(net[p], c.n)) = Bytes(net[p]) + c.n
      BY <1>3, <2>1, BytesAppend
    <3>2. net' \in [Side -> Seq(Message)] /\ net'[s] = net[s] /\ net'[p] = Append(net[p], c.n)
      BY <1>7, <2>1, <2>3, <3>1
    <3> QED
      BY <1>4, <2>3, <3>1, <3>2
  <2> QED
    BY <1>6, <2>2, <2>3
<1>10. /\ call' \in [Thread -> CallType] /\ call'[t] = Idle
       /\ \A u \in Thread, r \in Side : u # t => (IsEnding(u, r)' <=> IsEnding(u, r))
       /\ \A r \in Side : ~IsEnding(t, r)'
  <2>1. Idle \in CallType
    BY DEF CallType
  <2> QED
    BY <1>4, <2>1, CallChange
<1>11. lost \in Nat /\ lost' \in Nat
  BY <1>3, <1>4 DEF Types
<1>12. ring' \in [0 .. Capacity - 1 -> Nat] /\ RingKept'
  BY <1>4, RingStays
<1>13. Types'
  <2>1. changed' \subseteq Side /\ moves' \in Nat /\ written' \in Nat /\ consumed' \in Nat
    BY <1>4 DEF Types
  <2> QED
    BY <1>8, <1>9, <1>10, <1>11, <1>12, <2>1 DEF Types
<1>14. Held(s)' = Held(s) /\ Held(p)' = Held(p) + x
  <2>1. /\ Held(s) = side[s].avail + Bytes(side[s].queue) + Bytes(net[s])
        /\ Held(p) = side[p].avail + Bytes(side[p].queue) + Bytes(net[p])
        /\ Bytes(side[p].queue) \in Nat /\ Bytes(net[p]) \in Nat /\ side[p].avail \in Nat
    BY HeldIs
  <2>2. /\ Held(s)' = e.avail + Bytes(e.queue) + Bytes(net[s])
        /\ Held(p)' = side[p].avail + Bytes(side[p].queue) + Bytes(net'[p])
    BY <1>8, <1>9, <1>13, HeldPrime
  <2>3. e.avail = side[s].avail /\ e.queue = side[s].queue
    BY <1>5
  <2> QED
    BY <1>3, <1>9, <2>1, <2>2, <2>3
<1>15. /\ Unsent({s})' = Unsent({s}) - c.n /\ Unsent({s})' \in Nat
       /\ Unsent({p})' = Unsent({p})
       /\ Unsent(Side)' = Unsent(Side) - c.n /\ Unsent(Side)' \in Nat
  <2>1. \A S : /\ Unsent(S)' = Unsent(S) - (IF c.side \in S THEN c.n ELSE 0)
               /\ Unsent(S)' \in Nat
    BY <1>3, <1>4, OldWeights
  <2>2. Unsent({p})' = Unsent({p}) - 0 /\ Unsent({p}) \in Nat
    <3>1. c.side \notin {p}
      BY <1>2, <1>7
    <3>2. Unsent({p}) \in Nat
      BY UnsentType DEF Types
    <3> QED
      BY <2>1, <3>1, <3>2
  <2> QED
    BY <1>2, <2>1, <2>2
<1>16. x = c.n \/ (x = 0 /\ (y = c.n \/ side[p].closed))
  BY <1>4, <1>6
<1>17. x + y <= c.n /\ x \in Nat /\ y \in Nat /\ c.n \in Nat /\ (~side[p].closed => x + y = c.n)
  BY <1>3, <1>4, <1>6
<1>18. Books'
  <2>1. CapacityConserved'
    <3>1. SUFFICES ASSUME \A r \in Side : ~side'[r].closed
                   PROVE  Held(Producer)' + Held(Consumer)' + Unsent(Side)' + lost' = Capacity
      BY <1>13, ConservedPrime
    <3>2. \A r \in Side : ~side[r].closed
      BY <1>5, <1>7, <1>8, <3>1
    <3>3. Held(Producer) + Held(Consumer) + Unsent(Side) + lost = Capacity
      BY <3>2, ConservedIs DEF Books
    <3>4. x + y = c.n
      BY <1>17, <3>2
    <3>5. Held(Producer)' + Held(Consumer)' = Held(Producer) + Held(Consumer) + x
      <4>1. Held(Producer) \in Nat /\ Held(Consumer) \in Nat
        BY Numbers
      <4>2. (s = Producer /\ p = Consumer) \/ (s = Consumer /\ p = Producer)
        BY <1>7, SideFacts
      <4> QED
        BY <1>14, <1>17, <4>1, <4>2
    <3>6. Held(Producer)' \in Nat /\ Held(Consumer)' \in Nat
      BY <1>13, HeldPrime, SideFacts
    <3> QED
      BY <1>4, <1>11, <1>15, <1>17, <3>3, <3>4, <3>5, <3>6, Numbers
  <2>2. /\ side'[Consumer].offset = consumed' % Capacity
        /\ side'[Producer].offset = written' % Capacity
    <3>1. \A r \in Side : side'[r].offset = side[r].offset
      BY <1>5, <1>7, <1>8
    <3> QED
      BY <1>4, <3>1, SideFacts DEF Books
  <2>3. CASE s = Producer /\ p = Consumer
    <3>1. /\ consumed' <= written'
          /\ Held(Consumer)' + Unsent({Producer})' <= written' - consumed'
          /\ Held(Producer)' + Unsent({Consumer})' <= Capacity - (written' - consumed')
      BY <1>4, <1>14, <1>15, <1>17, <2>3, Numbers DEF Books
    <3>2. ASSUME ~side'[Consumer].closed
          PROVE  consumed' + Held(Consumer)' + Unsent({Producer})' + lost' >= written'
      <4>1. ~side[Consumer].closed /\ x + y = c.n
        BY <1>8, <1>17, <2>3, <3>2
      <4>2. consumed + Held(Consumer) + Unsent({Producer}) + lost >= written
        BY <4>1 DEF Books
      <4> QED
        BY <1>4, <1>14, <1>15, <1>17, <2>3, <4>1, <4>2, Numbers
    <3> QED
      BY <2>1, <2>2, <3>1, <3>2 DEF Books
  <2>4. CASE s = Consumer /\ p = Producer
    <3>1. /\ consumed' <= written'
          /\ Held(Consumer)' + Unsent({Producer})' <= written' - consumed'
          /\ Held(Producer)' + Unsent({Consumer})' <= Capacity - (written' - consumed')
      BY <1>4, <1>14, <1>15, <1>17, <2>4, Numbers DEF Books
    <3>2. ASSUME ~side'[Consumer].closed
          PROVE  consumed' + Held(Consumer)' + Unsent({Producer})' + lost' >= written'
      <4>1. ~side[Consumer].closed
        BY <1>5, <1>8, <2>4, <3>2
      <4>2. consumed + Held(Consumer) + Unsent({Producer}) + lost >= written
        BY <4>1 DEF Books
      <4> QED
        BY <1>4, <1>14, <1>15, <1>17, <2>4, <4>2, Numbers
    <3> QED
      BY <2>1, <2>2, <3>1, <3>2 DEF Books
  <2> QED
    BY <1>7, <2>3, <2>4, SideFacts
<1>19. Grants'
  <2>1. c.end => IsEnding(t, s)
    BY <1>2, <1>3 DEF IsEnding
  <2>2. \A u \in Thread, r \in Side : IsEnding(u, r)' => u # t /\ IsEnding(u, r)
    BY <1>10
  <2>3. \A r \in Side : side'[r].at # "here" => side'[r].grant = 0
    <3>1. side'[p].at # "here" => side'[p].grant = 0
      BY <1>8 DEF Grants
    <3>2. side'[s].at # "here" => side'[s].grant = 0
      BY <1>5, <1>8 DEF Grants
    <3> QED
      BY <1>7, <3>1, <3>2
  <2>4. ASSUME NEW u \in Thread, NEW r \in Side, IsEnding(u, r)'
        PROVE  /\ call'[u].number = side'[r].number /\ side'[r].grant > 0
               /\ \A v \in Thread : IsEnding(v, r)' => v = u
    <3>1. u # t /\ IsEnding(u, r) /\ call'[u] = call[u]
      BY <1>4, <2>2, <2>4 DEF Types
    <3>2. /\ call[u].number = side[r].number /\ side[r].grant > 0
          /\ \A v \in Thread : IsEnding(v, r) => v = u
      BY <3>1 DEF Grants
    <3>3. side'[r].number = side[r].number
      BY <1>5, <1>7, <1>8
    <3>4. r = s => ~c.end
      BY <2>1, <3>1, <3>2
    <3>5. side'[r].grant = side[r].grant
      BY <1>5, <1>7, <1>8, <3>4
    <3> QED
      BY <2>2, <3>1, <3>2, <3>3, <3>5
  <2>5. ASSUME side'[Consumer].grant > 0, ~Ending(Consumer)'
        PROVE  side'[Consumer].grant <= side'[Consumer].avail
    <3>1. Consumer = s => ~c.end
      BY <1>5, <1>8, <2>5
    <3>2. side'[Consumer].grant = side[Consumer].grant
      BY <1>5, <1>7, <1>8, <3>1, SideFacts
    <3>3. side'[Consumer].avail = side[Consumer].avail
      BY <1>5, <1>7, <1>8, SideFacts
    <3>4. ASSUME NEW u \in Thread PROVE ~IsEnding(u, Consumer)
      <4>1. ~IsEnding(u, Consumer)'
        BY <2>5 DEF Ending, IsEnding
      <4>2. CASE u = t
        BY <1>2, <1>3, <3>1, <4>2 DEF IsEnding
      <4>3. CASE u # t
        BY <1>10, <4>1, <4>3, SideFacts
      <4> QED
        BY <4>2, <4>3
    <3>5. ~Ending(Consumer)
      BY <3>4 DEF Ending, IsEnding
    <3> QED
      BY <2>5, <3>2, <3>3, <3>5 DEF Grants
  <2> QED
    BY <2>3, <2>4, <2>5 DEF Grants
<1>20. Closure'
  <2>1. \A r \in Side : /\ side'[r].closed = side[r].closed /\ side'[r].ended = side[r].ended
                        /\ side'[r].peerClosed = side[r].peerClosed
                        /\ side'[r].queue = side[r].queue
    BY <1>5, <1>7, <1>8
  <2>2. CASE net'[p] = net[p]
    <3>1. \A r \in Side : net'[r] = net[r]
      BY <1>7, <1>9, <2>2
    <3> QED
      BY <2>1, <3>1, SideFacts DEF Closure
  <2>3. CASE net'[p] = Append(net[p], c.n) /\ ~side[s].closed
    <3>1. /\ ~side[p].ended /\ ~side[p].peerClosed
          /\ \A i \in 1 .. Len(net[p]) : net[p][i] # Closed
      BY <1>7, <2>3 DEF Closure
    <3>2. \A i \in 1 .. Len(net'[p]) : net'[p][i] # Closed
      <4>1. net[p] \in Seq(Message)
        BY DispatcherFacts
      <4> QED
        BY <1>3, <2>3, <3>1, <4>1
    <3>3. /\ \A i \in 1 .. Len(net'[p]) :
               net'[p][i] = Closed => i = Len(net'[p]) /\ side'[Peer(p)].closed
          /\ side'[p].ended => net'[p] = << >> /\ side'[Peer(p)].closed
          /\ side'[p].peerClosed => /\ side'[Peer(p)].closed /\ side'[p].queue = << >>
                                    /\ \A i \in 1 .. Len(net'[p]) : net'[p][i] = Closed
      BY <2>1, <3>1, <3>2
    <3>4. /\ \A i \in 1 .. Len(net'[s]) :
               net'[s][i] = Closed => i = Len(net'[s]) /\ side'[Peer(s)].closed
          /\ side'[s].ended => net'[s] = << >> /\ side'[Peer(s)].closed
          /\ side'[s].peerClosed => /\ side'[Peer(s)].closed /\ side'[s].queue = << >>
                                    /\ \A i \in 1 .. Len(net'[s]) : net'[s][i] = Closed
      BY <1>7, <1>9, <2>1 DEF Closure
    <3> QED
      BY <1>7, <3>3, <3>4 DEF Closure
  <2> QED
    BY <1>9, <2>2, <2>3
<1> QED
  BY <1>12, <1>13, <1>18, <1>19, <1>20

-----------------------------------------------------------------------------
(***************************************************************************)
(* The specification keeps the invariant.                                  *)
(***************************************************************************)

LEMMA NothingUnsent ==
  ASSUME call = [t \in Thread |-> Idle], NEW S
  PROVE  Unsent(S) = 0
<1> DEFINE w == Weights(S)
           Bad == {n \in Nat : \E T \in SUBSET Thread :
                     /\ IsFiniteSet(T) /\ Cardinality(T) = n /\ SumFunctionOnSet(w, T) # 0}
<1>1. \A t \in Thread : w[t] = 0
  BY DEF Weights, Weight
<1> HIDE DEF w
<1>2. Bad = {}
  <2>1. SUFFICES ASSUME Bad # {} PROVE FALSE
    OBVIOUS
  <2>2. PICK n \in Bad : \A m \in Bad : n <= m
    <3>1. Bad \in SUBSET Nat
      OBVIOUS
    <3> HIDE DEF Bad
    <3> QED
      BY <2>1, <3>1, LeastNumber
  <2>3. PICK T \in SUBSET Thread :
          n \in Nat /\ IsFiniteSet(T) /\ Cardinality(T) = n /\ SumFunctionOnSet(w, T) # 0
    BY <2>2
  <2>4. \A x \in T : w[x] \in Int
    BY <1>1
  <2>5. /\ SumFunctionOnSet(w, {}) = 0
        /\ \A x \in T : SumFunctionOnSet(w, T) = w[x] + SumFunctionOnSet(w, T \ {x})
    BY <2>3, <2>4, SumLaws
  <2>6. PICK x \in T : TRUE
    BY <2>3, <2>5
  <2>7. IsFiniteSet(T \ {x}) /\ Cardinality(T \ {x}) = n - 1
    BY <2>3, <2>6, FS_RemoveElement
  <2>8. n - 1 \in Nat
    BY <2>7, FS_CardinalityType
  <2>9. n - 1 \notin Bad
    BY <2>2, <2>3, <2>8
  <2>10. T \ {x} \in SUBSET Thread
    OBVIOUS
  <2>11. SumFunctionOnSet(w, T \ {x}) = 0
    BY <2>7, <2>8, <2>9, <2>10
  <2> QED
    BY <1>1, <2>3, <2>5, <2>6, <2>11
<1>3. Cardinality(Thread) \in Nat
  BY ThreadAssumption, FS_CardinalityType
<1>4. SumFunctionOnSet(w, Thread) = 0
  BY <1>2, <1>3, ThreadAssumption
<1> QED
  BY <1>4, UnsentIs DEF w

LEMMA InitInv == Init => PipeInv
<1> SUFFICES ASSUME Init PROVE PipeInv
  OBVIOUS
<1>1. Capacity \in Nat /\ Capacity > 0
  BY CapacityAssumption
<1>2. ASSUME NEW a \in 0 .. Capacity
      PROVE  /\ NewSide(a) \in Dispatcher /\ NewSide(a).avail = a /\ NewSide(a).offset = 0
             /\ NewSide(a).grant = 0 /\ NewSide(a).at = "here" /\ ~NewSide(a).closed
             /\ ~NewSide(a).ended /\ ~NewSide(a).peerClosed /\ NewSide(a).queue = << >>
  <2>1. 0 \in 0 .. Capacity - 1 /\ 0 \in 0 .. Capacity /\ << >> \in Seq(1 .. Capacity)
    BY <1>1
  <2> QED
    BY <2>1 DEF NewSide, Dispatcher
<1>3. /\ side \in [Side -> Dispatcher]
      /\ side[Producer] = NewSide(Capacity) /\ side[Consumer] = NewSide(0)
  <2>1. /\ side = [s \in Side |-> NewSide(IF s = Producer THEN Capacity ELSE 0)]
        /\ Capacity \in 0 .. Capacity /\ 0 \in 0 .. Capacity
    BY <1>1 DEF Init
  <2> QED
    BY <1>2, <2>1, SideFacts
<1>4. \A s \in Side : /\ side[s].offset = 0 /\ side[s].grant = 0 /\ side[s].at = "here"
                      /\ ~side[s].closed /\ ~side[s].ended /\ ~side[s].peerClosed
                      /\ side[s].queue = << >>
  BY <1>1, <1>2, <1>3, SideFacts
<1>5. side[Producer].avail = Capacity /\ side[Consumer].avail = 0
  BY <1>1, <1>2, <1>3
<1>6. /\ net \in [Side -> Seq(Message)] /\ \A s \in Side : net[s] = << >>
  BY BytesEmpty DEF Init
<1>7. Types
  <2>1. call \in [Thread -> CallType]
    BY DEF Init, CallType
  <2>2. ring \in [0 .. Capacity - 1 -> Nat]
    BY DEF Init
  <2>3. changed \subseteq Side /\ moves \in Nat /\ written \in Nat /\ consumed \in Nat /\ lost \in Nat
    BY DEF Init
  <2> QED
    BY <1>3, <1>6, <2>1, <2>2, <2>3 DEF Types
<1>8. Held(Producer) = Capacity /\ Held(Consumer) = 0
  BY <1>1, <1>4, <1>5, <1>6, <1>7, HeldIs, BytesEmpty, SideFacts
<1>9. Unsent({Producer}) = 0 /\ Unsent({Consumer}) = 0 /\ Unsent(Side) = 0
  BY NothingUnsent DEF Init
<1>10. Books
  <2>1. written = 0 /\ consumed = 0 /\ lost = 0
    BY DEF Init
  <2>2. 0 % Capacity = 0
    BY <1>1, FirstRound
  <2>3. CapacityConserved
    BY <1>1, <1>7, <1>8, <1>9, <2>1, ConservedIs
  <2> QED
    BY <1>1, <1>4, <1>8, <1>9, <2>1, <2>2, <2>3, SideFacts DEF Books
<1>11. RingKept
  BY DEF Init, RingKept
<1>12. Grants
  <2>1. \A t \in Thread, s \in Side : ~IsEnding(t, s)
    BY DEF Init, IsEnding
  <2>2. ~(side[Consumer].grant > 0)
    BY <1>4, SideFacts
  <2> QED
    BY <1>4, <2>1, <2>2 DEF Grants
<1>13. Closure
  <2>1. \A s \in Side : \A i \in 1 .. Len(net[s]) : FALSE
    BY <1>6
  <2> QED
    BY <1>4, <2>1 DEF Closure
<1> QED
  BY <1>7, <1>10, <1>11, <1>12, <1>13 DEF PipeInv

LEMMA NextInv == PipeInv /\ [Next]_vars => PipeInv'
<1> SUFFICES ASSUME PipeInv, [Next]_vars PROVE PipeInv'
  OBVIOUS
<1>1. ASSUME NEW t \in Thread, NEW n \in 1 .. Capacity, WriteData(t, n) \/ ReadData(t, n)
      PROVE  PipeInv'
  <2>1. n \in Nat /\ n > 0
    BY CapacityAssumption
  <2> QED
    BY <1>1, <2>1, WriteInv, ReadInv
<1>2. ASSUME NEW t \in Thread, NEW n \in 1 .. Capacity, EndWriteData(t, n)
      PROVE  PipeInv'
  <2>1. n \in Nat /\ n > 0
    BY CapacityAssumption
  <2> QED
    BY <1>2, <2>1, WriteInv
<1>3. ASSUME NEW t \in Thread, NEW n \in 1 .. Capacity, EndReadData(t, n)
      PROVE  PipeInv'
  <2>1. n \in Nat /\ n > 0
    BY CapacityAssumption
  <2> QED
    BY <1>3, <2>1, ReadInv
<1>4. ASSUME NEW t \in Thread, Announce(t) PROVE PipeInv'
  BY <1>4, AnnounceInv
<1>5. CASE BeginWriteData
  BY <1>5, BeginWriteInv
<1>6. CASE EndWriteDataInvalid
  <2>1. /\ ~Ending(Producer) /\ side[Producer].at = "here"
        /\ side' = [side EXCEPT ![Producer] = [side[Producer] EXCEPT !.grant = 0]]
        /\ UNCHANGED <<ring, net, changed, call, moves, written, consumed, lost>>
    BY <1>6 DEF EndWriteDataInvalid, Usable, Set
  <2> QED
    BY <2>1, EndInvalidInv, SideFacts
<1>7. CASE EndReadDataInvalid
  <2>1. /\ ~Ending(Consumer) /\ side[Consumer].at = "here"
        /\ side' = [side EXCEPT ![Consumer] = [side[Consumer] EXCEPT !.grant = 0]]
        /\ UNCHANGED <<ring, net, changed, call, moves, written, consumed, lost>>
    BY <1>7 DEF EndReadDataInvalid, Usable, Set
  <2> QED
    BY <2>1, EndInvalidInv, SideFacts
<1>8. CASE BeginReadData
  BY <1>8, BeginReadInv
<1>9. CASE QueryData
  BY <1>9, QueryInv
<1>10. ASSUME NEW s \in Side, Deliver(s) \/ Close(s) \/ SendAway(s) PROVE PipeInv'
  BY <1>10, DeliverInv, CloseInv, SendAwayInv
<1>11. ASSUME NEW s \in Side, OnPortStatusChanged(s) \/ Deserialize(s) PROVE PipeInv'
  BY <1>11, UpdateInv
<1>12. ASSUME NEW s \in Side,
              BeginTransit(s) \/ CancelTransit(s) \/ CompleteTransitAndClose(s)
       PROVE  PipeInv'
  BY <1>12, MoveInv, UpdateInv
<1>13. CASE UNCHANGED vars
  <2>1. /\ Types' /\ RingKept' /\ Grants' /\ Closure'
    BY <1>13 DEF PipeInv, Types, RingKept, Grants, Closure, IsEnding, Ending, vars
  <2>2. Books'
    <3>1. UNCHANGED <<side, net, call, written, consumed, lost>>
      BY <1>13 DEF vars
    <3>2. Held(Producer)' = Held(Producer) /\ Held(Consumer)' = Held(Consumer)
      BY <3>1 DEF Held, Announced
    <3>3. \A r \in Side : Held(r)' <= Held(r) /\ Held(r)' = Held(r)
      BY <3>2, Numbers, SideFacts DEF PipeInv
    <3> QED
      BY <2>1, <3>1, <3>3, BooksKept DEF PipeInv
  <2> QED
    BY <2>1, <2>2 DEF PipeInv
<1> QED
  BY <1>1, <1>2, <1>3, <1>4, <1>5, <1>6, <1>7, <1>8, <1>9, <1>10, <1>11, <1>12, <1>13
     DEF Next

\* A data pipe's offsets and counts stay in their ranges, and the invariant
\* above holds of every reachable state.
LEMMA Invariant == Spec => []PipeInv
<1>1. QED
  BY InitInv, NextInv, PTL DEF Spec

-----------------------------------------------------------------------------
(***************************************************************************)
(* What the invariant shows.                                               *)
(***************************************************************************)

LEMMA InOrder == PipeInv => ReadsInOrder
<1> SUFFICES ASSUME PipeInv, NEW i \in 0 .. side[Consumer].avail - 1
             PROVE  ring[Slot(side[Consumer].offset, i)] = consumed + 1 + i
  BY DEF ReadsInOrder
<1>1. Types /\ Books /\ RingKept
  BY DEF PipeInv
<1>2. /\ consumed \in Nat /\ written \in Nat /\ side[Consumer].avail \in Nat
      /\ Held(Consumer) = side[Consumer].avail + Bytes(side[Consumer].queue) + Bytes(net[Consumer])
      /\ Bytes(side[Consumer].queue) \in Nat /\ Bytes(net[Consumer]) \in Nat
      /\ Unsent({Producer}) \in Nat
  BY <1>1, HeldIs, Numbers, SideFacts
<1>3. side[Consumer].avail <= written - consumed
  BY <1>1, <1>2 DEF Books
<1>4. i \in Nat /\ consumed + i \in consumed .. written - 1 /\ i <= side[Consumer].avail - 1
  BY <1>2, <1>3
<1>5. Slot(side[Consumer].offset, i) = (consumed + i) % Capacity
  BY <1>1, <1>2, <1>4, SlotIs DEF Books
<1>6. ring[(consumed + i) % Capacity] = (consumed + i) + 1
  BY <1>1, <1>4 DEF RingKept
<1> QED
  BY <1>2, <1>4, <1>5, <1>6

\* The consumer reads the bytes in the order in which WriteData and
\* EndWriteData stored them, and as they were stored: no write reaches a byte
\* that was not yet read, whatever the capacity, the number of threads whose
\* announcements overtake each other, and the transfers of either handle.
THEOREM BytesInOrder == Spec => []ReadsInOrder
<1>1. QED
  BY Invariant, InOrder, PTL

\* available_capacity_ of the producer, bytes_available_ of the consumer and
\* the announcements under way always add up to the capacity while both ends
\* are open, so that neither HandleWrite nor HandleRead ever finds the other
\* side to claim more than there is.
THEOREM CapacityKept == Spec => []CapacityConserved
<1>1. PipeInv => CapacityConserved
  BY DEF PipeInv, Books
<1>2. QED
  BY Invariant, <1>1, PTL

LEMMA ClosureLast == PipeInv => ClosureAfterData
<1> SUFFICES ASSUME PipeInv, side[Consumer].peerClosed
             PROVE  /\ side[Producer].closed
                    /\ \/ side[Consumer].closed
                       \/ consumed + side[Consumer].avail + Unsent({Producer}) + lost >= written
                    /\ Announced(Consumer) = 0
  BY DEF ClosureAfterData
<1>1. Types /\ Books /\ Closure
  BY DEF PipeInv
<1>2. /\ side[Producer].closed /\ side[Consumer].queue = << >>
      /\ \A i \in 1 .. Len(net[Consumer]) :
           net[Consumer][i] = Closed /\ i = Len(net[Consumer])
  BY <1>1, SideFacts DEF Closure
<1>3. net[Consumer] \in Seq(Message) /\ Closed \in Message /\ << >> \in Seq(Message)
  BY <1>1, DispatcherFacts, SideFacts DEF Message
<1>4. Bytes(net[Consumer]) = 0
  <2>1. Len(net[Consumer]) = 0 \/ Len(net[Consumer]) = 1
    <3>1. PICK l \in Nat : l = Len(net[Consumer])
      BY <1>3
    <3>2. l > 0 => 1 \in 1 .. l
      BY <3>1
    <3>3. l > 0 => 1 = l
      BY <1>2, <3>1, <3>2
    <3> QED
      BY <3>1, <3>3
  <2>2. CASE Len(net[Consumer]) = 0
    <3>1. net[Consumer] = << >>
      BY <1>3, <2>2
    <3> QED
      BY <3>1, BytesEmpty
  <2>3. CASE Len(net[Consumer]) = 1
    <3>1. net[Consumer] = Append(<< >>, Closed)
      BY <1>2, <1>3, <2>3
    <3>2. Bytes(Append(<< >>, Closed)) = Bytes(<< >>) + 0
      BY <1>3, BytesAppend
    <3> QED
      BY <3>1, <3>2, BytesEmpty
  <2> QED
    BY <2>1, <2>2, <2>3
<1>5. Announced(Consumer) = 0 /\ Held(Consumer) = side[Consumer].avail
  BY <1>1, <1>2, <1>4, HeldIs, BytesEmpty, SideFacts
<1> QED
  BY <1>1, <1>2, <1>5 DEF Books

\* peer_closed_ of the consumer is set only when the producer has been closed
\* and every message it sent has been read: the reader misses nothing but what
\* a call that raced with the closing could not announce.
THEOREM ClosureComesLast == Spec => []ClosureAfterData
<1>1. QED
  BY Invariant, ClosureLast, PTL

-----------------------------------------------------------------------------
(***************************************************************************)
(* The signals.                                                            *)
(***************************************************************************)

\* A change from d to e by which no signal rises.
LEMMA SignalsFall ==
  ASSUME NEW s, NEW d, NEW e,
         \/ e.closed \/ e.at \in {"wire", "away"}
         \/ /\ ~d.closed /\ d.at \notin {"wire", "away"}
            /\ e.grant = 0 => d.grant = 0
            /\ e.avail > 0 => d.avail > 0
            /\ e.newData => d.newData
            /\ e.peerClosed <=> d.peerClosed
  PROVE  Signals(s, e) \subseteq Signals(s, d)
<1>1. SUFFICES ASSUME NEW x \in Signals(s, e) PROVE x \in Signals(s, d)
  OBVIOUS
<1>2. ~(e.closed \/ e.at \in {"wire", "away"})
  BY <1>1 DEF Signals
<1>3. CASE x = "WRITABLE"
  BY <1>1, <1>2, <1>3 DEF Signals
<1>4. CASE x = "READABLE"
  BY <1>1, <1>2, <1>4 DEF Signals
<1>5. CASE x = "NEW_DATA_READABLE"
  BY <1>1, <1>2, <1>5 DEF Signals
<1>6. CASE x = "PEER_CLOSED"
  BY <1>1, <1>2, <1>6 DEF Signals
<1> QED
  BY <1>1, <1>2, <1>3, <1>4, <1>5, <1>6 DEF Signals

\* told is a function on the sides.
ToldType == told \in [Side -> SUBSET {"WRITABLE", "READABLE", "NEW_DATA_READABLE", "PEER_CLOSED"}]

ToldInv == ToldType /\ SignalsAnnounced

LEMMA SignalsType ==
  ASSUME NEW s, NEW d
  PROVE  Signals(s, d) \subseteq {"WRITABLE", "READABLE", "NEW_DATA_READABLE", "PEER_CLOSED"}
BY DEF Signals

\* Set notifies the watchers of side s, or no signal rises.
LEMMA SetTells ==
  ASSUME Types, ToldInv, NEW s \in Side, NEW d, NEW notify, Set(s, d, notify),
         notify \/ Signals(s, d) \subseteq Signals(s, side[s])
  PROVE  ToldInv'
<1>1. /\ side'[s] = d /\ \A r \in Side : r # s => side'[r] = side[r]
  BY DEF Set, Types
<1>2. told'[s] = (IF notify THEN Signals(s, d) ELSE told[s])
      /\ (\A r \in Side : r # s => told'[r] = told[r]) /\ ToldType'
  <2>1. ToldType
    BY DEF ToldInv
  <2> QED
    BY <2>1, SignalsType DEF Set, ToldType
<1>3. Signals(s, side[s]) \subseteq told[s]
  BY DEF ToldInv, SignalsAnnounced
<1>4. Signals(s, side'[s]) \subseteq told'[s]
  BY <1>1, <1>2, <1>3
<1>5. ASSUME NEW r \in Side, r # s PROVE Signals(r, side'[r]) \subseteq told'[r]
  BY <1>1, <1>2, <1>5 DEF ToldInv, SignalsAnnounced
<1>6. SignalsAnnounced'
  <2>1. \A r \in Side : Signals(r, side'[r]) \subseteq told'[r]
    BY <1>4, <1>5
  <2> QED
    BY <2>1 DEF SignalsAnnounced, Signals
<1> QED
  BY <1>2, <1>6 DEF ToldInv

\* Nothing that the signals depend on changes.
LEMMA SignalsStay ==
  ASSUME Types, ToldInv, told' = told,
         \A r \in Side : Signals(r, side'[r]) \subseteq Signals(r, side[r])
  PROVE  ToldInv'
<1>1. ToldType'
  BY DEF ToldInv, ToldType
<1>2. \A r \in Side : Signals(r, side'[r]) \subseteq told'[r]
  BY DEF ToldInv, SignalsAnnounced
<1> QED
  BY <1>1, <1>2 DEF ToldInv, SignalsAnnounced, Signals

\* The control port of side s, whose dispatcher is d, is read.
LEMMA ReadingTells ==
  ASSUME Types, Books, ToldInv, NEW s \in Side, NEW d \in Dispatcher,
         UpdateSignalsState(s, d), d.avail + Total(d.queue) <= Capacity,
         Signals(s, d) = Signals(s, side[s])
  PROVE  ToldInv'
<1>2. PICK e : e = Updated(s, d)
  OBVIOUS
<1>3. ReadsAll(s, d, e)
  BY <1>2, UpdatedIs
<1>4. PICK b : b = (e.avail # d.avail \/ e.peerClosed # d.peerClosed)
  OBVIOUS
<1>5. Set(s, e, b)
  BY <1>2, <1>4 DEF UpdateSignalsState
<1>6. ASSUME ~b PROVE Signals(s, e) \subseteq Signals(s, side[s])
  <2>1. e.avail = d.avail /\ e.peerClosed = d.peerClosed
    BY <1>4, <1>6
  <2>2. e.grant = d.grant /\ e.closed = d.closed /\ e.at = d.at
    BY <1>3 DEF ReadsAll
  <2>3. e.newData => d.newData
    <3>1. CASE e = d
      BY <3>1
    <3>2. CASE /\ Total(e.queue) = 0 /\ e.newData = (d.newData \/ (s = Consumer /\ Total(d.queue) > 0))
      <4>1. e.avail = d.avail + Total(d.queue) - Total(e.queue) /\ d.avail \in Nat
        BY <1>3 DEF ReadsAll, Dispatcher
      <4>2. Total(d.queue) \in Nat
        BY BytesTotal DEF Dispatcher
      <4>3. ~(Total(d.queue) > 0)
        BY <2>1, <3>2, <4>1, <4>2
      <4> QED
        BY <3>2, <4>3
    <3> QED
      BY <1>3, <3>1, <3>2 DEF ReadsAll
  <2> QED
    BY <2>1, <2>2, <2>3, SignalsFall
<1> QED
  BY <1>5, <1>6, SetTells

LEMMA UpdatesTell ==
  ASSUME PipeInv, ToldInv, NEW s \in Side,
         OnPortStatusChanged(s) \/ (CancelTransit(s) /\ s = Consumer)
  PROVE  ToldInv'
<1>1. Types /\ Books
  BY DEF PipeInv
<1>2. side[s] \in Dispatcher /\ side[s].avail + Total(side[s].queue) <= Capacity
  BY <1>1, DispatcherFacts, NoOverclaim
<1>3. CASE OnPortStatusChanged(s)
  BY <1>1, <1>2, <1>3, ReadingTells DEF OnPortStatusChanged
<1>4. CASE CancelTransit(s) /\ s = Consumer
  <2>1. PICK d : d = [side[s] EXCEPT !.at = "here"]
    OBVIOUS
  <2>2. UpdateSignalsState(s, d) /\ side[s].at = "transit"
    BY <1>4, <2>1 DEF CancelTransit
  <2>3. /\ d \in Dispatcher /\ d.at = "here" /\ d.closed = side[s].closed
        /\ d.avail = side[s].avail /\ d.grant = side[s].grant /\ d.newData = side[s].newData
        /\ d.peerClosed = side[s].peerClosed /\ d.queue = side[s].queue
    BY <1>2, <2>1 DEF Dispatcher
  <2>4. Signals(s, d) = Signals(s, side[s])
    BY <2>2, <2>3 DEF Signals
  <2> QED
    BY <1>1, <1>2, <2>2, <2>3, <2>4, ReadingTells
<1> QED
  BY <1>3, <1>4

LEMMA AnnouncingTells ==
  ASSUME Types, ToldInv, NEW t \in Thread, Announce(t)
  PROVE  ToldInv'
<1>0. call[t] \in Announcement /\ call[t].side \in Side
  BY DEF Announce, Types, CallType, Announcement
<1>1. PICK c, s, d : /\ c = call[t] /\ s = c.side /\ d = side[s]
                     /\ c \in Announcement /\ s \in Side
  BY <1>0
<1>2. CASE c.number = d.number
  <2>1. PICK e, b : /\ e = (IF c.end THEN [d EXCEPT !.grant = 0] ELSE d)
                    /\ b = NotifiedAfter(s, c.end)
    OBVIOUS
  <2>2. Set(s, e, b)
    BY <1>1, <1>2, <2>1 DEF Announce
  <2>3. ~b => e = d
    BY <2>1 DEF NotifiedAfter
  <2>4. CASE b
    BY <1>1, <2>2, <2>4, SetTells
  <2>5. CASE ~b
    BY <1>1, <2>2, <2>3, <2>5, SetTells
  <2> QED
    BY <2>4, <2>5
<1>3. CASE c.number # d.number
  <2>1. side' = side /\ told' = told
    BY <1>1, <1>3 DEF Announce
  <2> QED
    BY <2>1, SignalsStay
<1> QED
  BY <1>2, <1>3

LEMMA CallsTell ==
  ASSUME PipeInv, ToldInv, NEW t \in Thread, NEW n \in Nat, n > 0,
         \/ WriteData(t, n) \/ EndWriteData(t, n)
         \/ ReadData(t, n) \/ EndReadData(t, n)
  PROVE  ToldInv'
<1>1. Types /\ Producer \in Side /\ Consumer \in Side
  BY SideFacts DEF PipeInv
<1>2. CASE WriteData(t, n)
  <2>1. \E d : Set(Producer, d, TRUE)
    BY <1>2 DEF WriteData
  <2> QED
    BY <1>1, <2>1, SetTells
<1>3. CASE EndWriteData(t, n)
  <2>1. PICK d, e : /\ d \in Dispatcher /\ d = side[Producer]
                    /\ e = [d EXCEPT !.avail = d.avail - n, !.offset = Slot(d.offset, n)]
    BY <1>1, DispatcherFacts
  <2>2. Set(Producer, e, FALSE) /\ d.at = "here" /\ ~d.closed
    BY <1>3, <2>1 DEF EndWriteData, Usable
  <2>3. /\ e.avail = d.avail - n /\ e.grant = d.grant /\ e.newData = d.newData
        /\ e.peerClosed = d.peerClosed /\ d.avail \in Nat
    BY <2>1 DEF Dispatcher
  <2>4. e.avail > 0 => d.avail > 0
    BY <2>3
  <2>5. Signals(Producer, e) \subseteq Signals(Producer, d)
    BY <2>2, <2>3, <2>4, SignalsFall
  <2> QED
    BY <1>1, <2>1, <2>2, <2>5, SetTells
<1>4. CASE ReadData(t, n)
  <2>1. PICK d, k, e :
          /\ d \in Dispatcher /\ d = side[Consumer] /\ k = Least(n, d.avail)
          /\ e = [d EXCEPT !.avail = d.avail - k, !.offset = Slot(d.offset, k), !.newData = FALSE]
    BY <1>1, DispatcherFacts
  <2>2. Set(Consumer, e, FALSE) /\ d.at = "here" /\ ~d.closed /\ k > 0
    BY <1>4, <2>1 DEF ReadData, Usable
  <2>3. /\ e.avail = d.avail - k /\ e.grant = d.grant /\ ~e.newData
        /\ e.peerClosed = d.peerClosed /\ d.avail \in Nat
    BY <2>1 DEF Dispatcher
  <2>4. e.avail > 0 => d.avail > 0
    BY <2>1, <2>2, <2>3, LeastFacts
  <2>5. Signals(Consumer, e) \subseteq Signals(Consumer, d)
    BY <2>2, <2>3, <2>4, SignalsFall
  <2> QED
    BY <1>1, <2>1, <2>2, <2>5, SetTells
<1>5. CASE EndReadData(t, n)
  <2>1. PICK d, e : /\ d \in Dispatcher /\ d = side[Consumer]
                    /\ e = [d EXCEPT !.avail = d.avail - n, !.offset = Slot(d.offset, n)]
    BY <1>1, DispatcherFacts
  <2>2. Set(Consumer, e, FALSE) /\ d.at = "here" /\ ~d.closed
    BY <1>5, <2>1 DEF EndReadData, Usable
  <2>3. /\ e.avail = d.avail - n /\ e.grant = d.grant /\ e.newData = d.newData
        /\ e.peerClosed = d.peerClosed /\ d.avail \in Nat
    BY <2>1 DEF Dispatcher
  <2>4. e.avail > 0 => d.avail > 0
    BY <2>3
  <2>5. Signals(Consumer, e) \subseteq Signals(Consumer, d)
    BY <2>2, <2>3, <2>4, SignalsFall
  <2> QED
    BY <1>1, <2>1, <2>2, <2>5, SetTells
<1> QED
  BY <1>2, <1>3, <1>4, <1>5

LEMMA GrantsTell ==
  ASSUME PipeInv, ToldInv,
         \/ BeginWriteData \/ EndWriteDataInvalid
         \/ BeginReadData \/ EndReadDataInvalid \/ QueryData
  PROVE  ToldInv'
<1>1. Types /\ Producer \in Side /\ Consumer \in Side
  BY SideFacts DEF PipeInv
<1>2. CASE EndWriteDataInvalid \/ EndReadDataInvalid \/ QueryData
  <2>1. (\E d : Set(Producer, d, TRUE)) \/ (\E d : Set(Consumer, d, TRUE))
    BY <1>2 DEF EndWriteDataInvalid, EndReadDataInvalid, QueryData
  <2> QED
    BY <1>1, <2>1, SetTells
<1>3. CASE BeginWriteData
  <2>1. PICK d, k, e : /\ d \in Dispatcher /\ d = side[Producer] /\ k = Least(Capacity - d.offset, d.avail)
                       /\ e = [d EXCEPT !.grant = k]
    BY <1>1, DispatcherFacts
  <2>2. Set(Producer, e, FALSE) /\ d.at = "here" /\ ~d.closed /\ d.grant = 0
    BY <1>3, <2>1 DEF BeginWriteData, Usable
  <2>3. e.avail = d.avail /\ e.newData = d.newData /\ e.peerClosed = d.peerClosed
    BY <2>1 DEF Dispatcher
  <2>4. Signals(Producer, e) \subseteq Signals(Producer, d)
    BY <2>2, <2>3, SignalsFall
  <2> QED
    BY <1>1, <2>1, <2>2, <2>4, SetTells
<1>4. CASE BeginReadData
  <2>1. PICK d, k, e : /\ d \in Dispatcher /\ d = side[Consumer] /\ k = Least(d.avail, Capacity - d.offset)
                       /\ e = [d EXCEPT !.newData = FALSE, !.grant = k]
    BY <1>1, DispatcherFacts
  <2>2. Set(Consumer, e, d.newData) /\ d.at = "here" /\ ~d.closed /\ d.grant = 0
    BY <1>4, <2>1 DEF BeginReadData, Usable
  <2>3. e.avail = d.avail /\ ~e.newData /\ e.peerClosed = d.peerClosed
    BY <2>1 DEF Dispatcher
  <2>4. Signals(Consumer, e) \subseteq Signals(Consumer, d)
    BY <2>2, <2>3, SignalsFall
  <2> QED
    BY <1>1, <2>1, <2>2, <2>4, SetTells
<1> QED
  BY <1>2, <1>3, <1>4

LEMMA MovesTell ==
  ASSUME PipeInv, ToldInv, NEW s \in Side,
         \/ Deliver(s) \/ Close(s) \/ SendAway(s) \/ Deserialize(s)
         \/ BeginTransit(s) \/ CancelTransit(s) \/ CompleteTransitAndClose(s)
  PROVE  ToldInv'
<1>1. Types
  BY DEF PipeInv
<1>2. PICK d \in Dispatcher : d = side[s]
  BY <1>1, DispatcherFacts
<1>3. ASSUME NEW e, side' = [side EXCEPT ![s] = e], told' = told,
             Signals(s, e) \subseteq Signals(s, d)
      PROVE  ToldInv'
  <2>1. \A r \in Side : Signals(r, side'[r]) \subseteq Signals(r, side[r])
    BY <1>1, <1>2, <1>3 DEF Types
  <2> QED
    BY <1>1, <1>3, <2>1, SignalsStay
<1>4. CASE Deliver(s)
  <2>1. PICK e : e = IF Head(net[s]) = Closed THEN [d EXCEPT !.ended = TRUE]
                     ELSE [d EXCEPT !.queue = Append(d.queue, Head(net[s]))]
    OBVIOUS
  <2>2. side' = [side EXCEPT ![s] = e] /\ told' = told
    BY <1>2, <1>4, <2>1 DEF Deliver
  <2>3. /\ e.at = d.at /\ e.closed = d.closed /\ e.avail = d.avail /\ e.grant = d.grant
        /\ e.newData = d.newData /\ e.peerClosed = d.peerClosed
    BY <2>1 DEF Dispatcher
  <2>4. Signals(s, e) \subseteq Signals(s, d)
    BY <2>3 DEF Signals
  <2> QED
    BY <1>3, <2>2, <2>4
<1>5. CASE Close(s)
  <2>1. PICK e : e = [d EXCEPT !.closed = TRUE, !.queue = << >>]
    OBVIOUS
  <2>2. Set(s, e, FALSE)
    BY <1>2, <1>5, <2>1 DEF Close
  <2>3. e.closed
    BY <2>1 DEF Dispatcher
  <2>4. Signals(s, e) \subseteq Signals(s, d)
    BY <2>3 DEF Signals
  <2> QED
    BY <1>1, <1>2, <2>2, <2>4, SetTells
<1>6. CASE SendAway(s)
  <2>1. PICK e : e = [d EXCEPT !.at = "away", !.home = @ + 1, !.queue = << >>, !.ended = FALSE]
    OBVIOUS
  <2>2. side' = [side EXCEPT ![s] = e] /\ told' = told
    BY <1>2, <1>6, <2>1 DEF SendAway
  <2>3. e.at = "away"
    BY <2>1 DEF Dispatcher
  <2>4. Signals(s, e) \subseteq Signals(s, d)
    BY <2>3 DEF Signals
  <2> QED
    BY <1>3, <2>2, <2>4
<1>7. CASE Deserialize(s)
  <2>1. \E e : Set(s, e, TRUE)
    BY <1>7 DEF Deserialize
  <2> QED
    BY <1>1, <2>1, SetTells
<1>8. CASE BeginTransit(s)
  <2>1. PICK e : e = [d EXCEPT !.at = "transit"]
    OBVIOUS
  <2>2. side' = [side EXCEPT ![s] = e] /\ told' = told /\ d.at = "here"
    BY <1>2, <1>8, <2>1 DEF BeginTransit, Usable
  <2>3. /\ e.closed = d.closed /\ e.avail = d.avail /\ e.grant = d.grant
        /\ e.newData = d.newData /\ e.peerClosed = d.peerClosed
    BY <2>1 DEF Dispatcher
  <2>4. Signals(s, e) \subseteq Signals(s, d)
    BY <2>2, <2>3 DEF Signals
  <2> QED
    BY <1>3, <2>2, <2>4
<1>9. CASE CancelTransit(s) /\ s # Consumer
  <2>1. \E e : Set(s, e, TRUE)
    BY <1>9 DEF CancelTransit
  <2> QED
    BY <1>1, <2>1, SetTells
<1>10. CASE CancelTransit(s) /\ s = Consumer
  BY <1>10, UpdatesTell
<1>11. CASE CompleteTransitAndClose(s)
  <2>1. PICK e : e = [d EXCEPT !.at = "wire", !.newData = FALSE]
    OBVIOUS
  <2>2. Set(s, e, FALSE)
    BY <1>2, <1>11, <2>1 DEF CompleteTransitAndClose
  <2>3. e.at = "wire"
    BY <2>1 DEF Dispatcher
  <2>4. Signals(s, e) \subseteq Signals(s, d)
    BY <2>3 DEF Signals
  <2> QED
    BY <1>1, <1>2, <2>2, <2>4, SetTells
<1> QED
  BY <1>4, <1>5, <1>6, <1>7, <1>8, <1>9, <1>10, <1>11

LEMMA ToldNext ==
  ASSUME PipeInv, ToldInv, [Next]_vars
  PROVE  ToldInv'
<1>1. Capacity \in Nat
  BY CapacityAssumption
<1>2. ASSUME NEW t \in Thread, NEW n \in 1 .. Capacity, WriteData(t, n) \/ ReadData(t, n)
      PROVE  ToldInv'
  BY <1>1, <1>2, CallsTell
<1>3. ASSUME NEW t \in Thread, NEW n \in 1 .. Capacity, EndWriteData(t, n)
      PROVE  ToldInv'
  BY <1>1, <1>3, CallsTell
<1>4. ASSUME NEW t \in Thread, NEW n \in 1 .. Capacity, EndReadData(t, n)
      PROVE  ToldInv'
  BY <1>1, <1>4, CallsTell
<1>5. ASSUME NEW t \in Thread, Announce(t) PROVE ToldInv'
  BY <1>5, AnnouncingTells DEF PipeInv
<1>6. ASSUME \/ BeginWriteData \/ EndWriteDataInvalid
             \/ BeginReadData \/ EndReadDataInvalid \/ QueryData
      PROVE  ToldInv'
  BY <1>6, GrantsTell
<1>7. ASSUME NEW s \in Side, OnPortStatusChanged(s) PROVE ToldInv'
  BY <1>7, UpdatesTell
<1>8. ASSUME NEW s \in Side,
             \/ Deliver(s) \/ Close(s) \/ SendAway(s) \/ Deserialize(s)
             \/ BeginTransit(s) \/ CancelTransit(s) \/ CompleteTransitAndClose(s)
      PROVE  ToldInv'
  BY <1>8, MovesTell
<1>9. CASE UNCHANGED vars
  BY <1>9 DEF ToldInv, ToldType, SignalsAnnounced, Signals, vars
<1> QED
  BY <1>2, <1>3, <1>4, <1>5, <1>6, <1>7, <1>8, <1>9 DEF Next

\* A watcher is notified of every signal that rises: WriteData, EndWriteData,
\* ReadData and the others that change the state of a dispatcher without
\* watchers_.NotifyState only ever let signals fall, and
\* UpdateSignalsStateNoLock notifies of all that a message can raise.
THEOREM WatchersTold == Spec => []SignalsAnnounced
<1>1. Init => ToldInv
  <2> SUFFICES ASSUME Init PROVE ToldInv
    OBVIOUS
  <2>1. ToldType
    BY SignalsType DEF Init, ToldType
  <2>2. SignalsAnnounced
    BY DEF Init, SignalsAnnounced
  <2> QED
    BY <2>1, <2>2 DEF ToldInv
<1>2. PipeInv /\ ToldInv /\ [Next]_vars => ToldInv'
  BY ToldNext
<1>3. ToldInv => SignalsAnnounced
  BY DEF ToldInv
<1>4. QED
  BY Invariant, <1>1, <1>2, <1>3, PTL DEF Spec

-----------------------------------------------------------------------------
(***************************************************************************)
(* Messages in the control port.                                           *)
(***************************************************************************)

\* NothingUnread, one side at a time.
Read(s) == Usable(s) /\ s \notin changed /\ side[s].queue # << >> =>
             s = Producer /\ side[s].overlooked

LEMMA ReadNext ==
  ASSUME PipeInv, NothingUnread, [Next]_vars
  PROVE  NothingUnread'
<1>1. Types /\ PipeInv'
  BY NextInv DEF PipeInv
<1>2. \A s \in Side : Read(s)
  BY DEF NothingUnread, Read
<1>3. SUFFICES \A s \in Side : Read(s)'
  BY DEF NothingUnread, Read
<1>4. ASSUME NEW s \in Side, NEW d, side' = [side EXCEPT ![s] = d],
             changed' = changed \/ (changed' = changed \ {s} /\ d.at # "here"),
             d.queue = side[s].queue, d.overlooked = side[s].overlooked,
             d.at = "here" => side[s].at = "here", d.closed = side[s].closed
      PROVE  \A r \in Side : Read(r)'
  <2>1. side'[s] = d /\ \A r \in Side : r # s => side'[r] = side[r]
    BY <1>1, <1>4 DEF Types
  <2>2. Read(s)'
    <3>1. Read(s)
      BY <1>2
    <3> QED
      BY <1>4, <2>1, <3>1 DEF Read, Usable
  <2>3. ASSUME NEW r \in Side, r # s PROVE Read(r)'
    <3>1. Read(r)
      BY <1>2
    <3> QED
      BY <1>4, <2>1, <2>3, <3>1 DEF Read, Usable
  <2> QED
    BY <2>2, <2>3
<1>5. ASSUME NEW s \in Side, side'[s].at # "here" \/ side'[s].closed \/ side'[s].queue = << >>
                              \/ s \in changed'
                              \/ (s = Producer /\ side'[s].overlooked),
             \A r \in Side : r # s => side'[r] = side[r],
             changed \ {s} \subseteq changed'
      PROVE  \A r \in Side : Read(r)'
  <2>1. Read(s)'
    BY <1>5 DEF Read, Usable
  <2>2. ASSUME NEW r \in Side, r # s PROVE Read(r)'
    <3>1. Read(r)
      BY <1>2
    <3> QED
      BY <1>5, <2>2, <3>1 DEF Read, Usable
  <2> QED
    BY <2>1, <2>2
<1>6. ASSUME NEW s \in Side PROVE side[s] \in Dispatcher
  BY <1>1, DispatcherFacts
<1>7. Producer \in Side /\ Consumer \in Side
  BY SideFacts
<1>8. ASSUME NEW t \in Thread, NEW n, WriteData(t, n) PROVE \A s \in Side : Read(s)'
  <2>1. PICK k, e : e = [side[Producer] EXCEPT !.avail = @ - k, !.offset = Slot(@, k)]
                    /\ k = WriteSize(n)
    OBVIOUS
  <2>2. side' = [side EXCEPT ![Producer] = e] /\ changed' = changed
    BY <1>8, <2>1 DEF WriteData, Set
  <2>3. e.queue = side[Producer].queue /\ e.at = side[Producer].at
        /\ e.closed = side[Producer].closed /\ e.overlooked = side[Producer].overlooked
    BY <1>6, <1>7, <2>1 DEF Dispatcher
  <2> QED
    BY <1>4, <1>7, <2>2, <2>3
<1>9. ASSUME NEW t \in Thread, NEW n, EndWriteData(t, n) PROVE \A s \in Side : Read(s)'
  <2>1. PICK e : e = [side[Producer] EXCEPT !.avail = @ - n, !.offset = Slot(@, n)]
    OBVIOUS
  <2>2. side' = [side EXCEPT ![Producer] = e] /\ changed' = changed
    BY <1>9, <2>1 DEF EndWriteData, Set
  <2>3. e.queue = side[Producer].queue /\ e.at = side[Producer].at
        /\ e.closed = side[Producer].closed /\ e.overlooked = side[Producer].overlooked
    BY <1>6, <1>7, <2>1 DEF Dispatcher
  <2> QED
    BY <1>4, <1>7, <2>2, <2>3
<1>10. ASSUME NEW t \in Thread, NEW n, ReadData(t, n) PROVE \A s \in Side : Read(s)'
  <2>1. PICK k, e : e = [side[Consumer] EXCEPT !.avail = @ - k, !.offset = Slot(@, k),
                                               !.newData = FALSE]
                    /\ k = Least(n, side[Consumer].avail)
    OBVIOUS
  <2>2. side' = [side EXCEPT ![Consumer] = e] /\ changed' = changed
    BY <1>10, <2>1 DEF ReadData, Set
  <2>3. e.queue = side[Consumer].queue /\ e.at = side[Consumer].at
        /\ e.closed = side[Consumer].closed /\ e.overlooked = side[Consumer].overlooked
    BY <1>6, <1>7, <2>1 DEF Dispatcher
  <2> QED
    BY <1>4, <1>7, <2>2, <2>3
<1>11. ASSUME NEW t \in Thread, NEW n, EndReadData(t, n) PROVE \A s \in Side : Read(s)'
  <2>1. PICK e : e = [side[Consumer] EXCEPT !.avail = @ - n, !.offset = Slot(@, n)]
    OBVIOUS
  <2>2. side' = [side EXCEPT ![Consumer] = e] /\ changed' = changed
    BY <1>11, <2>1 DEF EndReadData, Set
  <2>3. e.queue = side[Consumer].queue /\ e.at = side[Consumer].at
        /\ e.closed = side[Consumer].closed /\ e.overlooked = side[Consumer].overlooked
    BY <1>6, <1>7, <2>1 DEF Dispatcher
  <2> QED
    BY <1>4, <1>7, <2>2, <2>3
<1>12. ASSUME NEW t \in Thread, Announce(t) PROVE \A s \in Side : Read(s)'
  <2>1. PICK c, e, taken, x, y : Announces(t, c, e, taken, x, y)
    BY <1>12, AnnounceParts
  <2>2. /\ c.side \in Side /\ side' = [side EXCEPT ![c.side] = e] /\ changed' = changed
        /\ e.queue = side[c.side].queue /\ e.at = side[c.side].at
        /\ e.closed = side[c.side].closed /\ e.overlooked = side[c.side].overlooked
    BY <2>1 DEF Announces, Announcement
  <2> QED
    BY <1>4, <2>2
<1>13. ASSUME \/ BeginWriteData \/ EndWriteDataInvalid
              \/ BeginReadData \/ EndReadDataInvalid \/ QueryData
       PROVE  \A s \in Side : Read(s)'
  <2>1. CASE BeginWriteData
    <3>1. PICK k, e : /\ k = Least(Capacity - side[Producer].offset, side[Producer].avail)
                      /\ e = [side[Producer] EXCEPT !.grant = k]
      OBVIOUS
    <3>2. side' = [side EXCEPT ![Producer] = e] /\ changed' = changed
      BY <2>1, <3>1 DEF BeginWriteData, Set
    <3>3. /\ e.queue = side[Producer].queue /\ e.at = side[Producer].at
          /\ e.closed = side[Producer].closed /\ e.overlooked = side[Producer].overlooked
      BY <1>6, <1>7, <3>1 DEF Dispatcher
    <3> QED
      BY <1>4, <1>7, <3>2, <3>3
  <2>2. CASE EndWriteDataInvalid
    <3>1. PICK k, e : /\ k = 0
                      /\ e = [side[Producer] EXCEPT !.grant = k]
      OBVIOUS
    <3>2. side' = [side EXCEPT ![Producer] = e] /\ changed' = changed
      BY <2>2, <3>1 DEF EndWriteDataInvalid, Set
    <3>3. /\ e.queue = side[Producer].queue /\ e.at = side[Producer].at
          /\ e.closed = side[Producer].closed /\ e.overlooked = side[Producer].overlooked
      BY <1>6, <1>7, <3>1 DEF Dispatcher
    <3> QED
      BY <1>4, <1>7, <3>2, <3>3
  <2>3. CASE BeginReadData
    <3>1. PICK k, e : /\ k = Least(side[Consumer].avail, Capacity - side[Consumer].offset)
                      /\ e = [side[Consumer] EXCEPT !.newData = FALSE, !.grant = k]
      OBVIOUS
    <3>2. side' = [side EXCEPT ![Consumer] = e] /\ changed' = changed
      BY <2>3, <3>1 DEF BeginReadData, Set
    <3>3. /\ e.queue = side[Consumer].queue /\ e.at = side[Consumer].at
          /\ e.closed = side[Consumer].closed /\ e.overlooked = side[Consumer].overlooked
      BY <1>6, <1>7, <3>1 DEF Dispatcher
    <3> QED
      BY <1>4, <1>7, <3>2, <3>3
  <2>4. CASE EndReadDataInvalid
    <3>1. PICK k, e : /\ k = 0
                      /\ e = [side[Consumer] EXCEPT !.grant = k]
      OBVIOUS
    <3>2. side' = [side EXCEPT ![Consumer] = e] /\ changed' = changed
      BY <2>4, <3>1 DEF EndReadDataInvalid, Set
    <3>3. /\ e.queue = side[Consumer].queue /\ e.at = side[Consumer].at
          /\ e.closed = side[Consumer].closed /\ e.overlooked = side[Consumer].overlooked
      BY <1>6, <1>7, <3>1 DEF Dispatcher
    <3> QED
      BY <1>4, <1>7, <3>2, <3>3
  <2>5. CASE QueryData
    <3>1. PICK k, e : /\ k = FALSE
                      /\ e = [side[Consumer] EXCEPT !.newData = k]
      OBVIOUS
    <3>2. side' = [side EXCEPT ![Consumer] = e] /\ changed' = changed
      BY <2>5, <3>1 DEF QueryData, Set
    <3>3. /\ e.queue = side[Consumer].queue /\ e.at = side[Consumer].at
          /\ e.closed = side[Consumer].closed /\ e.overlooked = side[Consumer].overlooked
      BY <1>6, <1>7, <3>1 DEF Dispatcher
    <3> QED
      BY <1>4, <1>7, <3>2, <3>3
  <2> QED
    BY <1>13, <2>1, <2>2, <2>3, <2>4, <2>5
<1>14. ASSUME NEW s \in Side, Deliver(s) PROVE \A r \in Side : Read(r)'
  <2>1. PICK e : e = IF Head(net[s]) = Closed THEN [side[s] EXCEPT !.ended = TRUE]
                     ELSE [side[s] EXCEPT !.queue = Append(@, Head(net[s]))]
    OBVIOUS
  <2>2. /\ side' = [side EXCEPT ![s] = e]
        /\ changed' = IF side[s].at \in {"here", "transit"} THEN changed \cup {s} ELSE changed
    BY <1>14, <2>1 DEF Deliver
  <2>3. e.at = side[s].at
    BY <1>6, <2>1 DEF Dispatcher
  <2>4. side'[s] = e /\ \A r \in Side : r # s => side'[r] = side[r]
    BY <1>1, <2>2 DEF Types
  <2> QED
    BY <1>5, <2>2, <2>3, <2>4
<1>15. ASSUME NEW s \in Side,
              OnPortStatusChanged(s) \/ Deserialize(s) \/ (CancelTransit(s) /\ s = Consumer)
       PROVE  \A r \in Side : Read(r)'
  <2>1. PICK d \in Dispatcher : /\ ReadsAll(s, d, side'[s])
                                /\ side' = [side EXCEPT ![s] = side'[s]]
    BY <1>15, UpdateInv
  <2>2. PICK e : e = side'[s]
    OBVIOUS
  <2>3. \A r \in Side : r # s => side'[r] = side[r]
    BY <1>1, <2>1 DEF Types
  <2>4. side'[s].at # "here" \/ side'[s].queue = << >>
    BY <2>1 DEF ReadsAll
  <2>5. changed \ {s} \subseteq changed'
    BY <1>15 DEF OnPortStatusChanged, Deserialize, CancelTransit
  <2> QED
    BY <1>5, <2>3, <2>4, <2>5
<1>16. ASSUME NEW s \in Side, CancelTransit(s), s # Consumer PROVE \A r \in Side : Read(r)'
  <2>1. PICK e : e = [side[s] EXCEPT !.at = "here", !.overlooked = TRUE]
    OBVIOUS
  <2>2. side' = [side EXCEPT ![s] = e] /\ changed' = changed /\ s = Producer
    BY <1>16, <2>1, SideFacts DEF CancelTransit, Set
  <2>3. e.overlooked
    BY <1>6, <2>1 DEF Dispatcher
  <2>4. side'[s] = e /\ \A r \in Side : r # s => side'[r] = side[r]
    BY <1>1, <2>2 DEF Types
  <2> QED
    BY <1>5, <2>2, <2>3, <2>4
<1>17. ASSUME NEW s \in Side,
              Close(s) \/ SendAway(s) \/ BeginTransit(s) \/ CompleteTransitAndClose(s)
       PROVE  \A r \in Side : Read(r)'
  <2>1. PICK d \in Dispatcher : d = side[s]
    BY <1>6
  <2>2. PICK e : side' = [side EXCEPT ![s] = e] /\ (e.at # "here" \/ e.closed)
                 /\ changed \ {s} \subseteq changed'
    <3>1. CASE Close(s)
      <4>1. PICK e : e = [d EXCEPT !.closed = TRUE, !.queue = << >>]
        OBVIOUS
      <4>2. e.closed
        BY <4>1 DEF Dispatcher
      <4> QED
        BY <2>1, <3>1, <4>1, <4>2 DEF Close, Set
    <3>2. CASE SendAway(s)
      <4>1. PICK e : e = [d EXCEPT !.at = "away", !.home = @ + 1, !.queue = << >>, !.ended = FALSE]
        OBVIOUS
      <4>2. e.at # "here"
        BY <4>1 DEF Dispatcher
      <4> QED
        BY <2>1, <3>2, <4>1, <4>2 DEF SendAway
    <3>3. CASE BeginTransit(s)
      <4>1. PICK e : e = [d EXCEPT !.at = "transit"]
        OBVIOUS
      <4>2. e.at # "here"
        BY <4>1 DEF Dispatcher
      <4> QED
        BY <2>1, <3>3, <4>1, <4>2 DEF BeginTransit
    <3>4. CASE CompleteTransitAndClose(s)
      <4>1. PICK e : e = [d EXCEPT !.at = "wire", !.newData = FALSE]
        OBVIOUS
      <4>2. e.at # "here"
        BY <4>1 DEF Dispatcher
      <4> QED
        BY <2>1, <3>4, <4>1, <4>2 DEF CompleteTransitAndClose, Set
    <3> QED
      BY <1>17, <3>1, <3>2, <3>3, <3>4
  <2>3. side'[s] = e /\ \A r \in Side : r # s => side'[r] = side[r]
    BY <1>1, <2>2 DEF Types
  <2> QED
    BY <1>5, <2>2, <2>3
<1>18. CASE UNCHANGED vars
  BY <1>2, <1>18 DEF Read, Usable, vars
<1> QED
  BY <1>8, <1>9, <1>10, <1>11, <1>12, <1>13, <1>14, <1>15, <1>16, <1>17, <1>18 DEF Next

\* A control message never lies in the port of a dispatcher in use unless
\* OnPortStatusChanged is still to come, so a writer that waits for room, and a
\* reader that waits for data, are woken.  The exception is a producer that
\* has had no event since its transfer was given up: its CancelTransit, unlike
\* the consumer's, does not read what has arrived in the meantime.
THEOREM NothingLeftUnread == Spec => []NothingUnread
<1>1. Init => NothingUnread
  BY DEF Init, NothingUnread, NewSide
<1>2. PipeInv /\ NothingUnread /\ [Next]_vars => NothingUnread'
  BY ReadNext
<1>3. QED
  BY Invariant, <1>1, <1>2, PTL DEF Spec
=============================================================================
