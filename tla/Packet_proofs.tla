-------------------------- MODULE Packet_proofs ---------------------------
(* Lemmas and theorems about one packet, for any options, any payload and any *)
(* number of bodies, rows and extensions: sums, the layouts of a table, the   *)
(* configuration made of a command line, the lengths a packet states.         *)
EXTENDS Probe, WellFoundedInduction, FunctionTheorems, SequenceTheorems, FiniteSetTheorems, TLAPS

----------------------------------------------------------------------------
(* Induction *)

LEMMA LessThanPairs == OpToRel(<, Nat) = {ss \in Nat \X Nat : ss[1] < ss[2]}
BY DEF OpToRel

\* A set of naturals has a least one.
LEMMA Least ==
  ASSUME NEW T, T \subseteq Nat, T # {}
  PROVE  \E n \in T : \A m \in T : n <= m
<1>1. \E x \in T : \A y \in T : ~ (<<y, x>> \in OpToRel(<, Nat))
  BY NatLessThanWellFounded, WFMin
<1>2. PICK x \in T : \A y \in T : ~ (<<y, x>> \in {ss \in Nat \X Nat : ss[1] < ss[2]})
  BY <1>1, LessThanPairs
<1>3. \A y \in T : ~ (y < x)
  BY <1>2
<1> QED BY <1>3

\* Induction, over a set in the place of a predicate.
LEMMA UpFromZero ==
  ASSUME NEW T, 0 \in T, \A n \in Nat : n \in T => n + 1 \in T
  PROVE  \A n \in Nat : n \in T
<1> SUFFICES ASSUME NEW k \in Nat, k \notin T PROVE FALSE
  OBVIOUS
<1> DEFINE U == Nat \ T
<1>1. PICK n \in U : \A m \in U : n <= m
  <2>1. U \subseteq Nat /\ U # {}
    OBVIOUS
  <2> HIDE DEF U
  <2> QED BY <2>1, Least
<1>2. n - 1 \in Nat /\ n - 1 \notin U
  BY <1>1
<1> QED BY <1>1, <1>2

----------------------------------------------------------------------------
(* Sums *)

\* The fold's own recursion.
OneOf(s) == CHOOSE x \in s : TRUE
SumStep(g, w, s) == IF s = {} THEN 0 ELSE w[OneOf(s)] + g[s \ {OneOf(s)}]
Sums(g, w, D) == g = [s \in D |-> SumStep(g, w, s)]

LEMMA SumIsFold ==
  ASSUME NEW w, NEW S
  PROVE  SumFunctionOnSet(w, S) = (CHOOSE g : Sums(g, w, SUBSET S))[S]
BY DEF SumFunctionOnSet, FoldFunctionOnSet, MapThenFoldSet, Sums, SumStep, OneOf

Small(S, n) == {s \in SUBSET S : Cardinality(s) <= n}

LEMMA SmallLess ==
  ASSUME NEW S, IsFiniteSet(S), NEW n \in Nat, NEW s \in Small(S, n + 1), s # {}
  PROVE  s \ {OneOf(s)} \in Small(S, n)
<1> DEFINE x == OneOf(s)
<1>1. x \in s /\ s \in SUBSET S /\ Cardinality(s) <= n + 1
  BY DEF Small, OneOf
<1>2. IsFiniteSet(s) /\ Cardinality(s) \in Nat
  BY <1>1, FS_Subset, FS_CardinalityType
<1>3. Cardinality(s \ {x}) = Cardinality(s) - 1
  BY <1>1, <1>2, FS_RemoveElement
<1> QED BY <1>1, <1>2, <1>3 DEF Small

LEMMA SumsExist ==
  ASSUME NEW w, NEW S, IsFiniteSet(S)
  PROVE  \E g : Sums(g, w, SUBSET S)
<1> DEFINE N == {n \in Nat : \E g : Sums(g, w, Small(S, n))}
<1>1. 0 \in N
  <2> DEFINE g == [s \in Small(S, 0) |-> 0]
  <2>1. \A s \in Small(S, 0) : s = {}
    <3> SUFFICES ASSUME NEW s \in Small(S, 0) PROVE s = {}
      OBVIOUS
    <3>1. s \in SUBSET S /\ Cardinality(s) <= 0
      BY DEF Small
    <3>2. IsFiniteSet(s) /\ Cardinality(s) \in Nat
      BY <3>1, FS_Subset, FS_CardinalityType
    <3> QED BY <3>1, <3>2, FS_EmptySet
  <2>2. \A s \in Small(S, 0) : SumStep(g, w, s) = 0
    BY <2>1 DEF SumStep
  <2>3. Sums(g, w, Small(S, 0))
    BY <2>2 DEF Sums
  <2> QED BY <2>3
<1>2. ASSUME NEW n \in Nat, n \in N PROVE n + 1 \in N
  <2>1. PICK g : Sums(g, w, Small(S, n))
    BY <1>2
  <2> DEFINE h == [s \in Small(S, n + 1) |-> SumStep(g, w, s)]
  <2>2. \A s \in Small(S, n) : s \in Small(S, n + 1) /\ h[s] = g[s]
    <3> SUFFICES ASSUME NEW s \in Small(S, n)
                 PROVE  s \in Small(S, n + 1) /\ h[s] = g[s]
      OBVIOUS
    <3>1. s \in SUBSET S /\ Cardinality(s) <= n
      BY DEF Small
    <3>2. Cardinality(s) \in Nat
      BY <3>1, FS_Subset, FS_CardinalityType
    <3>3. s \in Small(S, n + 1)
      BY <3>1, <3>2 DEF Small
    <3> QED BY <2>1, <3>3 DEF Sums
  <2>3. ASSUME NEW s \in Small(S, n + 1) PROVE SumStep(h, w, s) = SumStep(g, w, s)
    <3>1. CASE s = {}
      BY <3>1 DEF SumStep
    <3>2. CASE s # {}
      <4>1. h[s \ {OneOf(s)}] = g[s \ {OneOf(s)}]
        BY <2>2, <3>2, SmallLess
      <4> HIDE DEF h
      <4> QED BY <4>1 DEF SumStep
    <3> QED BY <3>1, <3>2
  <2>4. Sums(h, w, Small(S, n + 1))
    <3>1. h = [s \in Small(S, n + 1) |-> SumStep(h, w, s)]
      BY <2>3
    <3> QED BY <3>1 DEF Sums
  <2> HIDE DEF h
  <2> QED BY <2>4
<1>3. \A n \in Nat : n \in N
  <2> HIDE DEF N
  <2> QED BY <1>1, <1>2, UpFromZero
<1>4. Small(S, Cardinality(S)) = SUBSET S /\ Cardinality(S) \in Nat
  BY FS_Subset, FS_CardinalityType DEF Small
<1> QED BY <1>3, <1>4

\* The sum, as the equation that it satisfies.
LEMMA SumUnfolds ==
  ASSUME NEW w, NEW S, IsFiniteSet(S)
  PROVE  \E g : Sums(g, w, SUBSET S) /\ SumFunctionOnSet(w, S) = g[S]
BY SumsExist, SumIsFold

LEMMA OneLess ==
  ASSUME NEW s, IsFiniteSet(s), NEW n \in Nat, Cardinality(s) = n + 1, NEW x \in s
  PROVE  IsFiniteSet(s \ {x}) /\ Cardinality(s \ {x}) = n
<1>1. Cardinality(s \ {x}) = Cardinality(s) - 1
  BY FS_RemoveElement
<1> QED BY <1>1, FS_RemoveElement

\* Two of them agree where both are defined.
LEMMA SumsAgree ==
  ASSUME NEW w, NEW v, NEW S, NEW T, NEW g, NEW h, IsFiniteSet(S), T \subseteq S,
         Sums(g, w, SUBSET S), Sums(h, v, SUBSET T), \A x \in T : w[x] = v[x]
  PROVE  g[T] = h[T]
<1> DEFINE N == {n \in Nat : \A s \in SUBSET T : Cardinality(s) = n => g[s] = h[s]}
<1>1. \A s \in SUBSET T : IsFiniteSet(s) /\ Cardinality(s) \in Nat
  BY FS_Subset, FS_CardinalityType
<1>2. \A s \in SUBSET T : g[s] = SumStep(g, w, s) /\ h[s] = SumStep(h, v, s)
  BY DEF Sums
<1>3. 0 \in N
  <2> SUFFICES ASSUME NEW s \in SUBSET T, Cardinality(s) = 0 PROVE g[s] = h[s]
    OBVIOUS
  <2>1. s = {}
    BY <1>1, FS_EmptySet
  <2> QED BY <1>2, <2>1 DEF SumStep
<1>4. ASSUME NEW n \in Nat, n \in N PROVE n + 1 \in N
  <2> SUFFICES ASSUME NEW s \in SUBSET T, Cardinality(s) = n + 1 PROVE g[s] = h[s]
    OBVIOUS
  <2>1. s # {}
    BY FS_EmptySet
  <2>2. OneOf(s) \in s
    BY <2>1 DEF OneOf
  <2>3. Cardinality(s \ {OneOf(s)}) = n
    BY <1>1, <2>2, OneLess
  <2>4. g[s \ {OneOf(s)}] = h[s \ {OneOf(s)}]
    BY <1>4, <2>3
  <2>5. w[OneOf(s)] = v[OneOf(s)]
    BY <2>2
  <2> QED BY <1>2, <2>1, <2>4, <2>5 DEF SumStep
<1>5. \A n \in Nat : n \in N
  <2> HIDE DEF N
  <2> QED BY <1>3, <1>4, UpFromZero
<1> QED BY <1>1, <1>5

\* A sum depends on the summands alone.
LEMMA SumCong ==
  ASSUME NEW S, IsFiniteSet(S), NEW w, NEW v, \A x \in S : w[x] = v[x]
  PROVE  SumFunctionOnSet(w, S) = SumFunctionOnSet(v, S)
<1>1. PICK g : Sums(g, w, SUBSET S) /\ SumFunctionOnSet(w, S) = g[S]
  BY SumUnfolds
<1>2. PICK h : Sums(h, v, SUBSET S) /\ SumFunctionOnSet(v, S) = h[S]
  BY SumUnfolds
<1> QED BY <1>1, <1>2, SumsAgree

LEMMA SumEmpty == ASSUME NEW w PROVE SumFunctionOnSet(w, {}) = 0
<1>1. IsFiniteSet({})
  BY FS_EmptySet
<1>2. PICK g : Sums(g, w, SUBSET {}) /\ SumFunctionOnSet(w, {}) = g[{}]
  BY <1>1, SumUnfolds
<1>3. g[{}] = SumStep(g, w, {})
  BY <1>2 DEF Sums
<1> QED BY <1>2, <1>3 DEF SumStep

LEMMA SumOfChosen ==
  ASSUME NEW S, IsFiniteSet(S), S # {}, NEW w
  PROVE  SumFunctionOnSet(w, S) = w[OneOf(S)] + SumFunctionOnSet(w, S \ {OneOf(S)})
<1>1. PICK g : Sums(g, w, SUBSET S) /\ SumFunctionOnSet(w, S) = g[S]
  BY SumUnfolds
<1> DEFINE T == S \ {OneOf(S)}
<1>2. IsFiniteSet(T)
  BY FS_RemoveElement
<1>3. PICK h : Sums(h, w, SUBSET T) /\ SumFunctionOnSet(w, T) = h[T]
  BY <1>2, SumUnfolds
<1>4. g[T] = h[T]
  <2>1. T \subseteq S /\ \A x \in T : w[x] = w[x]
    OBVIOUS
  <2> HIDE DEF T
  <2>2. Sums(g, w, SUBSET S)
    BY <1>1
  <2>3. Sums(h, w, SUBSET T)
    BY <1>3
  <2> QED BY <2>1, <2>2, <2>3, SumsAgree
<1>5. g[S] = SumStep(g, w, S)
  BY <1>1 DEF Sums
<1> QED BY <1>1, <1>3, <1>4, <1>5 DEF SumStep

LEMMA SumNat ==
  ASSUME NEW S, IsFiniteSet(S), NEW w, \A x \in S : w[x] \in Nat
  PROVE  SumFunctionOnSet(w, S) \in Nat
<1> DEFINE N == {n \in Nat : \A s \in SUBSET S :
                    Cardinality(s) = n => SumFunctionOnSet(w, s) \in Nat}
<1>1. \A s \in SUBSET S : IsFiniteSet(s) /\ Cardinality(s) \in Nat
  BY FS_Subset, FS_CardinalityType
<1>2. 0 \in N
  <2> SUFFICES ASSUME NEW s \in SUBSET S, Cardinality(s) = 0
               PROVE  SumFunctionOnSet(w, s) \in Nat
    OBVIOUS
  <2> QED BY <1>1, FS_EmptySet, SumEmpty
<1>3. ASSUME NEW n \in Nat, n \in N PROVE n + 1 \in N
  <2> SUFFICES ASSUME NEW s \in SUBSET S, Cardinality(s) = n + 1
               PROVE  SumFunctionOnSet(w, s) \in Nat
    OBVIOUS
  <2>1. s # {}
    BY FS_EmptySet
  <2>2. OneOf(s) \in s
    BY <2>1 DEF OneOf
  <2>3. Cardinality(s \ {OneOf(s)}) = n
    BY <1>1, <2>2, OneLess
  <2>4. SumFunctionOnSet(w, s \ {OneOf(s)}) \in Nat
    BY <1>3, <2>3
  <2>5. SumFunctionOnSet(w, s) = w[OneOf(s)] + SumFunctionOnSet(w, s \ {OneOf(s)})
    BY <1>1, <2>1, SumOfChosen
  <2>6. w[OneOf(s)] \in Nat
    BY <2>2
  <2> QED BY <2>4, <2>5, <2>6
<1>4. \A n \in Nat : n \in N
  <2> HIDE DEF N
  <2> QED BY <1>2, <1>3, UpFromZero
<1> QED BY <1>1, <1>4

\* Any summand may be taken out.
LEMMA SumRemove ==
  ASSUME NEW S, IsFiniteSet(S), NEW w, \A x \in S : w[x] \in Nat, NEW e \in S
  PROVE  SumFunctionOnSet(w, S) = w[e] + SumFunctionOnSet(w, S \ {e})
<1> DEFINE Out(s, x) == SumFunctionOnSet(w, s) = w[x] + SumFunctionOnSet(w, s \ {x})
           N == {n \in Nat : \A s \in SUBSET S : Cardinality(s) = n => \A x \in s : Out(s, x)}
<1>1. \A s \in SUBSET S : IsFiniteSet(s) /\ Cardinality(s) \in Nat
  BY FS_Subset, FS_CardinalityType
<1>2. 0 \in N
  BY <1>1, FS_EmptySet
<1>3. ASSUME NEW n \in Nat, n \in N PROVE n + 1 \in N
  <2> SUFFICES ASSUME NEW s \in SUBSET S, Cardinality(s) = n + 1, NEW x \in s PROVE Out(s, x)
    OBVIOUS
  <2> DEFINE c == OneOf(s)
  <2>1. c \in s /\ s # {}
    BY DEF OneOf
  <2>2. Out(s, c)
    BY <1>1, <2>1, SumOfChosen
  <2>3. CASE x = c
    BY <2>2, <2>3
  <2>4. CASE x # c
    <3>1. Cardinality(s \ {c}) = n /\ Cardinality(s \ {x}) = n
      BY <1>1, <2>1, OneLess
    <3>2. x \in s \ {c} /\ c \in s \ {x}
      BY <2>1, <2>4
    <3>3. Out(s \ {c}, x) /\ Out(s \ {x}, c)
      BY <1>3, <3>1, <3>2
    <3>4. (s \ {c}) \ {x} = (s \ {x}) \ {c}
      OBVIOUS
    <3>5. /\ SumFunctionOnSet(w, (s \ {c}) \ {x}) \in Nat
          /\ w[x] \in Nat /\ w[c] \in Nat
      <4>1. IsFiniteSet((s \ {c}) \ {x})
        BY <1>1, FS_RemoveElement
      <4> QED BY <2>1, <4>1, SumNat
    <3> HIDE DEF c
    <3> QED BY <2>2, <3>3, <3>4, <3>5
  <2> QED BY <2>3, <2>4
<1>4. \A n \in Nat : n \in N
  <2> HIDE DEF N
  <2> QED BY <1>2, <1>3, UpFromZero
<1> QED BY <1>1, <1>4

LEMMA SumAdd ==
  ASSUME NEW S, IsFiniteSet(S), NEW e, e \notin S, NEW w, \A x \in S \cup {e} : w[x] \in Nat
  PROVE  /\ SumFunctionOnSet(w, S \cup {e}) = SumFunctionOnSet(w, S) + w[e]
         /\ SumFunctionOnSet(w, S) \in Nat
<1>1. IsFiniteSet(S \cup {e}) /\ (S \cup {e}) \ {e} = S
  BY FS_AddElement
<1>2. SumFunctionOnSet(w, S \cup {e}) = w[e] + SumFunctionOnSet(w, (S \cup {e}) \ {e})
  BY <1>1, SumRemove
<1>3. SumFunctionOnSet(w, S) \in Nat /\ w[e] \in Nat
  BY SumNat
<1> QED BY <1>1, <1>2, <1>3

\* More summands, and greater ones, make no smaller sum.
LEMMA SumMonotone ==
  ASSUME NEW S, IsFiniteSet(S), NEW T, T \subseteq S, NEW w, NEW v,
         \A x \in S : w[x] \in Nat /\ v[x] \in Nat, \A x \in T : w[x] <= v[x]
  PROVE  SumFunctionOnSet(w, T) <= SumFunctionOnSet(v, S)
<1> DEFINE Below(s) == SumFunctionOnSet(w, s \cap T) <= SumFunctionOnSet(v, s)
           N == {n \in Nat : \A s \in SUBSET S : Cardinality(s) = n => Below(s)}
<1>1. \A s \in SUBSET S : IsFiniteSet(s) /\ Cardinality(s) \in Nat
  BY FS_Subset, FS_CardinalityType
<1>2. 0 \in N
  <2> SUFFICES ASSUME NEW s \in SUBSET S, Cardinality(s) = 0 PROVE Below(s)
    OBVIOUS
  <2>1. s = {} /\ s \cap T = {}
    BY <1>1, FS_EmptySet
  <2> QED BY <2>1, SumEmpty
<1>3. ASSUME NEW n \in Nat, n \in N PROVE n + 1 \in N
  <2> SUFFICES ASSUME NEW s \in SUBSET S, Cardinality(s) = n + 1 PROVE Below(s)
    OBVIOUS
  <2>1. PICK e \in s : TRUE
    BY FS_EmptySet
  <2> DEFINE r == s \ {e}
  <2>2. r \in SUBSET S /\ IsFiniteSet(r) /\ Cardinality(r) = n
    BY <1>1, <2>1, OneLess
  <2>3. Below(r)
    BY <1>3, <2>2
  <2>4. s = r \cup {e} /\ e \notin r
    OBVIOUS
  <2>5. \A x \in r \cup {e} : v[x] \in Nat /\ w[x] \in Nat
    OBVIOUS
  <2>6. IsFiniteSet(r \cap T) /\ e \notin r \cap T
    BY <2>2, FS_Intersection
  <2> HIDE DEF r
  <2>7. SumFunctionOnSet(v, s) = SumFunctionOnSet(v, r) + v[e] /\ SumFunctionOnSet(v, r) \in Nat
    BY <2>2, <2>4, <2>5, SumAdd
  <2>8. CASE e \in T
    <3>1. s \cap T = (r \cap T) \cup {e} /\ \A x \in (r \cap T) \cup {e} : w[x] \in Nat
      BY <2>4, <2>5, <2>8
    <3>2. /\ SumFunctionOnSet(w, s \cap T) = SumFunctionOnSet(w, r \cap T) + w[e]
          /\ SumFunctionOnSet(w, r \cap T) \in Nat
      BY <2>6, <3>1, SumAdd
    <3>3. w[e] <= v[e] /\ w[e] \in Nat /\ v[e] \in Nat
      BY <2>8, <2>5
    <3> QED BY <2>3, <2>7, <3>2, <3>3
  <2>9. CASE e \notin T
    <3>1. s \cap T = r \cap T
      BY <2>4, <2>9
    <3>2. SumFunctionOnSet(w, r \cap T) \in Nat
      BY <2>5, <2>6, SumNat
    <3>3. v[e] \in Nat
      BY <2>5
    <3> QED BY <2>3, <2>7, <3>1, <3>2, <3>3
  <2> QED BY <2>8, <2>9
<1>4. \A n \in Nat : n \in N
  <2> HIDE DEF N
  <2> QED BY <1>2, <1>3, UpFromZero
<1>5. Below(S)
  BY <1>1, <1>4
<1>6. S \cap T = T
  OBVIOUS
<1> QED BY <1>5, <1>6

----------------------------------------------------------------------------
(* Sums over sequences *)

LEMMA SeqSumNat ==
  ASSUME NEW u \in Seq(Nat)
  PROVE  SumFunction(u) \in Nat
<1>1. IsFiniteSet(DOMAIN u) /\ \A i \in DOMAIN u : u[i] \in Nat
  BY FS_Interval
<1> QED BY <1>1, SumNat DEF SumFunction

LEMMA SeqSumEmpty == SumFunction(<<>>) = 0
<1>1. DOMAIN <<>> = {}
  OBVIOUS
<1> QED BY <1>1, SumEmpty DEF SumFunction

LEMMA SeqSumAppend ==
  ASSUME NEW u \in Seq(Nat), NEW n \in Nat
  PROVE  SumFunction(Append(u, n)) = SumFunction(u) + n
<1> DEFINE v == Append(u, n)
           k == Len(u) + 1
<1>1. /\ DOMAIN v = DOMAIN u \cup {k} /\ k \notin DOMAIN u
      /\ IsFiniteSet(DOMAIN u)
      /\ \A i \in DOMAIN v : v[i] \in Nat
      /\ \A i \in DOMAIN u : v[i] = u[i]
      /\ v[k] = n
  <2>1. IsFiniteSet(1..Len(u)) /\ DOMAIN u = 1..Len(u)
    BY FS_Interval
  <2>2. DOMAIN v = 1..Len(u) + 1
    OBVIOUS
  <2> QED BY <2>1, <2>2
<1> HIDE DEF v, k
<1>2. SumFunctionOnSet(v, DOMAIN u \cup {k}) = SumFunctionOnSet(v, DOMAIN u) + v[k]
  BY <1>1, SumAdd
<1>3. SumFunctionOnSet(v, DOMAIN u) = SumFunctionOnSet(u, DOMAIN u)
  BY <1>1, SumCong
<1> QED BY <1>1, <1>2, <1>3 DEF SumFunction, v

LEMMA SeqSumConcat ==
  ASSUME NEW u \in Seq(Nat), NEW v \in Seq(Nat)
  PROVE  SumFunction(u \o v) = SumFunction(u) + SumFunction(v)
<1> DEFINE Adds(t) == SumFunction(u \o t) = SumFunction(u) + SumFunction(t)
           N == {n \in Nat : \A t \in Seq(Nat) : Len(t) = n => Adds(t)}
<1>1. 0 \in N
  <2> SUFFICES ASSUME NEW t \in Seq(Nat), Len(t) = 0 PROVE Adds(t)
    OBVIOUS
  <2>1. t = <<>> /\ u \o t = u
    OBVIOUS
  <2> QED BY <2>1, SeqSumEmpty, SeqSumNat
<1>2. ASSUME NEW n \in Nat, n \in N PROVE n + 1 \in N
  <2> SUFFICES ASSUME NEW t \in Seq(Nat), Len(t) = n + 1 PROVE Adds(t)
    OBVIOUS
  <2> DEFINE r == SubSeq(t, 1, n)
             e == t[n + 1]
  <2>1. r \in Seq(Nat) /\ Len(r) = n /\ e \in Nat /\ t = Append(r, e)
    OBVIOUS
  <2>2. Adds(r)
    BY <1>2, <2>1
  <2> HIDE DEF r, e
  <2>3. u \o t = Append(u \o r, e) /\ u \o r \in Seq(Nat)
    BY <2>1
  <2>4. SumFunction(u \o t) = SumFunction(u \o r) + e /\ SumFunction(t) = SumFunction(r) + e
    BY <2>1, <2>3, SeqSumAppend
  <2>5. SumFunction(u) \in Nat /\ SumFunction(r) \in Nat
    BY <2>1, SeqSumNat
  <2> QED BY <2>1, <2>2, <2>4, <2>5
<1>3. \A n \in Nat : n \in N
  <2> HIDE DEF N
  <2> QED BY <1>1, <1>2, UpFromZero
<1>4. Len(v) \in Nat
  OBVIOUS
<1> QED BY <1>3, <1>4

----------------------------------------------------------------------------
(* One layout per table: for every table, of any size and any content, the    *)
(* layouts the validation lets pass together.                                 *)

\* What tells the layouts of an MPT apart: the table length, then the address and
\* the size of the identifier.
LEMMA MptSignatures ==
  ASSUME NEW flags, NEW t, MptLayoutsHold(flags, t)
  PROVE  /\ "mpt_table_body_prefix" \in flags =>
              t.table_length = 5
         /\ "mpt_asset" \in flags =>
              t.table_length = 19
         /\ "mpt_asset_id8" \in flags =>
              t.table_length = 20
         /\ "mpt_asset_id16" \in flags =>
              t.table_length = 21
         /\ "mpt_asset_location0" \in flags =>
              t.table_length = 22
         /\ "mpt_asset_location_ipv4" \in flags =>
              t.table_length = 30 /\ t.item.address = "zero"
         /\ "mpt_asset_location_ipv4_nz" \in flags =>
              t.table_length = 30 /\ t.item.address = "lab"
         /\ "mpt_asset_id8_location_ipv4_nz" \in flags =>
              t.table_length = 31 /\ t.item.address = "lab"
         /\ "mpt_asset_id8_location_ipv6_nz" \in flags =>
              t.table_length = 55 /\ t.item.address = "lab" /\ Len(t.item.id) = 1
         /\ "mpt_asset_id16_location_ipv4" \in flags =>
              t.table_length = 32 /\ t.item.address = "zero"
         /\ "mpt_asset_id16_location_ipv4_nz" \in flags =>
              t.table_length = 32 /\ t.item.address = "lab"
         /\ "mpt_asset_id16_location_ipv6" \in flags =>
              t.table_length = 55 /\ t.item.address = "zero" /\ Len(t.item.id) = 2
         /\ "mpt_asset_id16_location_ipv6_nz" \in flags =>
              t.table_length = 56
         /\ "mpt_asset_id16_descriptors4" \in flags =>
              t.table_length = 25
         /\ "mpt_asset_id8_descriptors4" \in flags =>
              t.table_length = 24
         /\ "mpt_asset_location_ipv6" \in flags =>
              t.table_length = 54 /\ t.item.address = "zero"
         /\ "mpt_asset_location_ipv6_nz" \in flags =>
              t.table_length = 54 /\ t.item.address = "lab"
         /\ "mpt_asset_id8_location_ipv4" \in flags =>
              t.table_length = 31 /\ t.item.address = "zero"
         /\ "mpt_asset_id8_location_ipv6" \in flags =>
              t.table_length = 55 /\ t.item.address = "zero" /\ Len(t.item.id) = 1
         /\ "mpt_asset_descriptors4" \in flags =>
              t.table_length = 23
<1>1. "mpt_table_body_prefix" \in flags => t.table_length = 5
  BY DEF MptLayoutsHold, MptTableBodyPrefix
<1>2. "mpt_asset" \in flags => t.table_length = 19
  BY DEF MptLayoutsHold, MptAsset, Asset, AssetIn
<1>3. "mpt_asset_id8" \in flags => t.table_length = 20
  BY DEF MptLayoutsHold, MptAssetId8, Asset, AssetIn
<1>4. "mpt_asset_id16" \in flags => t.table_length = 21
  BY DEF MptLayoutsHold, MptAssetId16, Asset, AssetIn
<1>5. "mpt_asset_location0" \in flags => t.table_length = 22
  BY DEF MptLayoutsHold, MptAssetLocation0, Asset, AssetIn
<1>6. "mpt_asset_location_ipv4" \in flags => t.table_length = 30 /\ t.item.address = "zero"
  BY DEF MptLayoutsHold, MptAssetLocationIpv4, Asset, AssetIn, Item, At
<1>7. "mpt_asset_location_ipv4_nz" \in flags => t.table_length = 30 /\ t.item.address = "lab"
  BY DEF MptLayoutsHold, MptAssetLocationIpv4Nz, Asset, AssetIn, Item, Lab
<1>8. "mpt_asset_id8_location_ipv4_nz" \in flags => t.table_length = 31 /\ t.item.address = "lab"
  BY DEF MptLayoutsHold, MptAssetId8LocationIpv4Nz, Asset, AssetIn, Item, Lab, Named, Id8
<1>9. "mpt_asset_id8_location_ipv6_nz" \in flags =>
         t.table_length = 55 /\ t.item.address = "lab" /\ Len(t.item.id) = 1
  BY DEF MptLayoutsHold, MptAssetId8LocationIpv6Nz, Asset, AssetIn, Item, Lab, Named, Id8
<1>10. "mpt_asset_id16_location_ipv4" \in flags => t.table_length = 32 /\ t.item.address = "zero"
  BY DEF MptLayoutsHold, MptAssetId16LocationIpv4, Asset, AssetIn, Item, At, Named, Id16
<1>11. "mpt_asset_id16_location_ipv4_nz" \in flags =>
         t.table_length = 32 /\ t.item.address = "lab"
  BY DEF MptLayoutsHold, MptAssetId16LocationIpv4Nz, Asset, AssetIn, Item, Lab, Named, Id16
<1>12. "mpt_asset_id16_location_ipv6" \in flags =>
         t.table_length = 55 /\ t.item.address = "zero" /\ Len(t.item.id) = 2
  BY DEF MptLayoutsHold, MptAssetId16LocationIpv6, AssetIn, Item, At, Named, Id16
<1>13. "mpt_asset_id16_location_ipv6_nz" \in flags => t.table_length = 56
  BY DEF MptLayoutsHold, MptAssetId16LocationIpv6Nz, Asset, AssetIn
<1>14. "mpt_asset_id16_descriptors4" \in flags => t.table_length = 25
  BY DEF MptLayoutsHold, MptAssetId16Descriptors4, Asset, AssetIn
<1>15. "mpt_asset_id8_descriptors4" \in flags => t.table_length = 24
  BY DEF MptLayoutsHold, MptAssetId8Descriptors4, Asset, AssetIn
<1>16. "mpt_asset_location_ipv6" \in flags => t.table_length = 54 /\ t.item.address = "zero"
  BY DEF MptLayoutsHold, MptAssetLocationIpv6, Asset, AssetIn, Item, At
<1>17. "mpt_asset_location_ipv6_nz" \in flags => t.table_length = 54 /\ t.item.address = "lab"
  BY DEF MptLayoutsHold, MptAssetLocationIpv6Nz, Asset, AssetIn, Item, Lab
<1>18. "mpt_asset_id8_location_ipv4" \in flags => t.table_length = 31 /\ t.item.address = "zero"
  BY DEF MptLayoutsHold, MptAssetId8LocationIpv4, Asset, AssetIn, Item, At, Named, Id8
<1>19. "mpt_asset_id8_location_ipv6" \in flags =>
         t.table_length = 55 /\ t.item.address = "zero" /\ Len(t.item.id) = 1
  BY DEF MptLayoutsHold, MptAssetId8LocationIpv6, Asset, AssetIn, Item, At, Named, Id8
<1>20. "mpt_asset_descriptors4" \in flags => t.table_length = 23
  BY DEF MptLayoutsHold, MptAssetDescriptors4, Asset, AssetIn
<1> QED BY <1>1, <1>2, <1>3, <1>4, <1>5, <1>6, <1>7, <1>8, <1>9, <1>10, <1>11, <1>12, <1>13,
          <1>14, <1>15, <1>16, <1>17, <1>18, <1>19, <1>20

\* The same for a PLT: the table length, then the address and the location.
LEMMA PltSignatures ==
  ASSUME NEW flags, NEW t, PltLayoutsHold(flags, t)
  PROVE  /\ "plt_table_body_prefix" \in flags =>
              t.table_length = 2
         /\ "plt_delivery_info" \in flags =>
              t.table_length = 9
         /\ "plt_delivery_info_ipv4" \in flags =>
              t.table_length = 19
         /\ "plt_delivery_info_ipv4_nz" \in flags =>
              t.table_length = 19 /\ t.item.address = "lab"
         /\ "plt_delivery_info_ipv6" \in flags =>
              t.table_length = 43
         /\ "plt_delivery_info_url" \in flags =>
              t.table_length = 10
         /\ "plt_delivery_info_url_3" \in flags =>
              t.table_length = 13
         /\ "plt_delivery_info_url_4" \in flags =>
              t.table_length = 14 /\ t.item.address = "zero" /\ t.item.location = "url"
         /\ "plt_package_entry" \in flags =>
              t.table_length = 6
         /\ "plt_package_entry_id8" \in flags =>
              t.table_length = 7
         /\ "plt_package_entry_ipv4" \in flags =>
              t.table_length = 14 /\ t.item.address = "zero" /\ t.item.location = "ipv4"
         /\ "plt_package_entry_ipv4_nz" \in flags =>
              t.table_length = 14 /\ t.item.address = "lab" /\ t.item.location = "ipv4"
         /\ "plt_package_entry_id8_location_ipv4_nz" \in flags =>
              t.table_length = 15 /\ t.item.address = "lab"
         /\ "plt_package_entry_id8_location_ipv6_nz" \in flags =>
              t.table_length = 39 /\ t.item.address = "lab"
         /\ "plt_package_entry_id8_location_ipv4" \in flags =>
              t.table_length = 15 /\ t.item.address = "zero"
         /\ "plt_package_entry_id8_location_ipv6" \in flags =>
              t.table_length = 39 /\ t.item.address = "zero"
         /\ "plt_package_entry_ipv6" \in flags =>
              t.table_length = 38 /\ t.item.address = "zero"
         /\ "plt_package_entry_ipv6_nz" \in flags =>
              t.table_length = 38 /\ t.item.address = "lab"
<1>1. "plt_table_body_prefix" \in flags => t.table_length = 2
  BY DEF PltLayoutsHold, PltTableBodyPrefix
<1>2. "plt_delivery_info" \in flags => t.table_length = 9
  BY DEF PltLayoutsHold, PltDeliveryInfo, Delivery
<1>3. "plt_delivery_info_ipv4" \in flags => t.table_length = 19
  BY DEF PltLayoutsHold, PltDeliveryInfoIpv4, AnyAddress, Delivery
<1>4. "plt_delivery_info_ipv4_nz" \in flags => t.table_length = 19 /\ t.item.address = "lab"
  BY DEF PltLayoutsHold, PltDeliveryInfoIpv4Nz, Delivery, Item, Lab
<1>5. "plt_delivery_info_ipv6" \in flags => t.table_length = 43
  BY DEF PltLayoutsHold, PltDeliveryInfoIpv6, AnyAddress, Delivery
<1>6. "plt_delivery_info_url" \in flags => t.table_length = 10
  BY DEF PltLayoutsHold, PltDeliveryInfoUrl, Delivery
<1>7. "plt_delivery_info_url_3" \in flags => t.table_length = 13
  BY DEF PltLayoutsHold, PltDeliveryInfoUrl3, Delivery
<1>8. "plt_delivery_info_url_4" \in flags =>
         t.table_length = 14 /\ t.item.address = "zero" /\ t.item.location = "url"
  BY DEF PltLayoutsHold, PltDeliveryInfoUrl4, Delivery, Item, At, With
<1>9. "plt_package_entry" \in flags => t.table_length = 6
  BY DEF PltLayoutsHold, PltPackageEntry, Entry
<1>10. "plt_package_entry_id8" \in flags => t.table_length = 7
  BY DEF PltLayoutsHold, PltPackageEntryId8, Entry
<1>11. "plt_package_entry_ipv4" \in flags =>
         t.table_length = 14 /\ t.item.address = "zero" /\ t.item.location = "ipv4"
  BY DEF PltLayoutsHold, PltPackageEntryIpv4, Entry, Item, At
<1>12. "plt_package_entry_ipv4_nz" \in flags =>
         t.table_length = 14 /\ t.item.address = "lab" /\ t.item.location = "ipv4"
  BY DEF PltLayoutsHold, PltPackageEntryIpv4Nz, Entry, Item, Lab
<1>13. "plt_package_entry_id8_location_ipv4_nz" \in flags =>
         t.table_length = 15 /\ t.item.address = "lab"
  BY DEF PltLayoutsHold, PltPackageEntryId8LocationIpv4Nz, Entry, Item, Lab, Named, Id8
<1>14. "plt_package_entry_id8_location_ipv6_nz" \in flags =>
         t.table_length = 39 /\ t.item.address = "lab"
  BY DEF PltLayoutsHold, PltPackageEntryId8LocationIpv6Nz, Entry, Item, Lab, Named, Id8
<1>15. "plt_package_entry_id8_location_ipv4" \in flags =>
         t.table_length = 15 /\ t.item.address = "zero"
  BY DEF PltLayoutsHold, PltPackageEntryId8LocationIpv4, Entry, Item, At, Named, Id8
<1>16. "plt_package_entry_id8_location_ipv6" \in flags =>
         t.table_length = 39 /\ t.item.address = "zero"
  BY DEF PltLayoutsHold, PltPackageEntryId8LocationIpv6, Entry, Item, At, Named, Id8
<1>17. "plt_package_entry_ipv6" \in flags => t.table_length = 38 /\ t.item.address = "zero"
  BY DEF PltLayoutsHold, PltPackageEntryIpv6, Entry, Item, At
<1>18. "plt_package_entry_ipv6_nz" \in flags => t.table_length = 38 /\ t.item.address = "lab"
  BY DEF PltLayoutsHold, PltPackageEntryIpv6Nz, Entry, Item, Lab
<1> QED BY <1>1, <1>2, <1>3, <1>4, <1>5, <1>6, <1>7, <1>8, <1>9, <1>10, <1>11, <1>12, <1>13,
          <1>14, <1>15, <1>16, <1>17, <1>18

\* A table passes the validation as one MPT layout at most, whatever is excluded.
THEOREM MptLayoutsApart ==
  ASSUME NEW flags, NEW t, MptLayoutsHold(flags, t),
         NEW f \in flags \cap MptLayouts, NEW g \in flags \cap MptLayouts
  PROVE  f = g
BY MptSignatures DEF MptLayouts

\* A table passes the validation as one PLT layout at most, but for the two of
\* an IPv4 delivery: one of them looks at neither address nor port.
THEOREM PltLayoutsApart ==
  ASSUME NEW flags, NEW t, PltLayoutsHold(flags, t),
         NEW f \in flags \cap PltLayouts, NEW g \in flags \cap PltLayouts
  PROVE  f = g \/ {f, g} = {"plt_delivery_info_ipv4", "plt_delivery_info_ipv4_nz"}
BY PltSignatures DEF PltLayouts

----------------------------------------------------------------------------
(* What main accepts, it does *)

\* No switch that shapes packets is left out of the configuration.
LEMMA FlagsKept ==
  ASSUME NEW o \in Options, Accepted(o)
  PROVE  /\ o.flags \cap (PrependFlags \cup TableBodies \cup Layouts) \subseteq ConfigFlags(o)
         /\ ConfigFlags(o) \subseteq o.flags
<1> DEFINE F == o.flags
<1>1. /\ ConfigFlags(o) \subseteq F
      /\ "lct" \in F => "lct" \in ConfigFlags(o)
      /\ "word0" \in F => F \cap HeaderFlags \subseteq ConfigFlags(o)
      /\ "word0" \in F => F \cap ModeFlags(o) \subseteq ConfigFlags(o)
  BY DEF ConfigFlags
<1>2. /\ "ts_psn" \in F => "word0" \in F
      /\ "counter" \in F => "word0" \in F
      /\ "signalling" \in F => "word0" \in F
      /\ "isobmff" \in F => "word0" \in F /\ "signalling" \notin F
      /\ "gfd" \in F => "word0" \in F /\ "signalling" \notin F /\ "isobmff" \notin F
      /\ "du_header" \in F => "isobmff" \in F
  BY DEF Accepted, HeaderAccepted, SignallingAccepted, ModesAccepted, DuHeaderAccepted, Needs, Apart
<1>3. F \cap (SiSuffix \cup TableBodies \cup Layouts) # {} => "signalling" \in F
  <2>1. F \cap SiSuffix # {} => "signalling" \in F
    BY DEF Accepted, SuffixAccepted, MessageAccepted, PaAccepted, SiSuffix
  <2>2. F \cap TableBodies # {} => "signalling" \in F
    BY DEF Accepted, TablesAccepted, Needs
  <2>3. F \cap Layouts # {} => F \cap TableBodies # {}
    BY DEF Accepted, LayoutsAccepted, BodyRequired, Layouts, TableBodies
  <2> QED BY <2>1, <2>2, <2>3
<1>4. "signalling" \in F => ModeFlags(o) = SignallingFlags
  BY DEF ModeFlags
<1>5. "isobmff" \in F => ModeFlags(o) = {"isobmff", "du_header"}
  BY <1>2 DEF ModeFlags
<1>6. "gfd" \in F => ModeFlags(o) = {"gfd"}
  BY <1>2 DEF ModeFlags
<1>7. ASSUME NEW f \in F \cap (PrependFlags \cup TableBodies \cup Layouts)
      PROVE  f \in ConfigFlags(o)
  <2>1. CASE f \in {"lct", "word0", "ts_psn", "counter"}
    BY <1>1, <1>2, <2>1 DEF HeaderFlags
  <2>2. CASE f \in {"signalling"} \cup SiSuffix \cup TableBodies \cup Layouts
    <3>1. f \in SignallingFlags /\ "signalling" \in F
      BY <1>3, <2>2 DEF SignallingFlags
    <3> QED BY <1>1, <1>2, <1>4, <3>1
  <2>3. CASE f \in {"isobmff", "du_header"}
    BY <1>1, <1>2, <1>5, <2>3
  <2>4. CASE f = "gfd"
    BY <1>1, <1>2, <1>6, <2>4
  <2>5. PrependFlags = {"lct", "word0", "ts_psn", "counter", "signalling", "isobmff", "gfd",
                        "du_header"} \cup SiSuffix
    BY DEF PrependFlags, SiSuffix
  <2> QED BY <2>1, <2>2, <2>3, <2>4, <2>5
<1> QED BY <1>1, <1>7

\* What is written down as excluded is always two layouts.
Couples == {pair \in SUBSET Layouts : \E f, g \in pair : f # g}

LEMMA AgainstCouples ==
  ASSUME NEW layout \in Layouts, NEW others, others \subseteq Layouts, layout \notin others
  PROVE  Against(layout, others) \subseteq Couples
BY DEF Against, Couples

LEMMA EncoderExcludesCouples == EncoderExcludes \subseteq Couples
<1>1. EncoderMptPairs1 \subseteq Couples
  BY AgainstCouples DEF EncoderMptPairs1, Layouts, MptLayouts
<1>2. EncoderMptPairs2 \subseteq Couples
  BY AgainstCouples DEF EncoderMptPairs2, Layouts, MptLayouts
<1>3. EncoderMptPairs3 \subseteq Couples
  BY AgainstCouples DEF EncoderMptPairs3, Layouts, MptLayouts
<1>4. EncoderMptPairs4 \subseteq Couples
  BY AgainstCouples DEF EncoderMptPairs4, Layouts, MptLayouts
<1>5. EncoderMptPairs5 \subseteq Couples
  BY AgainstCouples DEF EncoderMptPairs5, Layouts, MptLayouts
<1>6. EncoderMptPairs6 \subseteq Couples
  BY AgainstCouples DEF EncoderMptPairs6, Layouts, MptLayouts
<1>7. EncoderMptPairs7 \subseteq Couples
  BY AgainstCouples DEF EncoderMptPairs7, EarlierAssets, Layouts, MptLayouts
<1>8. EncoderMptPairs8 \subseteq Couples
  BY AgainstCouples DEF EncoderMptPairs8, EarlierAssets, Layouts, MptLayouts
<1>9. EncoderMptPairs9 \subseteq Couples
  BY AgainstCouples DEF EncoderMptPairs9, EarlierAssets, Layouts, MptLayouts
<1>10. EncoderMptPairs10 \subseteq Couples
  BY AgainstCouples DEF EncoderMptPairs10, Layouts, MptLayouts
<1>11. EncoderMptPairs11 \subseteq Couples
  BY AgainstCouples DEF EncoderMptPairs11, Layouts, MptLayouts
<1>12. EncoderPltPairs1 \subseteq Couples
  BY AgainstCouples DEF EncoderPltPairs1, Layouts, PltLayouts
<1>13. EncoderPltPairs2 \subseteq Couples
  BY AgainstCouples DEF EncoderPltPairs2, Layouts, PltLayouts
<1>14. EncoderPltPairs3 \subseteq Couples
  BY AgainstCouples DEF EncoderPltPairs3, Layouts, PltLayouts
<1>15. EncoderPltPairs4 \subseteq Couples
  BY AgainstCouples DEF EncoderPltPairs4, Layouts, PltLayouts
<1>16. EncoderPltPairs5 \subseteq Couples
  BY AgainstCouples DEF EncoderPltPairs5, Layouts, PltLayouts
<1>17. EncoderPltPairs6 \subseteq Couples
  BY AgainstCouples DEF EncoderPltPairs6, Layouts, PltLayouts
<1>18. EncoderPltPairs7 \subseteq Couples
  BY AgainstCouples DEF EncoderPltPairs7, Layouts, PltLayouts
<1>19. EncoderPltPairs8 \subseteq Couples
  BY AgainstCouples DEF EncoderPltPairs8, Layouts, PltLayouts
<1>20. EncoderPltPairs9 \subseteq Couples
  BY AgainstCouples DEF EncoderPltPairs9, Layouts, PltLayouts
<1> QED BY <1>1, <1>2, <1>3, <1>4, <1>5, <1>6, <1>7, <1>8, <1>9, <1>10,
          <1>11, <1>12, <1>13, <1>14, <1>15, <1>16, <1>17, <1>18, <1>19, <1>20 DEF EncoderExcludes

LEMMA FiveFinite == ASSUME NEW a, NEW b, NEW c, NEW d, NEW e PROVE IsFiniteSet({a, b, c, d, e})
<1>1. IsFiniteSet({a})
  BY FS_Singleton
<1>2. IsFiniteSet({a} \cup {b})
  BY <1>1, FS_AddElement
<1>3. IsFiniteSet(({a} \cup {b}) \cup {c})
  BY <1>2, FS_AddElement
<1>4. IsFiniteSet((({a} \cup {b}) \cup {c}) \cup {d})
  BY <1>3, FS_AddElement
<1>5. IsFiniteSet(((({a} \cup {b}) \cup {c}) \cup {d}) \cup {e})
  BY <1>4, FS_AddElement
<1>6. {a, b, c, d, e} = ((({a} \cup {b}) \cup {c}) \cup {d}) \cup {e}
  OBVIOUS
<1> QED BY <1>5, <1>6

LEMMA LayoutsFinite == IsFiniteSet(Layouts)
<1> DEFINE m1 == {"mpt_table_body_prefix", "mpt_asset", "mpt_asset_id8", "mpt_asset_id16",
             "mpt_asset_location0"}
           m2 == {"mpt_asset_location_ipv4", "mpt_asset_location_ipv4_nz",
             "mpt_asset_id8_location_ipv4_nz", "mpt_asset_id8_location_ipv6_nz",
             "mpt_asset_id16_location_ipv4"}
           m3 == {"mpt_asset_id16_location_ipv4_nz", "mpt_asset_id16_location_ipv6",
             "mpt_asset_id16_location_ipv6_nz", "mpt_asset_id16_descriptors4",
             "mpt_asset_id8_descriptors4"}
           m4 == {"mpt_asset_location_ipv6", "mpt_asset_location_ipv6_nz",
             "mpt_asset_id8_location_ipv4", "mpt_asset_id8_location_ipv6",
             "mpt_asset_descriptors4"}
           p5 == {"plt_table_body_prefix", "plt_delivery_info", "plt_delivery_info_ipv4",
             "plt_delivery_info_ipv4_nz", "plt_delivery_info_ipv6"}
           p6 == {"plt_delivery_info_url", "plt_delivery_info_url_3", "plt_delivery_info_url_4",
             "plt_package_entry", "plt_package_entry_id8"}
           p7 == {"plt_package_entry_ipv4", "plt_package_entry_ipv4_nz",
             "plt_package_entry_id8_location_ipv4_nz", "plt_package_entry_id8_location_ipv6_nz",
             "plt_package_entry_id8_location_ipv4"}
           p8 == {"plt_package_entry_id8_location_ipv6", "plt_package_entry_ipv6",
             "plt_package_entry_ipv6_nz", "plt_package_entry_ipv6", "plt_package_entry_ipv6_nz"}
<1>1. /\ IsFiniteSet(m1)
      /\ IsFiniteSet(m2)
      /\ IsFiniteSet(m3)
      /\ IsFiniteSet(m4)
      /\ IsFiniteSet(p5)
      /\ IsFiniteSet(p6)
      /\ IsFiniteSet(p7)
      /\ IsFiniteSet(p8)
  BY FiveFinite
<1>2. MptLayouts = ((m1 \cup m2) \cup m3) \cup m4
  BY DEF MptLayouts
<1>3. PltLayouts = ((p5 \cup p6) \cup p7) \cup p8
  BY DEF PltLayouts
<1> HIDE DEF m1, m2, m3, m4, p5, p6, p7, p8
<1>4. IsFiniteSet((m1 \cup m2) \cup m3) /\ IsFiniteSet((p5 \cup p6) \cup p7)
  <2>1. IsFiniteSet(m1 \cup m2) /\ IsFiniteSet(p5 \cup p6)
    BY <1>1, FS_Union
  <2> QED BY <1>1, <2>1, FS_Union
<1>5. IsFiniteSet(MptLayouts) /\ IsFiniteSet(PltLayouts)
  BY <1>1, <1>2, <1>3, <1>4, FS_Union
<1> QED BY <1>5, FS_Union DEF Layouts

LEMMA LoneLayoutNotExcluded ==
  ASSUME NEW flags, Cardinality(LayoutsOn(flags)) <= 1
  PROVE  ~Excluded(EncoderExcludes, flags)
<1> SUFFICES ASSUME NEW pair \in EncoderExcludes, pair \subseteq flags PROVE FALSE
  BY DEF Excluded
<1>1. PICK f \in pair, g \in pair : f # g /\ pair \subseteq Layouts
  BY EncoderExcludesCouples DEF Couples
<1> DEFINE two == {f} \cup {g}
<1>2. two \in SUBSET LayoutsOn(flags)
  BY <1>1 DEF LayoutsOn
<1>3. IsFiniteSet(LayoutsOn(flags))
  BY LayoutsFinite, FS_Intersection DEF LayoutsOn
<1>4. Cardinality(two) = 2
  <2>1. Cardinality({f}) = 1 /\ IsFiniteSet({f}) /\ g \notin {f}
    BY <1>1, FS_Singleton
  <2>2. Cardinality({f} \cup {g}) = Cardinality({f}) + 1
    BY <2>1, FS_AddElement
  <2> QED BY <2>1, <2>2
<1> HIDE DEF two
<1>5. Cardinality(two) <= Cardinality(LayoutsOn(flags)) /\ Cardinality(LayoutsOn(flags)) \in Nat
  BY <1>2, <1>3, FS_Subset, FS_CardinalityType
<1> QED BY <1>4, <1>5

\* The shape of the configuration made of an option record.
LEMMA ConfigFields ==
  ASSUME NEW o
  PROVE  LET c == Config(o) IN
         /\ c.flags = ConfigFlags(o)
         /\ c.payload_type = o.payload_type /\ c.message_id = o.message_id
         /\ c.extensions = (IF "word0" \in c.flags THEN Extensions(o) ELSE <<>>)
         /\ c.rows = (IF "pa" \in c.flags THEN o.rows ELSE <<>>)
         /\ c.sig.aggregation = ("signalling" \in c.flags /\ "sig" \in o.aggregations)
         /\ c.sig.wide = o.wide
         /\ c.sig.bodies = (IF "signalling" \in c.flags THEN o.sig_hex ELSE <<>>)
         /\ c.iso.aggregation = ("isobmff" \in c.flags /\ "iso" \in o.aggregations)
         /\ c.iso.timed = o.timed /\ c.iso.fragment_type = o.fragment_type
         /\ c.iso.bodies = (IF "isobmff" \in c.flags THEN o.iso_hex ELSE <<>>)
         /\ c.gfd_reserved = o.gfd_reserved
         /\ c.lct = LctConfig(o)
BY DEF Config

LEMMA LctParts ==
  ASSUME NEW o
  PROVE  LET l == LctConfig(o) IN
         /\ l.tsi = ("tsi" \in o.flags)
         /\ l.toi = ("toi" \in o.flags)
         /\ l.words = 1 + Cardinality({"tsi", "toi"} \cap o.flags)
BY DEF LctConfig

LEMMA LctKnownHere ==
  ASSUME NEW o \in Options, NEW c, c.lct = LctConfig(o)
  PROVE  LctOctets(c) \in {4, 8, 12}
<1> DEFINE ids == {"tsi", "toi"} \cap o.flags
<1>5. c.lct.words = 1 + Cardinality(ids)
  BY LctParts
<1>6. c.lct.tsi = ("tsi" \in o.flags) /\ c.lct.toi = ("toi" \in o.flags)
  BY LctParts, Zenon
<1> HIDE DEF ids
<1>1. CASE "tsi" \in o.flags /\ "toi" \in o.flags
  <2>1. ids = {"tsi"} \cup {"toi"}
    BY <1>1 DEF ids
  <2>2. Cardinality({"tsi"}) = 1 /\ IsFiniteSet({"tsi"}) /\ "toi" \notin {"tsi"}
    BY FS_Singleton
  <2>3. Cardinality({"tsi"} \cup {"toi"}) = 2
    BY <2>2, FS_AddElement
  <2>4. c.lct.words = 3
    BY <1>5, <2>1, <2>3
  <2> QED BY <1>6, <1>1, <2>4 DEF LctOctets
<1>2. CASE "tsi" \in o.flags /\ "toi" \notin o.flags
  <2>1. ids = {"tsi"}
    BY <1>2 DEF ids
  <2>2. Cardinality({"tsi"}) = 1
    BY FS_Singleton
  <2>3. c.lct.words = 2
    BY <1>5, <2>1, <2>2
  <2> QED BY <1>6, <1>2, <2>3 DEF LctOctets
<1>3. CASE "tsi" \notin o.flags /\ "toi" \in o.flags
  <2>1. ids = {"toi"}
    BY <1>3 DEF ids
  <2>2. Cardinality({"toi"}) = 1
    BY FS_Singleton
  <2>3. c.lct.words = 2
    BY <1>5, <2>1, <2>2
  <2> QED BY <1>6, <1>3, <2>3 DEF LctOctets
<1>4. CASE "tsi" \notin o.flags /\ "toi" \notin o.flags
  <2>1. ids = {}
    BY <1>4 DEF ids
  <2>2. Cardinality({}) = 0
    BY FS_EmptySet
  <2>3. c.lct.words = 1
    BY <1>5, <2>1, <2>2
  <2> QED BY <1>6, <1>4, <2>3 DEF LctOctets
<1> QED BY <1>1, <1>2, <1>3, <1>4

\* A command line that is accepted leads to a configuration that has what it asks
\* for and that the encoder does not refuse as such, but for two layouts at once.
THEOREM AcceptedConfigHonours ==
  ASSUME NEW o \in Options, Accepted(o)
  PROVE  Honours(Config(o), o)
<1> DEFINE F == o.flags
           c == Config(o)
<1>1. /\ c.flags = ConfigFlags(o)
      /\ F \cap (PrependFlags \cup TableBodies \cup Layouts) \subseteq c.flags
      /\ c.flags \subseteq F
  BY FlagsKept, ConfigFields
<1>2. /\ c.payload_type = o.payload_type /\ c.message_id = o.message_id
      /\ c.extensions = (IF "word0" \in c.flags THEN Extensions(o) ELSE <<>>)
      /\ c.rows = (IF "pa" \in c.flags THEN o.rows ELSE <<>>)
      /\ c.sig.aggregation = ("signalling" \in c.flags /\ "sig" \in o.aggregations)
      /\ c.sig.bodies = (IF "signalling" \in c.flags THEN o.sig_hex ELSE <<>>)
      /\ c.iso.aggregation = ("isobmff" \in c.flags /\ "iso" \in o.aggregations)
      /\ c.iso.fragment_type = o.fragment_type
      /\ c.iso.bodies = (IF "isobmff" \in c.flags THEN o.iso_hex ELSE <<>>)
      /\ c.gfd_reserved = o.gfd_reserved
      /\ c.lct = LctConfig(o)
  BY ConfigFields
<1> HIDE DEF c
<1>3. \A f \in PrependFlags \cup TableBodies : f \in c.flags <=> f \in F
  BY <1>1
<1>4. /\ "word0" \in c.flags <=> "word0" \in F
      /\ "ts_psn" \in c.flags <=> "ts_psn" \in F
      /\ "counter" \in c.flags <=> "counter" \in F
      /\ "signalling" \in c.flags <=> "signalling" \in F
      /\ "isobmff" \in c.flags <=> "isobmff" \in F
      /\ "gfd" \in c.flags <=> "gfd" \in F
      /\ "du_header" \in c.flags <=> "du_header" \in F
      /\ "pa" \in c.flags <=> "pa" \in F
      /\ "message" \in c.flags <=> "message" \in F
      /\ "mpt_table_body" \in c.flags <=> "mpt_table_body" \in F
      /\ "plt_table_body" \in c.flags <=> "plt_table_body" \in F
  BY <1>3 DEF PrependFlags, TableBodies
<1>5. "extension" \in F <=> c.extensions # <<>>
  <2>1. "extension" \in F => "word0" \in F
    BY DEF Accepted, HeaderAccepted, Needs
  <2>2. "extension" \in F => Extensions(o) # <<>>
    BY DEF Extensions
  <2>3. "extension" \notin F => Extensions(o) = <<>>
    BY DEF Extensions
  <2> QED BY <1>2, <1>4, <2>1, <2>2, <2>3
<1>6. c.rows = o.rows /\ c.sig.bodies = o.sig_hex /\ c.iso.bodies = o.iso_hex
  BY <1>2, <1>4 DEF Accepted, PaAccepted, BodiesAccepted, IsobmffAccepted
<1>7. c.sig.bodies # <<>> => c.sig.aggregation
  BY <1>2, <1>4, <1>6 DEF Accepted, BodiesAccepted
<1>8. c.iso.bodies # <<>> <=> c.iso.aggregation
  BY <1>2, <1>4, <1>6 DEF Accepted, IsobmffAccepted
<1>9. "pa" \in c.flags => "message" \in c.flags /\ c.message_id = 0
  BY <1>2, <1>4 DEF Accepted, PaAccepted
<1>10. PrefixesAgree(c)
  <2>1. ~On(c, "word0") => c.flags \cap {"ts_psn", "counter", "signalling", "isobmff", "gfd"} = {}
    BY <1>4 DEF On, Accepted, HeaderAccepted, SignallingAccepted, ModesAccepted, Needs
  <2>2. ~On(c, "word0") => c.extensions = <<>>
    BY <1>2 DEF On
  <2>3. /\ ~({"isobmff", "signalling"} \subseteq c.flags)
        /\ ~({"gfd", "signalling"} \subseteq c.flags)
        /\ ~({"gfd", "isobmff"} \subseteq c.flags)
    BY <1>4 DEF Accepted, ModesAccepted, Apart
  <2>4. /\ On(c, "isobmff") => c.payload_type = 0
        /\ On(c, "gfd") => c.payload_type = 1 /\ c.gfd_reserved <= 31
    BY <1>2, <1>4 DEF On, Accepted, HeaderAccepted, ModesAccepted, GfdAccepted, Needs
  <2>5. /\ On(c, "du_header") => On(c, "isobmff") /\ c.iso.fragment_type = 2
        /\ On(c, "counter") => On(c, "ts_psn")
    BY <1>2, <1>4 DEF On, Accepted, DuHeaderAccepted, HeaderAccepted, Needs
  <2> QED BY <2>1, <2>2, <2>3, <2>4, <2>5 DEF PrefixesAgree, OnAny
<1>11. SuffixAgrees(c)
  <2>1. ASSUME NEW f \in SiSuffix, f \in F
        PROVE  {"signalling", "word0"} \subseteq F /\ o.payload_type = 2 /\ "sig" \notin o.aggregations
    BY <2>1 DEF Accepted, SuffixAccepted, MessageAccepted, PaAccepted, SiSuffix
  <2>2. OnAny(c, SiSuffix) => \E f \in SiSuffix : f \in F
    BY <1>1 DEF OnAny
  <2>3. "sig" \notin o.aggregations => ~c.sig.aggregation /\ c.sig.bodies = <<>>
    BY <1>2, <1>7
  <2> QED BY <1>2, <1>4, <2>1, <2>2, <2>3 DEF SuffixAgrees, On
<1>12. Cardinality(LayoutsOn(c.flags)) <= 1 => LayoutsAgree(c)
  <2>1. BodyRequired(c.flags)
    <3>1. BodyRequired(F)
      BY DEF Accepted, LayoutsAccepted
    <3> QED BY <1>1, <1>4, <3>1 DEF BodyRequired
  <2>2. ~({"mpt_table_body", "plt_table_body"} \subseteq c.flags)
    BY <1>4 DEF Accepted, TablesAccepted, Apart
  <2> QED BY <2>1, <2>2, LoneLayoutNotExcluded DEF LayoutsAgree
<1>13. LctKnown(c)
  BY <1>2, LctKnownHere DEF LctKnown
<1> QED BY <1>1, <1>5, <1>6, <1>7, <1>8, <1>9, <1>10, <1>11, <1>12, <1>13 DEF Honours, On, c

----------------------------------------------------------------------------
(* Octets on the wire *)

Kinds ==
  LengthKinds \cup {"word0", "ts_psn", "counter", "signalling", "du_header", "gfd", "pa",
                   "lct", "payload"}
Marks == {"X", "C", "A", "T", "2"}
Segs == [kind : Kinds, octets : Nat, says : Nat, marks : SUBSET Marks]
Wires == Seq(Segs)

Sizes(wire) == [i \in DOMAIN wire |-> wire[i].octets]
InsideSizes(wire) == [i \in DOMAIN wire |-> IF wire[i].kind = "lct" THEN 0 ELSE wire[i].octets]
NoLct(wire) == \A i \in DOMAIN wire : wire[i].kind # "lct"

\* A sequence made of another one, member by member.
LEMMA Mapped ==
  ASSUME NEW S, NEW T, NEW u \in Seq(T), NEW f, f = [i \in DOMAIN u |-> f[i]],
         \A i \in DOMAIN u : f[i] \in S
  PROVE  f \in Seq(S) /\ Len(f) = Len(u) /\ DOMAIN f = 1..Len(u)
<1>1. DOMAIN u = 1..Len(u) /\ Len(u) \in Nat
  OBVIOUS
<1>2. f \in [1..Len(u) -> S]
  BY <1>1
<1> QED BY <1>1, <1>2

LEMMA SizesType ==
  ASSUME NEW wire \in Wires
  PROVE  /\ Sizes(wire) \in Seq(Nat) /\ Len(Sizes(wire)) = Len(wire)
         /\ InsideSizes(wire) \in Seq(Nat) /\ Len(InsideSizes(wire)) = Len(wire)
<1>1. \A i \in DOMAIN wire : wire[i] \in Segs
  BY DEF Wires
<1>2. /\ \A i \in DOMAIN wire : Sizes(wire)[i] \in Nat /\ InsideSizes(wire)[i] \in Nat
      /\ Sizes(wire) = [i \in DOMAIN wire |-> Sizes(wire)[i]]
      /\ InsideSizes(wire) = [i \in DOMAIN wire |-> InsideSizes(wire)[i]]
  BY <1>1 DEF Segs, Sizes, InsideSizes
<1> QED BY <1>2, Mapped DEF Wires

LEMMA ConcatIs ==
  ASSUME NEW S, NEW a \in Seq(S), NEW b \in Seq(S), NEW h \in Seq(S),
         Len(h) = Len(a) + Len(b),
         \A i \in 1..Len(a) : h[i] = a[i],
         \A i \in 1..Len(b) : h[Len(a) + i] = b[i]
  PROVE  h = a \o b
<1>1. /\ a \o b \in Seq(S) /\ Len(a \o b) = Len(a) + Len(b)
      /\ \A i \in 1..Len(a) + Len(b) : (a \o b)[i] = IF i <= Len(a) THEN a[i] ELSE b[i - Len(a)]
  BY ConcatProperties
<1>2. ASSUME NEW i \in 1..Len(h) PROVE h[i] = (a \o b)[i]
  <2>1. i \in 1..Len(a) + Len(b) /\ Len(a) \in Nat /\ Len(b) \in Nat
    OBVIOUS
  <2>2. CASE i <= Len(a)
    <3>1. i \in 1..Len(a)
      BY <2>1, <2>2
    <3> QED BY <1>1, <2>1, <2>2, <3>1
  <2>3. CASE ~(i <= Len(a))
    <3>1. i - Len(a) \in 1..Len(b) /\ Len(a) + (i - Len(a)) = i
      BY <2>1, <2>3
    <3>2. h[i] = b[i - Len(a)]
      BY <3>1
    <3> QED BY <1>1, <2>1, <2>3, <3>2
  <2> QED BY <2>2, <2>3
<1>3. Len(h) = Len(a \o b)
  BY <1>1
<1> QED BY <1>1, <1>2, <1>3, SeqEqual

LEMMA ConcatFacts ==
  ASSUME NEW a \in Wires, NEW b \in Wires
  PROVE  /\ a \o b \in Wires /\ Len(a) \in Nat /\ Len(b) \in Nat
         /\ Len(a \o b) = Len(a) + Len(b)
         /\ DOMAIN a = 1..Len(a) /\ DOMAIN b = 1..Len(b)
         /\ DOMAIN (a \o b) = 1..Len(a) + Len(b)
         /\ \A i \in 1..Len(a) : (a \o b)[i] = a[i]
         /\ \A i \in 1..Len(b) : (a \o b)[Len(a) + i] = b[i]
<1>1. /\ a \o b \in Wires /\ Len(a \o b) = Len(a) + Len(b)
      /\ \A i \in 1..Len(a) + Len(b) : (a \o b)[i] = IF i <= Len(a) THEN a[i] ELSE b[i - Len(a)]
  BY ConcatProperties DEF Wires
<1>2. Len(a) \in Nat /\ Len(b) \in Nat /\ DOMAIN a = 1..Len(a) /\ DOMAIN b = 1..Len(b)
  BY DEF Wires
<1>3. DOMAIN (a \o b) = 1..Len(a) + Len(b)
  BY <1>1 DEF Wires
<1> HIDE DEF Wires
<1>4. \A i \in 1..Len(a) : i \in 1..Len(a) + Len(b) /\ i <= Len(a)
  BY <1>2
<1>5. \A i \in 1..Len(b) : /\ Len(a) + i \in 1..Len(a) + Len(b)
                           /\ ~(Len(a) + i <= Len(a)) /\ (Len(a) + i) - Len(a) = i
  BY <1>2
<1> QED BY <1>1, <1>2, <1>3, <1>4, <1>5

LEMMA SizesConcat ==
  ASSUME NEW a \in Wires, NEW b \in Wires
  PROVE  /\ Sizes(a \o b) = Sizes(a) \o Sizes(b)
         /\ InsideSizes(a \o b) = InsideSizes(a) \o InsideSizes(b)
<1> DEFINE ab == a \o b
           m == Len(a)
           n == Len(b)
<1>1. /\ ab \in Wires /\ m \in Nat /\ n \in Nat /\ Len(ab) = m + n
      /\ DOMAIN ab = 1..m + n /\ DOMAIN a = 1..m /\ DOMAIN b = 1..n
      /\ \A i \in 1..m : ab[i] = a[i]
      /\ \A i \in 1..n : ab[m + i] = b[i]
  BY ConcatFacts
<1>2. /\ \A i \in 1..m : i \in 1..m + n
      /\ \A i \in 1..n : m + i \in 1..m + n
  BY <1>1
<1> HIDE DEF ab, m, n
<1>3. /\ Sizes(ab) \in Seq(Nat) /\ Len(Sizes(ab)) = m + n
      /\ Sizes(a) \in Seq(Nat) /\ Len(Sizes(a)) = m
      /\ Sizes(b) \in Seq(Nat) /\ Len(Sizes(b)) = n
      /\ InsideSizes(ab) \in Seq(Nat) /\ Len(InsideSizes(ab)) = m + n
      /\ InsideSizes(a) \in Seq(Nat) /\ Len(InsideSizes(a)) = m
      /\ InsideSizes(b) \in Seq(Nat) /\ Len(InsideSizes(b)) = n
  BY <1>1, SizesType DEF m, n
<1>4. /\ \A i \in 1..m : Sizes(ab)[i] = Sizes(a)[i] /\ InsideSizes(ab)[i] = InsideSizes(a)[i]
      /\ \A i \in 1..n : Sizes(ab)[m + i] = Sizes(b)[i] /\ InsideSizes(ab)[m + i] = InsideSizes(b)[i]
  BY <1>1, <1>2 DEF Sizes, InsideSizes
<1>5. ASSUME NEW f \in Seq(Nat), NEW g \in Seq(Nat), NEW h \in Seq(Nat),
             Len(f) = m, Len(g) = n, Len(h) = m + n,
             \A i \in 1..m : h[i] = f[i], \A i \in 1..n : h[m + i] = g[i]
      PROVE  h = f \o g
  <2>1. /\ Len(h) = Len(f) + Len(g)
        /\ \A i \in 1..Len(f) : h[i] = f[i]
        /\ \A i \in 1..Len(g) : h[Len(f) + i] = g[i]
    BY <1>5
  <2> QED BY <2>1, ConcatIs, Zenon
<1>6. Sizes(ab) = Sizes(a) \o Sizes(b)
  BY <1>3, <1>4, <1>5, Zenon
<1>7. InsideSizes(ab) = InsideSizes(a) \o InsideSizes(b)
  BY <1>3, <1>4, <1>5, Zenon
<1> QED BY <1>6, <1>7 DEF ab

LEMMA OctetsAre ==
  ASSUME NEW wire \in Wires
  PROVE  /\ Octets(wire) = SumFunction(Sizes(wire)) /\ Octets(wire) \in Nat
         /\ InsideOctets(wire) = SumFunction(InsideSizes(wire)) /\ InsideOctets(wire) \in Nat
<1>1. Octets(wire) = SumFunction(Sizes(wire)) /\ InsideOctets(wire) = SumFunction(InsideSizes(wire))
  BY DEF Octets, InsideOctets, Sizes, InsideSizes
<1> QED BY <1>1, SizesType, SeqSumNat

LEMMA OctetsConcat ==
  ASSUME NEW a \in Wires, NEW b \in Wires
  PROVE  /\ a \o b \in Wires
         /\ Octets(a \o b) = Octets(a) + Octets(b)
         /\ InsideOctets(a \o b) = InsideOctets(a) + InsideOctets(b)
<1>1. /\ a \o b \in Wires
      /\ Sizes(a \o b) = Sizes(a) \o Sizes(b)
      /\ InsideSizes(a \o b) = InsideSizes(a) \o InsideSizes(b)
  BY SizesConcat, ConcatFacts
<1>2. SumFunction(Sizes(a) \o Sizes(b)) = SumFunction(Sizes(a)) + SumFunction(Sizes(b))
  BY SizesType, SeqSumConcat
<1>3. SumFunction(InsideSizes(a) \o InsideSizes(b))
        = SumFunction(InsideSizes(a)) + SumFunction(InsideSizes(b))
  BY SizesType, SeqSumConcat
<1>4. /\ Octets(a \o b) = SumFunction(Sizes(a \o b))
      /\ InsideOctets(a \o b) = SumFunction(InsideSizes(a \o b))
      /\ Octets(a) = SumFunction(Sizes(a)) /\ InsideOctets(a) = SumFunction(InsideSizes(a))
      /\ Octets(b) = SumFunction(Sizes(b)) /\ InsideOctets(b) = SumFunction(InsideSizes(b))
  BY <1>1, OctetsAre
<1> QED BY <1>1, <1>2, <1>3, <1>4

LEMMA OctetsEmpty == <<>> \in Wires /\ Octets(<<>>) = 0 /\ InsideOctets(<<>>) = 0
<1>1. <<>> \in Wires
  BY DEF Wires
<1>2. Sizes(<<>>) = <<>> /\ InsideSizes(<<>>) = <<>>
  <2>1. DOMAIN <<>> = {}
    OBVIOUS
  <2>2. Sizes(<<>>) = [i \in {} |-> 0] /\ InsideSizes(<<>>) = [i \in {} |-> 0]
    BY <2>1 DEF Sizes, InsideSizes
  <2>3. [i \in {} |-> 0] = <<>>
    OBVIOUS
  <2> QED BY <2>2, <2>3
<1> QED BY <1>1, <1>2, OctetsAre, SeqSumEmpty

LEMMA OctetsOne ==
  ASSUME NEW seg \in Segs
  PROVE  /\ <<seg>> \in Wires
         /\ Octets(<<seg>>) = seg.octets
         /\ InsideOctets(<<seg>>) = (IF seg.kind = "lct" THEN 0 ELSE seg.octets)
<1>1. <<seg>> \in Wires
  BY DEF Wires
<1>2. ASSUME NEW n \in Nat PROVE SumFunction(<<n>>) = n
  <2>1. <<n>> = Append(<<>>, n) /\ <<>> \in Seq(Nat)
    OBVIOUS
  <2>2. SumFunction(Append(<<>>, n)) = SumFunction(<<>>) + n
    BY <2>1, SeqSumAppend
  <2>3. SumFunction(<<n>>) = 0 + n
    BY <2>1, <2>2, SeqSumEmpty
  <2> QED BY <2>3
<1>3. seg.octets \in Nat
  BY DEF Segs
<1>4. Sizes(<<seg>>) = <<seg.octets>>
  BY DEF Sizes
<1>5. InsideSizes(<<seg>>) = <<IF seg.kind = "lct" THEN 0 ELSE seg.octets>>
  BY DEF InsideSizes
<1> QED BY <1>1, <1>2, <1>3, <1>4, <1>5, OctetsAre

\* No part is larger than the whole.
LEMMA OctetsOfPart ==
  ASSUME NEW wire \in Wires, NEW i \in DOMAIN wire
  PROVE  wire[i].octets <= Octets(wire)
<1> DEFINE u == Sizes(wire)
<1>1. u \in Seq(Nat) /\ DOMAIN u = DOMAIN wire /\ u[i] = wire[i].octets
  BY SizesType DEF Sizes
<1> HIDE DEF u
<1>2. IsFiniteSet(DOMAIN u) /\ \A j \in DOMAIN u : u[j] \in Nat
  <2>1. IsFiniteSet(1..Len(u)) /\ DOMAIN u = 1..Len(u)
    BY <1>1, FS_Interval
  <2> QED BY <1>1, <2>1
<1>3. SumFunctionOnSet(u, DOMAIN u) = u[i] + SumFunctionOnSet(u, DOMAIN u \ {i})
  BY <1>1, <1>2, SumRemove
<1>4. SumFunctionOnSet(u, DOMAIN u \ {i}) \in Nat
  <2>1. IsFiniteSet(DOMAIN u \ {i})
    BY <1>2, FS_Difference
  <2> QED BY <1>2, <2>1, SumNat
<1>5. Octets(wire) = SumFunctionOnSet(u, DOMAIN u)
  BY OctetsAre DEF SumFunction, u
<1>6. u[i] \in Nat
  BY <1>1, <1>2
<1> QED BY <1>1, <1>3, <1>4, <1>5, <1>6

LEMMA InsideIsAll ==
  ASSUME NEW wire \in Wires, NoLct(wire)
  PROVE  InsideOctets(wire) = Octets(wire)
<1>1. InsideSizes(wire) = Sizes(wire)
  BY DEF InsideSizes, Sizes, NoLct
<1> QED BY <1>1, OctetsAre

LEMMA NoLctConcat ==
  ASSUME NEW a \in Wires, NEW b \in Wires, NoLct(a), NoLct(b)
  PROVE  NoLct(a \o b)
BY DEF NoLct, Wires

----------------------------------------------------------------------------
(* What length fields say *)

\* the length fields of wire are right when tail follows it
ExactIn(c, wire, tail) ==
  \A i \in DOMAIN wire :
    wire[i].kind \in LengthKinds =>
      wire[i].says = CoveredOctets(c, wire[i], SubSeq(wire, i + 1, Len(wire)) \o tail)

\* a segment whose length field says what it holds itself
OwnLength(c, seg) ==
  seg.kind \in LengthKinds =>
    /\ seg.kind \in {"extension", "body", "du"}
    /\ seg.says = seg.octets - (IF seg.kind = "extension" \/ (seg.kind = "body" /\ c.sig.wide)
                                THEN 4 ELSE 2)

LEMMA From ==
  ASSUME NEW wire \in Wires, NEW i \in 0..Len(wire)
  PROVE  LET after == SubSeq(wire, i + 1, Len(wire)) IN
         /\ after \in Wires
         /\ Len(after) = Len(wire) - i
         /\ \A j \in 1..Len(wire) - i : after[j] = wire[i + j]
<1>1. Len(wire) \in Nat /\ i + 1 \in Int /\ \A j \in i + 1..Len(wire) : wire[j] \in Segs
  BY DEF Wires
<1>2. /\ SubSeq(wire, i + 1, Len(wire)) \in Seq(Segs)
      /\ Len(SubSeq(wire, i + 1, Len(wire)))
           = IF i + 1 <= Len(wire) THEN Len(wire) - (i + 1) + 1 ELSE 0
      /\ \A j \in 1..Len(wire) - (i + 1) + 1 :
            SubSeq(wire, i + 1, Len(wire))[j] = wire[(i + 1) + j - 1]
  BY <1>1, SubSeqProperties
<1>3. /\ Len(wire) - (i + 1) + 1 = Len(wire) - i
      /\ \A j \in 1..Len(wire) - i : (i + 1) + j - 1 = i + j
      /\ ~(i + 1 <= Len(wire)) => Len(wire) - i = 0
  BY <1>1
<1> QED BY <1>2, <1>3 DEF Wires

LEMMA SegmentsAfter ==
  ASSUME NEW a \in Wires, NEW b \in Wires, NEW t \in Wires
  PROVE  /\ \A i \in DOMAIN a :
              SubSeq(a \o b, i + 1, Len(a \o b)) \o t = SubSeq(a, i + 1, Len(a)) \o (b \o t)
         /\ \A i \in DOMAIN b :
              SubSeq(a \o b, (Len(a) + i) + 1, Len(a \o b)) = SubSeq(b, i + 1, Len(b))
<1> DEFINE m == Len(a)
           n == Len(b)
           ab == a \o b
<1>1. /\ ab \in Wires /\ m \in Nat /\ n \in Nat /\ Len(ab) = m + n
      /\ DOMAIN ab = 1..m + n /\ DOMAIN a = 1..m /\ DOMAIN b = 1..n
      /\ \A i \in 1..m : ab[i] = a[i]
      /\ \A i \in 1..n : ab[m + i] = b[i]
  BY ConcatFacts
<1> HIDE DEF ab
<1>2. ASSUME NEW i \in 1..m
      PROVE  SubSeq(ab, i + 1, m + n) = SubSeq(a, i + 1, m) \o b
  <2> DEFINE h == SubSeq(ab, i + 1, m + n)
             f == SubSeq(a, i + 1, m)
  <2>1. /\ h \in Wires /\ Len(h) = (m - i) + n
        /\ \A j \in 1..(m - i) + n : h[j] = ab[i + j]
    <3>1. i \in 0..Len(ab) /\ Len(ab) - i = (m - i) + n
      BY <1>1
    <3>2. h = SubSeq(ab, i + 1, Len(ab))
      BY <1>1
    <3> HIDE DEF h
    <3>3. h \in Wires /\ Len(h) = Len(ab) - i /\ \A j \in 1..Len(ab) - i : h[j] = ab[i + j]
      BY <1>1, <3>1, <3>2, From
    <3> QED BY <3>1, <3>3
  <2>2. /\ f \in Wires /\ Len(f) = m - i
        /\ \A j \in 1..m - i : f[j] = a[i + j]
    <3>1. i \in 0..Len(a)
      BY <1>1
    <3> QED BY <3>1, From
  <2>3. /\ \A j \in 1..m - i : j \in 1..(m - i) + n /\ i + j \in 1..m
        /\ \A j \in 1..n : (m - i) + j \in 1..(m - i) + n /\ i + ((m - i) + j) = m + j
    BY <1>1
  <2> HIDE DEF h, f
  <2>4. /\ \A j \in 1..Len(f) : h[j] = f[j]
        /\ \A j \in 1..Len(b) : h[Len(f) + j] = b[j]
    BY <1>1, <2>1, <2>2, <2>3
  <2>5. Len(h) = Len(f) + Len(b)
    BY <2>1, <2>2
  <2>6. h = f \o b
    BY <2>1, <2>2, <2>4, <2>5, ConcatIs, Zenon DEF Wires
  <2> QED BY <2>6 DEF h, f
<1>3. ASSUME NEW i \in 1..n
      PROVE  SubSeq(ab, (m + i) + 1, m + n) = SubSeq(b, i + 1, n)
  <2> DEFINE h == SubSeq(ab, (m + i) + 1, m + n)
             f == SubSeq(b, i + 1, n)
  <2>1. /\ h \in Wires /\ Len(h) = n - i
        /\ \A j \in 1..n - i : h[j] = ab[(m + i) + j]
    <3>1. m + i \in 0..Len(ab) /\ Len(ab) - (m + i) = n - i
      BY <1>1
    <3>2. h = SubSeq(ab, (m + i) + 1, Len(ab))
      BY <1>1
    <3> HIDE DEF h
    <3>3. /\ h \in Wires /\ Len(h) = Len(ab) - (m + i)
          /\ \A j \in 1..Len(ab) - (m + i) : h[j] = ab[(m + i) + j]
      BY <1>1, <3>1, <3>2, From
    <3> QED BY <3>1, <3>3
  <2>2. /\ f \in Wires /\ Len(f) = n - i
        /\ \A j \in 1..n - i : f[j] = b[i + j]
    <3>1. i \in 0..Len(b)
      BY <1>1
    <3> QED BY <3>1, From
  <2>3. \A j \in 1..n - i : i + j \in 1..n /\ (m + i) + j = m + (i + j)
    BY <1>1
  <2> HIDE DEF h, f
  <2>4. Len(h) = Len(f) /\ \A j \in 1..Len(h) : h[j] = f[j]
    BY <1>1, <2>1, <2>2, <2>3
  <2>5. h = f
    BY <2>1, <2>2, <2>4, SeqEqual, Zenon DEF Wires
  <2> QED BY <2>5 DEF h, f
<1>5. ASSUME NEW x \in Wires PROVE (x \o b) \o t = x \o (b \o t)
  BY ConcatAssociative DEF Wires
<1>4. ASSUME NEW i \in 1..m
      PROVE  (SubSeq(a, i + 1, m) \o b) \o t = SubSeq(a, i + 1, m) \o (b \o t)
  <2>1. SubSeq(a, i + 1, m) \in Wires
    <3>1. i \in 0..Len(a)
      BY <1>1
    <3> QED BY <3>1, From
  <2> QED BY <2>1, <1>5
<1> QED BY <1>1, <1>2, <1>3, <1>4 DEF ab

LEMMA ExactConcat ==
  ASSUME NEW c, NEW a \in Wires, NEW b \in Wires, NEW t \in Wires,
         ExactIn(c, a, b \o t), ExactIn(c, b, t)
  PROVE  ExactIn(c, a \o b, t)
<1> DEFINE ab == a \o b
<1> SUFFICES ASSUME NEW i \in DOMAIN ab, ab[i].kind \in LengthKinds
             PROVE  ab[i].says = CoveredOctets(c, ab[i], SubSeq(ab, i + 1, Len(ab)) \o t)
  BY DEF ExactIn
<1>1. /\ Len(a) \in Nat /\ Len(b) \in Nat
      /\ DOMAIN a = 1..Len(a) /\ DOMAIN b = 1..Len(b) /\ DOMAIN ab = 1..Len(a) + Len(b)
      /\ \A j \in 1..Len(a) : ab[j] = a[j]
      /\ \A j \in 1..Len(b) : ab[Len(a) + j] = b[j]
  BY ConcatFacts
<1>2. CASE i \in DOMAIN a
  <2>1. SubSeq(ab, i + 1, Len(ab)) \o t = SubSeq(a, i + 1, Len(a)) \o (b \o t)
    BY <1>2, SegmentsAfter
  <2>2. ab[i] = a[i]
    BY <1>1, <1>2
  <2> QED BY <1>2, <2>1, <2>2 DEF ExactIn
<1>3. CASE i \notin DOMAIN a
  <2> DEFINE j == i - Len(a)
  <2>1. j \in DOMAIN b /\ i = Len(a) + j
    BY <1>1, <1>3
  <2>2. ab[i] = b[j]
    BY <1>1, <2>1
  <2>3. SubSeq(ab, i + 1, Len(ab)) = SubSeq(b, j + 1, Len(b))
    <3>1. SubSeq(ab, (Len(a) + j) + 1, Len(ab)) = SubSeq(b, j + 1, Len(b))
      BY <2>1, SegmentsAfter
    <3> QED BY <2>1, <3>1
  <2> HIDE DEF j, ab
  <2> QED BY <2>1, <2>2, <2>3 DEF ExactIn
<1> QED BY <1>2, <1>3

\* The same, with nothing behind.
Nothing(t) == t = <<>>

LEMMA ExactLast ==
  ASSUME NEW c, NEW a \in Wires, NEW b \in Wires, NEW t, Nothing(t),
         ExactIn(c, a, b \o t), ExactIn(c, b, t)
  PROVE  ExactIn(c, a \o b, t)
<1>1. t \in Wires
  BY OctetsEmpty DEF Nothing
<1> QED BY <1>1, ExactConcat

LEMMA ExactOne ==
  ASSUME NEW c, NEW seg \in Segs, NEW t \in Wires,
         seg.kind \in LengthKinds => seg.says = CoveredOctets(c, seg, t)
  PROVE  ExactIn(c, <<seg>>, t)
<1>1. DOMAIN <<seg>> = {1} /\ Len(<<seg>>) = 1 /\ <<seg>>[1] = seg
  OBVIOUS
<1>2. SubSeq(<<seg>>, 1 + 1, 1) \o t = t
  <2>1. SubSeq(<<seg>>, 1 + 1, 1) = <<>>
    OBVIOUS
  <2> QED BY <2>1, ConcatEmptySeq DEF Wires
<1> QED BY <1>1, <1>2 DEF ExactIn

LEMMA ExactOwn ==
  ASSUME NEW c, NEW wire \in Wires, \A i \in DOMAIN wire : OwnLength(c, wire[i]), NEW t
  PROVE  ExactIn(c, wire, t)
<1> SUFFICES ASSUME NEW i \in DOMAIN wire, wire[i].kind \in LengthKinds
             PROVE  wire[i].says
                      = CoveredOctets(c, wire[i], SubSeq(wire, i + 1, Len(wire)) \o t)
  BY DEF ExactIn
<1> DEFINE seg == wire[i]
           after == SubSeq(wire, i + 1, Len(wire)) \o t
<1>1. OwnLength(c, seg) /\ seg.kind \in LengthKinds
  OBVIOUS
<1> HIDE DEF seg, after
<1>2. CASE seg.kind = "extension"
  BY <1>1, <1>2 DEF OwnLength, CoveredOctets
<1>3. CASE seg.kind = "body"
  <2>1. CASE c.sig.wide
    BY <1>1, <1>3, <2>1 DEF OwnLength, CoveredOctets
  <2>2. CASE ~c.sig.wide
    BY <1>1, <1>3, <2>2 DEF OwnLength, CoveredOctets
  <2> QED BY <2>1, <2>2
<1>4. CASE seg.kind = "du"
  BY <1>1, <1>4 DEF OwnLength, CoveredOctets
<1> QED BY <1>1, <1>2, <1>3, <1>4 DEF OwnLength, seg, after

LEMMA ExactEmpty == ASSUME NEW c, NEW t PROVE ExactIn(c, <<>>, t)
BY DEF ExactIn

----------------------------------------------------------------------------
(* The parts of a packet *)

\* What of a configuration the lengths depend on.
Shaped(c) ==
  /\ c.payload_type \in Nat
  /\ c.extensions \in Seq(Nat)
  /\ c.rows \in Seq([id : Nat, length : Nat])
  /\ c.sig.bodies \in Seq(Nat) /\ c.iso.bodies \in Seq(Nat)
  /\ LctOctets(c) \in {4, 8, 12}

LEMMA ConfigShaped == ASSUME NEW o \in Options PROVE Shaped(Config(o))
<1> DEFINE c == Config(o)
<1>1. /\ c.payload_type = o.payload_type
      /\ c.extensions = (IF "word0" \in c.flags THEN Extensions(o) ELSE <<>>)
      /\ c.rows = (IF "pa" \in c.flags THEN o.rows ELSE <<>>)
      /\ c.sig.bodies = (IF "signalling" \in c.flags THEN o.sig_hex ELSE <<>>)
      /\ c.iso.bodies = (IF "isobmff" \in c.flags THEN o.iso_hex ELSE <<>>)
      /\ c.lct = LctConfig(o)
  BY ConfigFields
<1> HIDE DEF c
<1>2. Extensions(o) \in Seq(Nat)
  <2>1. o.ext_list \in Seq(Nat) /\ <<o.ext_hex>> \in Seq(Nat) /\ <<>> \in Seq(Nat)
    BY DEF Options
  <2> QED BY <2>1 DEF Extensions
<1>3. /\ o.rows \in Seq([id : Nat, length : Nat]) /\ <<>> \in Seq([id : Nat, length : Nat])
      /\ o.sig_hex \in Seq(Nat) /\ o.iso_hex \in Seq(Nat) /\ <<>> \in Seq(Nat)
      /\ o.payload_type \in Nat
  BY DEF Options
<1>4. LctOctets(c) \in {4, 8, 12}
  BY <1>1, LctKnownHere
<1> QED BY <1>1, <1>2, <1>3, <1>4 DEF Shaped, c

LEMMA SegType ==
  ASSUME NEW kind \in Kinds, NEW n \in Nat, NEW says \in Nat, NEW marks \in SUBSET Marks
  PROVE  /\ Seg(kind, n, says, marks) \in Segs
         /\ Seg(kind, n, says, marks).kind = kind
         /\ Seg(kind, n, says, marks).octets = n
         /\ Seg(kind, n, says, marks).says = says
         /\ Seg(kind, n, says, marks).marks = marks
BY DEF Seg, Segs

LEMMA PlainType ==
  ASSUME NEW kind \in Kinds, NEW n \in Nat, NEW says \in Nat
  PROVE  /\ Seg(kind, n, says, {}) \in Segs
         /\ Seg(kind, n, says, {}).kind = kind
         /\ Seg(kind, n, says, {}).octets = n
         /\ Seg(kind, n, says, {}).says = says
<1>1. {} \in SUBSET Marks
  OBVIOUS
<1> QED BY <1>1, SegType

LEMMA Unsigned ==
  ASSUME NEW n \in Nat
  PROVE  /\ U16(n) \in Nat /\ (n <= 65535 => U16(n) = n)
         /\ U11(n) \in Nat /\ (n <= 2047 => U11(n) = n)
<1>1. n % 65536 \in Nat /\ (n <= 65535 => n % 65536 = n)
  OBVIOUS
<1>2. n % 2048 \in Nat /\ (n <= 2047 => n % 2048 = n)
  OBVIOUS
<1> QED BY <1>1, <1>2 DEF U16, U11

LEMMA IfWire == ASSUME NEW cond, NEW wire \in Wires PROVE If(cond, wire) \in Wires
BY OctetsEmpty DEF If

LEMMA OneWire == ASSUME NEW seg \in Segs PROVE <<seg>> \in Wires /\ <<seg>>[1] = seg
BY OctetsOne

Extended(c) == [i \in DOMAIN c.extensions |-> Extension(c.extensions[i])]
SigBodies(c) == [i \in DOMAIN c.sig.bodies |-> SigBody(c, c.sig.bodies[i])]
Unit(c, n) == Seg("du", 2 + n, U16(n), {})
Units(c) == [i \in DOMAIN c.iso.bodies |-> Unit(c, DuHeader(c) + c.iso.bodies[i])]

LEMMA ExtensionIs ==
  ASSUME NEW n \in Nat
  PROVE  /\ Extension(n) \in Segs /\ Extension(n).kind = "extension"
         /\ Extension(n).octets = 4 + n /\ Extension(n).says = U16(n)
<1>1. U16(n) \in Nat /\ 4 + n \in Nat /\ "extension" \in Kinds
  BY Unsigned DEF Kinds, LengthKinds
<1> QED BY <1>1, PlainType DEF Extension

LEMMA SigBodyIs ==
  ASSUME NEW c, NEW n \in Nat
  PROVE  /\ SigBody(c, n) \in Segs /\ SigBody(c, n).kind = "body"
         /\ SigBody(c, n).octets = (IF c.sig.wide THEN 4 ELSE 2) + n
         /\ SigBody(c, n).says = IF c.sig.wide THEN n ELSE U16(n)
<1>1. U16(n) \in Nat /\ 4 + n \in Nat /\ 2 + n \in Nat /\ "body" \in Kinds
  BY Unsigned DEF Kinds, LengthKinds
<1>2. CASE c.sig.wide
  <2>1. SigBody(c, n) = Seg("body", 4 + n, n, {})
    BY <1>2 DEF SigBody
  <2> QED BY <1>1, <1>2, <2>1, PlainType
<1>3. CASE ~c.sig.wide
  <2>1. SigBody(c, n) = Seg("body", 2 + n, U16(n), {})
    BY <1>3 DEF SigBody
  <2> QED BY <1>1, <1>3, <2>1, PlainType
<1> QED BY <1>2, <1>3

LEMMA UnitIs ==
  ASSUME NEW c, NEW n \in Nat
  PROVE  /\ Unit(c, n) \in Segs /\ Unit(c, n).kind = "du"
         /\ Unit(c, n).octets = 2 + n /\ Unit(c, n).says = U16(n)
<1>1. U16(n) \in Nat /\ 2 + n \in Nat /\ "du" \in Kinds
  BY Unsigned DEF Kinds, LengthKinds
<1> QED BY <1>1, PlainType DEF Unit

LEMMA ExtendedType ==
  ASSUME NEW c, Shaped(c)
  PROVE  /\ Extended(c) \in Wires /\ DOMAIN Extended(c) = DOMAIN c.extensions
         /\ \A i \in DOMAIN c.extensions :
              /\ c.extensions[i] \in Nat
              /\ Extended(c)[i].kind = "extension"
              /\ Extended(c)[i].octets = 4 + c.extensions[i]
              /\ Extended(c)[i].says = U16(c.extensions[i])
<1>1. \A i \in DOMAIN c.extensions : c.extensions[i] \in Nat
  BY DEF Shaped
<1>2. ASSUME NEW i \in DOMAIN c.extensions
      PROVE  /\ Extended(c)[i] \in Segs
             /\ Extended(c)[i].kind = "extension"
             /\ Extended(c)[i].octets = 4 + c.extensions[i]
             /\ Extended(c)[i].says = U16(c.extensions[i])
  <2>1. Extended(c)[i] = Extension(c.extensions[i])
    BY DEF Extended
  <2> QED BY <1>1, <2>1, ExtensionIs
<1>3. Extended(c) = [i \in DOMAIN c.extensions |-> Extended(c)[i]]
  BY DEF Extended
<1>4. Extended(c) \in Seq(Segs)
  BY <1>2, <1>3, Mapped DEF Shaped
<1> QED BY <1>1, <1>2, <1>3, <1>4 DEF Wires

LEMMA SigBodiesType ==
  ASSUME NEW c, Shaped(c)
  PROVE  /\ SigBodies(c) \in Wires /\ DOMAIN SigBodies(c) = DOMAIN c.sig.bodies
         /\ \A i \in DOMAIN c.sig.bodies :
              /\ c.sig.bodies[i] \in Nat
              /\ SigBodies(c)[i].kind = "body"
              /\ SigBodies(c)[i].octets = (IF c.sig.wide THEN 4 ELSE 2) + c.sig.bodies[i]
              /\ SigBodies(c)[i].says
                   = IF c.sig.wide THEN c.sig.bodies[i] ELSE U16(c.sig.bodies[i])
<1>1. \A i \in DOMAIN c.sig.bodies : c.sig.bodies[i] \in Nat
  BY DEF Shaped
<1>2. ASSUME NEW i \in DOMAIN c.sig.bodies
      PROVE  /\ SigBodies(c)[i] \in Segs
             /\ SigBodies(c)[i].kind = "body"
             /\ SigBodies(c)[i].octets = (IF c.sig.wide THEN 4 ELSE 2) + c.sig.bodies[i]
             /\ SigBodies(c)[i].says
                  = IF c.sig.wide THEN c.sig.bodies[i] ELSE U16(c.sig.bodies[i])
  <2>1. SigBodies(c)[i] = SigBody(c, c.sig.bodies[i])
    BY DEF SigBodies
  <2> QED BY <1>1, <2>1, SigBodyIs
<1>3. SigBodies(c) = [i \in DOMAIN c.sig.bodies |-> SigBodies(c)[i]]
  BY DEF SigBodies
<1>4. SigBodies(c) \in Seq(Segs)
  BY <1>2, <1>3, Mapped DEF Shaped
<1> QED BY <1>1, <1>2, <1>3, <1>4 DEF Wires

LEMMA DuHeaderType == ASSUME NEW c PROVE DuHeader(c) \in {0, 4, 14}
BY DEF DuHeader

LEMMA UnitsType ==
  ASSUME NEW c, Shaped(c)
  PROVE  /\ Units(c) \in Wires /\ DOMAIN Units(c) = DOMAIN c.iso.bodies
         /\ \A i \in DOMAIN c.iso.bodies :
              /\ DuHeader(c) + c.iso.bodies[i] \in Nat
              /\ Units(c)[i].kind = "du"
              /\ Units(c)[i].octets = 2 + (DuHeader(c) + c.iso.bodies[i])
              /\ Units(c)[i].says = U16(DuHeader(c) + c.iso.bodies[i])
<1>1. \A i \in DOMAIN c.iso.bodies : DuHeader(c) + c.iso.bodies[i] \in Nat
  <2> SUFFICES ASSUME NEW i \in DOMAIN c.iso.bodies
               PROVE  DuHeader(c) + c.iso.bodies[i] \in Nat
    OBVIOUS
  <2>1. c.iso.bodies[i] \in Nat
    BY DEF Shaped
  <2> QED BY <2>1, DuHeaderType
<1>2. ASSUME NEW i \in DOMAIN c.iso.bodies
      PROVE  /\ Units(c)[i] \in Segs
             /\ Units(c)[i].kind = "du"
             /\ Units(c)[i].octets = 2 + (DuHeader(c) + c.iso.bodies[i])
             /\ Units(c)[i].says = U16(DuHeader(c) + c.iso.bodies[i])
  <2>1. Units(c)[i] = Unit(c, DuHeader(c) + c.iso.bodies[i])
    BY DEF Units
  <2> QED BY <1>1, <2>1, UnitIs
<1>3. Units(c) = [i \in DOMAIN c.iso.bodies |-> Units(c)[i]]
  BY DEF Units
<1>4. Units(c) \in Seq(Segs)
  BY <1>2, <1>3, Mapped DEF Shaped
<1> QED BY <1>1, <1>2, <1>3, <1>4 DEF Wires

----------------------------------------------------------------------------
(* The length fields of a packet *)

Owns(c, wire) == \A i \in DOMAIN wire : OwnLength(c, wire[i])

LEMMA OwnsConcat ==
  ASSUME NEW c, NEW a \in Wires, NEW b \in Wires, Owns(c, a), Owns(c, b)
  PROVE  Owns(c, a \o b)
<1>1. /\ Len(a) \in Nat /\ Len(b) \in Nat
      /\ DOMAIN a = 1..Len(a) /\ DOMAIN b = 1..Len(b) /\ DOMAIN (a \o b) = 1..Len(a) + Len(b)
      /\ \A j \in 1..Len(a) : (a \o b)[j] = a[j]
      /\ \A j \in 1..Len(b) : (a \o b)[Len(a) + j] = b[j]
  BY ConcatFacts
<1> SUFFICES ASSUME NEW i \in 1..Len(a) + Len(b) PROVE OwnLength(c, (a \o b)[i])
  BY <1>1 DEF Owns
<1>2. CASE i \in 1..Len(a)
  BY <1>1, <1>2 DEF Owns
<1>3. CASE i \notin 1..Len(a)
  <2>1. i - Len(a) \in 1..Len(b) /\ Len(a) + (i - Len(a)) = i
    BY <1>1, <1>3
  <2>2. (a \o b)[i] = b[i - Len(a)]
    BY <1>1, <2>1
  <2> QED BY <1>1, <2>1, <2>2 DEF Owns
<1> QED BY <1>2, <1>3

\* a segment without a length field
LEMMA OwnsOne ==
  ASSUME NEW c, NEW seg \in Segs, seg.kind \notin LengthKinds, NEW cond
  PROVE  Owns(c, <<seg>>) /\ Owns(c, If(cond, <<seg>>))
<1>1. DOMAIN <<seg>> = {1} /\ <<seg>>[1] = seg /\ DOMAIN <<>> = {}
  OBVIOUS
<1>2. Owns(c, <<seg>>) /\ Owns(c, <<>>)
  BY <1>1 DEF Owns, OwnLength
<1> QED BY <1>2 DEF If

\* the segments without a length field
LEMMA Word0Type == ASSUME NEW c, Shaped(c) PROVE Word0(c) \in Segs /\ Word0(c).kind = "word0"
<1> DEFINE marks == {mark \in {"X"} : c.extensions # <<>>} \cup {mark \in {"C"} : On(c, "counter")}
<1>1. marks \in SUBSET Marks /\ c.payload_type \in Nat /\ "word0" \in Kinds /\ 4 \in Nat
  BY DEF Marks, Kinds, Shaped
<1>2. Word0(c) = Seg("word0", 4, c.payload_type, marks)
  BY DEF Word0
<1> HIDE DEF marks
<1> QED BY <1>1, <1>2, SegType

Fixed(kind, n) == Seg(kind, n, 0, {})
FixedKinds == {"ts_psn", "counter", "gfd", "du_header", "lct", "pa", "payload"}

LEMMA FixedType ==
  ASSUME NEW kind \in FixedKinds, NEW n \in Nat
  PROVE  /\ Fixed(kind, n) \in Segs
         /\ Fixed(kind, n).kind = kind /\ Fixed(kind, n).octets = n
         /\ kind \notin LengthKinds
<1>1. kind \in Kinds /\ 0 \in Nat /\ kind \notin LengthKinds
  BY DEF Kinds, FixedKinds, LengthKinds
<1> QED BY <1>1, PlainType DEF Fixed

LEMMA FixedWire ==
  ASSUME NEW c, NEW kind \in FixedKinds, NEW n \in Nat, NEW cond
  PROVE  /\ <<Fixed(kind, n)>> \in Wires /\ If(cond, <<Fixed(kind, n)>>) \in Wires
         /\ Owns(c, <<Fixed(kind, n)>>) /\ Owns(c, If(cond, <<Fixed(kind, n)>>))
         /\ Octets(<<Fixed(kind, n)>>) = n
         /\ Octets(If(cond, <<Fixed(kind, n)>>)) = IF cond THEN n ELSE 0
         /\ kind # "lct" => NoLct(<<Fixed(kind, n)>>) /\ NoLct(If(cond, <<Fixed(kind, n)>>))
<1> DEFINE seg == Fixed(kind, n)
<1>1. seg \in Segs /\ seg.kind = kind /\ seg.octets = n /\ seg.kind \notin LengthKinds
  BY FixedType
<1> HIDE DEF seg
<1>2. <<seg>> \in Wires /\ If(cond, <<seg>>) \in Wires /\ Octets(<<seg>>) = n
  BY <1>1, OctetsOne, IfWire
<1>3. Owns(c, <<seg>>) /\ Owns(c, If(cond, <<seg>>))
  BY <1>1, OwnsOne
<1>4. Octets(If(cond, <<seg>>)) = IF cond THEN n ELSE 0
  BY <1>2, OctetsEmpty DEF If
<1>5. kind # "lct" => NoLct(<<seg>>) /\ NoLct(If(cond, <<seg>>))
  <2>1. DOMAIN <<seg>> = {1} /\ <<seg>>[1] = seg /\ DOMAIN <<>> = {}
    OBVIOUS
  <2> QED BY <1>1, <2>1 DEF NoLct, If
<1> QED BY <1>2, <1>3, <1>4, <1>5 DEF seg

LEMMA HeaderWire ==
  ASSUME NEW c, Shaped(c)
  PROVE  /\ MmtpHeader(c) \in Wires
         /\ Octets(MmtpHeader(c)) <= 65535 => Owns(c, MmtpHeader(c))
<1>1. CASE ~On(c, "word0")
  <2>1. MmtpHeader(c) = <<>> /\ DOMAIN <<>> = {}
    BY <1>1 DEF MmtpHeader
  <2> QED BY <2>1, OctetsEmpty DEF Owns
<1>2. CASE On(c, "word0")
  <2> DEFINE w == <<Word0(c)>>
             ts == If(On(c, "ts_psn"), <<Fixed("ts_psn", 8)>>)
             co == If(On(c, "counter"), <<Fixed("counter", 4)>>)
             ex == Extended(c)
  <2>1. w \in Wires /\ Owns(c, w)
    <3>1. "word0" \notin LengthKinds
      BY DEF LengthKinds
    <3> QED BY <3>1, Word0Type, OneWire, OwnsOne
  <2>2. ts \in Wires /\ Owns(c, ts) /\ co \in Wires /\ Owns(c, co)
    <3>1. "ts_psn" \in FixedKinds /\ "counter" \in FixedKinds /\ 8 \in Nat /\ 4 \in Nat
      BY DEF FixedKinds
    <3> QED BY <3>1, FixedWire
  <2>3. ex \in Wires
    BY ExtendedType
  <2>4. MmtpHeader(c) = ((w \o ts) \o co) \o ex
    BY <1>2 DEF MmtpHeader, Fixed, Extended
  <2> HIDE DEF w, ts, co, ex
  <2>5. w \o ts \in Wires /\ Owns(c, w \o ts)
    BY <2>1, <2>2, OctetsConcat, OwnsConcat
  <2>6. (w \o ts) \o co \in Wires /\ Owns(c, (w \o ts) \o co)
    BY <2>2, <2>5, OctetsConcat, OwnsConcat
  <2>7. /\ MmtpHeader(c) \in Wires
        /\ Octets(MmtpHeader(c)) = Octets((w \o ts) \o co) + Octets(ex)
    BY <2>3, <2>4, <2>6, OctetsConcat
  <2>8. ASSUME Octets(MmtpHeader(c)) <= 65535 PROVE Owns(c, ex)
    <3> SUFFICES ASSUME NEW i \in DOMAIN ex PROVE OwnLength(c, ex[i])
      BY DEF Owns
    <3>1. Octets(ex) <= 65535
      <4>1. Octets(ex) \in Nat /\ Octets((w \o ts) \o co) \in Nat
        BY <2>3, <2>6, OctetsAre
      <4> QED BY <2>7, <2>8, <4>1
    <3> DEFINE n == c.extensions[i]
    <3>2. /\ n \in Nat /\ ex[i].kind = "extension"
          /\ ex[i].octets = 4 + n /\ ex[i].says = U16(n)
      BY ExtendedType DEF ex
    <3> HIDE DEF n
    <3>3. ex[i].octets <= Octets(ex)
      BY <2>3, OctetsOfPart
    <3>4. U16(n) = n
      <4>1. n <= 65535
        <5>1. Octets(ex) \in Nat
          BY <2>3, OctetsAre
        <5> QED BY <3>1, <3>2, <3>3, <5>1
      <4> QED BY <3>2, <4>1, Unsigned
    <3> QED BY <3>2, <3>4 DEF OwnLength
  <2>9. Octets(MmtpHeader(c)) <= 65535 => Owns(c, MmtpHeader(c))
    BY <2>3, <2>4, <2>6, <2>8, OwnsConcat
  <2> QED BY <2>7, <2>9
<1> QED BY <1>1, <1>2

LEMMA SignallingWire ==
  ASSUME NEW c, Shaped(c)
  PROVE  /\ Signalling(c) \in Wires
         /\ SignallingFits(c) /\ On(c, "signalling") => Owns(c, Signalling(c))
<1> DEFINE seg == Seg("signalling", 2, 0, IF c.sig.aggregation THEN {"A"} ELSE {})
           bodies == SigBodies(c)
<1>1. seg \in Segs /\ seg.kind = "signalling" /\ seg.kind \notin LengthKinds
  <2>1. "signalling" \in Kinds /\ "signalling" \notin LengthKinds /\ 2 \in Nat /\ 0 \in Nat
    BY DEF Kinds, LengthKinds
  <2>2. {"A"} \in SUBSET Marks /\ {} \in SUBSET Marks
    BY DEF Marks
  <2>3. (IF c.sig.aggregation THEN {"A"} ELSE {}) \in SUBSET Marks
    BY <2>2
  <2> QED BY <2>1, <2>3, SegType
<1>2. Signalling(c) = <<seg>> \o bodies
  BY DEF Signalling, SigBodies
<1>3. /\ bodies \in Wires /\ DOMAIN bodies = DOMAIN c.sig.bodies
      /\ \A i \in DOMAIN bodies :
           /\ c.sig.bodies[i] \in Nat
           /\ bodies[i].kind = "body"
           /\ bodies[i].octets = (IF c.sig.wide THEN 4 ELSE 2) + c.sig.bodies[i]
           /\ bodies[i].says = IF c.sig.wide THEN c.sig.bodies[i] ELSE U16(c.sig.bodies[i])
  BY SigBodiesType
<1> HIDE DEF seg, bodies
<1>4. <<seg>> \in Wires /\ Owns(c, <<seg>>)
  BY <1>1, OneWire, OwnsOne
<1>5. ASSUME SignallingFits(c), On(c, "signalling"), NEW i \in DOMAIN bodies
      PROVE  OwnLength(c, bodies[i])
  <2> DEFINE n == c.sig.bodies[i]
  <2>1. n \in Nat
    BY <1>3
  <2>2. CASE c.sig.wide
    <3>1. bodies[i].octets = 4 + n /\ bodies[i].says = n /\ bodies[i].kind = "body"
      BY <1>3, <2>2
    <3> HIDE DEF n
    <3> QED BY <2>1, <2>2, <3>1 DEF OwnLength
  <2>3. CASE ~c.sig.wide
    <3>1. bodies[i].octets = 2 + n /\ bodies[i].says = U16(n) /\ bodies[i].kind = "body"
      BY <1>3, <2>3
    <3>2. n <= 65535
      BY <1>3, <1>5, <2>3 DEF SignallingFits
    <3>3. U16(n) = n
      BY <2>1, <3>2, Unsigned
    <3> HIDE DEF n
    <3> QED BY <2>1, <2>3, <3>1, <3>3 DEF OwnLength
  <2> QED BY <2>2, <2>3
<1>6. SignallingFits(c) /\ On(c, "signalling") => Owns(c, bodies)
  BY <1>5 DEF Owns
<1>7. Signalling(c) \in Wires
  BY <1>2, <1>3, <1>4, OctetsConcat
<1>8. Owns(c, bodies) => Owns(c, Signalling(c))
  BY <1>2, <1>3, <1>4, OwnsConcat
<1> QED BY <1>6, <1>7, <1>8

\* A header around inner, which nothing else is inside of.
LEMMA WrapWire ==
  ASSUME NEW c, NEW kind \in {"message", "envelope", "loop"}, NEW n \in Nat, NEW cond,
         NEW inner \in Wires, NoLct(inner)
  PROVE  /\ Wrap(cond, kind, n, inner) \in Wires
         /\ NoLct(Wrap(cond, kind, n, inner))
         /\ \A t \in Wires :
              InsideOctets(t) = 0 /\ ExactIn(c, inner, t) => ExactIn(c, Wrap(cond, kind, n, inner), t)
<1> DEFINE seg == Seg(kind, n, Octets(inner), {})
<1>1. /\ seg \in Segs /\ seg.kind = kind /\ seg.says = Octets(inner)
      /\ Octets(inner) \in Nat
  <2>1. kind \in Kinds /\ Octets(inner) \in Nat
    BY OctetsAre DEF Kinds, LengthKinds
  <2> QED BY <2>1, PlainType
<1> HIDE DEF seg
<1>2. CASE ~cond
  <2>1. Wrap(cond, kind, n, inner) = <<>> \o inner
    BY <1>2 DEF Wrap, If
  <2>2. <<>> \o inner = inner
    BY ConcatEmptySeq DEF Wires
  <2> QED BY <2>1, <2>2
<1>3. CASE cond
  <2>1. Wrap(cond, kind, n, inner) = <<seg>> \o inner
    BY <1>3 DEF Wrap, If, seg
  <2>2. <<seg>> \in Wires /\ NoLct(<<seg>>)
    <3>1. <<seg>> \in Wires /\ DOMAIN <<seg>> = {1} /\ <<seg>>[1] = seg
      BY <1>1, OneWire
    <3> QED BY <1>1, <3>1 DEF NoLct
  <2>3. <<seg>> \o inner \in Wires /\ NoLct(<<seg>> \o inner)
    BY <2>2, OctetsConcat, NoLctConcat
  <2>4. ASSUME NEW t \in Wires, InsideOctets(t) = 0, ExactIn(c, inner, t)
        PROVE  ExactIn(c, <<seg>> \o inner, t)
    <3>1. inner \o t \in Wires /\ InsideOctets(inner \o t) = InsideOctets(inner) + InsideOctets(t)
      BY OctetsConcat
    <3>2. InsideOctets(inner) = Octets(inner)
      BY InsideIsAll
    <3>3. InsideOctets(inner \o t) = Octets(inner)
      BY <1>1, <2>4, <3>1, <3>2
    <3>4. CoveredOctets(c, seg, inner \o t) = InsideOctets(inner \o t)
      BY <1>1 DEF CoveredOctets
    <3>5. ExactIn(c, <<seg>>, inner \o t)
      BY <1>1, <3>1, <3>3, <3>4, ExactOne
    <3> QED BY <2>2, <2>4, <3>5, ExactConcat
  <2> QED BY <2>1, <2>3, <2>4
<1> QED BY <1>2, <1>3

LEMMA BlobWire ==
  ASSUME NEW c, Shaped(c), NEW p, p.n \in Nat
  PROVE  /\ SiBlob(c, p) \in Wires /\ NoLct(SiBlob(c, p))
         /\ \A t \in Wires : InsideOctets(t) = 0 => ExactIn(c, SiBlob(c, p), t)
<1> DEFINE rows == 3 + 4 * Len(c.rows)
           index == If(On(c, "pa"), <<Fixed("pa", rows)>>)
           pa == index \o <<Fixed("payload", p.n)>>
           loop == Wrap(On(c, "loop"), "loop", 4, pa)
           envelope == Wrap(On(c, "envelope"), "envelope", 4, loop)
<1>1. SiBlob(c, p) = Wrap(On(c, "message"), "message", 7, envelope)
  BY DEF SiBlob, Fixed, Raw
<1>2. pa \in Wires /\ NoLct(pa) /\ Owns(c, pa)
  <2>1. rows \in Nat
    <3>1. Len(c.rows) \in Nat
      BY DEF Shaped
    <3> QED BY <3>1
  <2>2. "pa" \in FixedKinds /\ "payload" \in FixedKinds /\ "pa" # "lct" /\ "payload" # "lct"
    BY DEF FixedKinds
  <2> HIDE DEF rows
  <2>3. /\ index \in Wires /\ NoLct(index) /\ Owns(c, index)
        /\ <<Fixed("payload", p.n)>> \in Wires /\ NoLct(<<Fixed("payload", p.n)>>)
        /\ Owns(c, <<Fixed("payload", p.n)>>)
    BY <2>1, <2>2, FixedWire
  <2> HIDE DEF index
  <2> QED BY <2>3, OctetsConcat, NoLctConcat, OwnsConcat
<1>3. \A t \in Wires : ExactIn(c, pa, t)
  BY <1>2, ExactOwn DEF Owns
<1> HIDE DEF pa
<1>4. /\ loop \in Wires /\ NoLct(loop)
      /\ \A t \in Wires : InsideOctets(t) = 0 => ExactIn(c, loop, t)
  <2>1. 4 \in Nat /\ "loop" \in {"message", "envelope", "loop"}
    OBVIOUS
  <2> QED BY <1>2, <1>3, <2>1, WrapWire
<1> HIDE DEF loop
<1>5. /\ envelope \in Wires /\ NoLct(envelope)
      /\ \A t \in Wires : InsideOctets(t) = 0 => ExactIn(c, envelope, t)
  <2>1. 4 \in Nat /\ "envelope" \in {"message", "envelope", "loop"}
    OBVIOUS
  <2> QED BY <1>4, <2>1, WrapWire
<1> HIDE DEF envelope
<1>6. 7 \in Nat /\ "message" \in {"message", "envelope", "loop"}
  OBVIOUS
<1> QED BY <1>1, <1>5, <1>6, WrapWire

\* The data units, and their sum as the encoder makes it beforehand.
LEMMA UnitsSum ==
  ASSUME NEW c, Shaped(c)
  PROVE  Octets(Units(c)) = UnitOctets(c)
<1> DEFINE sizes == [i \in DOMAIN c.iso.bodies |-> 2 + DuHeader(c) + c.iso.bodies[i]]
<1>1. Sizes(Units(c)) = sizes
  <2>1. \A i \in DOMAIN c.iso.bodies :
          Units(c)[i].octets = 2 + (DuHeader(c) + c.iso.bodies[i])
    BY UnitsType
  <2>2. \A i \in DOMAIN c.iso.bodies :
          2 + (DuHeader(c) + c.iso.bodies[i]) = 2 + DuHeader(c) + c.iso.bodies[i]
    <3> SUFFICES ASSUME NEW i \in DOMAIN c.iso.bodies
                 PROVE  2 + (DuHeader(c) + c.iso.bodies[i]) = 2 + DuHeader(c) + c.iso.bodies[i]
      OBVIOUS
    <3>1. c.iso.bodies[i] \in Nat
      BY DEF Shaped
    <3> QED BY <3>1, DuHeaderType
  <2>3. DOMAIN Units(c) = DOMAIN c.iso.bodies
    BY UnitsType
  <2> QED BY <2>1, <2>2, <2>3 DEF Sizes
<1>2. Octets(Units(c)) = SumFunction(Sizes(Units(c)))
  BY UnitsType, OctetsAre
<1> QED BY <1>1, <1>2 DEF UnitOctets

LEMMA IsobmffMarksType == ASSUME NEW c PROVE IsobmffMarks(c) \in SUBSET Marks
BY DEF IsobmffMarks, Marks

LEMMA IsobmffWire ==
  ASSUME NEW c, Shaped(c), NEW p, p.n \in Nat, On(c, "isobmff")
  PROVE  /\ Isobmff(c, p) \in Wires
         /\ IsobmffFits(c, p) =>
              \A t \in Wires :
                Octets(t) = (IF On(c, "lct") THEN LctOctets(c) ELSE 0) + p.n
                => ExactIn(c, Isobmff(c, p), t)
<1> DEFINE length == IsobmffLength(c, p)
           seg == Seg("isobmff", 8, U16(length), IsobmffMarks(c))
           duCond == On(c, "du_header") /\ ~c.iso.aggregation
           du == If(duCond, <<Fixed("du_header", DuHeader(c))>>)
           units == Units(c)
           tail == (IF On(c, "lct") THEN LctOctets(c) ELSE 0) + p.n
<1>1. Isobmff(c, p) = (<<seg>> \o du) \o units
  BY DEF Isobmff, Fixed, Units, Unit
<1>2. units \in Wires /\ Octets(units) = UnitOctets(c) /\ Octets(units) \in Nat
  BY UnitsType, UnitsSum, OctetsAre
<1>3. /\ du \in Wires /\ Owns(c, du)
      /\ Octets(du) = (IF duCond THEN DuHeader(c) ELSE 0)
  <2>1. "du_header" \in FixedKinds /\ DuHeader(c) \in Nat
    BY DuHeaderType DEF FixedKinds
  <2> HIDE DEF duCond
  <2> QED BY <2>1, FixedWire
<1>4. tail \in Nat
  BY DEF Shaped
<1>5. length = 6 + tail + (IF c.iso.aggregation THEN UnitOctets(c) ELSE DuHeader(c))
  BY DEF IsobmffLength
<1>6. length \in Nat
  BY <1>2, <1>4, <1>5, DuHeaderType
<1>7. seg \in Segs /\ seg.kind = "isobmff" /\ seg.says = U16(length)
  <2>1. "isobmff" \in Kinds /\ U16(length) \in Nat /\ 8 \in Nat
    BY <1>6, Unsigned DEF Kinds, LengthKinds
  <2> QED BY <2>1, IsobmffMarksType, SegType
<1> HIDE DEF length, seg, du, units, tail
<1>8. <<seg>> \in Wires /\ <<seg>> \o du \in Wires /\ Isobmff(c, p) \in Wires
  BY <1>1, <1>2, <1>3, <1>7, OneWire, OctetsConcat
<1>9. ASSUME IsobmffFits(c, p), NEW t \in Wires, Octets(t) = tail
      PROVE  ExactIn(c, (<<seg>> \o du) \o units, t)
  <2>1. Owns(c, units)
    <3> SUFFICES ASSUME NEW i \in DOMAIN c.iso.bodies PROVE OwnLength(c, units[i])
      BY UnitsType DEF Owns, units
    <3> DEFINE n == DuHeader(c) + c.iso.bodies[i]
    <3>1. n \in Nat /\ units[i].kind = "du" /\ units[i].octets = 2 + n /\ units[i].says = U16(n)
      BY UnitsType DEF units
    <3>2. n <= 65535
      BY <1>9 DEF IsobmffFits
    <3> HIDE DEF n
    <3>3. U16(n) = n
      BY <3>1, <3>2, Unsigned
    <3> QED BY <3>1, <3>3 DEF OwnLength
  <2>2. ExactIn(c, units, t)
    BY <1>2, <2>1, ExactOwn DEF Owns
  <2>3. units \o t \in Wires /\ Octets(units \o t) = Octets(units) + tail
    BY <1>2, <1>9, OctetsConcat
  <2>4. ExactIn(c, du, units \o t)
    BY <1>3, <2>3, ExactOwn DEF Owns
  <2>5. /\ du \o (units \o t) \in Wires
        /\ Octets(du \o (units \o t)) = Octets(du) + (Octets(units) + tail)
    BY <1>3, <2>3, OctetsConcat
  <2>6. length = 6 + (Octets(du) + (Octets(units) + tail))
    <3>1. CASE c.iso.aggregation
      BY <1>2, <1>3, <1>4, <1>5, <3>1
    <3>2. CASE ~c.iso.aggregation
      <4>1. c.iso.bodies = <<>>
        BY <1>9, <3>2 DEF IsobmffFits
      <4>2. UnitOctets(c) = 0
        <5>1. Units(c) = <<>>
          <6>1. DOMAIN <<>> = {} /\ [i \in {} |-> 0] = <<>>
            OBVIOUS
          <6> QED BY <4>1, <6>1 DEF Units
        <5> QED BY <5>1, OctetsEmpty, UnitsSum
      <4>3. Octets(du) = DuHeader(c)
        BY <1>3, <3>2 DEF DuHeader
      <4> QED BY <1>2, <1>4, <1>5, <3>2, <4>2, <4>3, DuHeaderType
    <3> QED BY <3>1, <3>2
  <2>7. U16(length) = length
    BY <1>6, <1>9, Unsigned DEF IsobmffFits, length
  <2>8. ExactIn(c, <<seg>>, du \o (units \o t))
    <3>1. CoveredOctets(c, seg, du \o (units \o t)) = 6 + Octets(du \o (units \o t))
      BY <1>7 DEF CoveredOctets
    <3> QED BY <1>7, <2>5, <2>6, <2>7, <3>1, ExactOne
  <2>9. ExactIn(c, <<seg>> \o du, units \o t)
    BY <1>3, <1>8, <2>3, <2>4, <2>8, ExactConcat
  <2> QED BY <1>2, <1>8, <1>9, <2>2, <2>9, ExactConcat
<1> QED BY <1>1, <1>8, <1>9 DEF tail

\* What follows the MMTP part: the LCT header, and the payload unless the
\* signalling suffix has taken it in.
Lct(c) == If(On(c, "lct"), <<Seg("lct", LctOctets(c), 0, {})>>)
Rest(c, p) == If(~(On(c, "word0") /\ OnAny(c, SiSuffix)), <<Raw(p)>>)
Trail(c, p) == Lct(c) \o (Rest(c, p) \o <<>>)

LEMMA TrailWire ==
  ASSUME NEW c, Shaped(c), NEW p, p.n \in Nat
  PROVE  /\ Lct(c) \in Wires /\ Rest(c, p) \in Wires /\ Trail(c, p) \in Wires
         /\ Owns(c, Lct(c)) /\ Owns(c, Rest(c, p))
         /\ On(c, "word0") /\ OnAny(c, SiSuffix) => InsideOctets(Trail(c, p)) = 0
         /\ ~OnAny(c, SiSuffix) =>
              Octets(Trail(c, p)) = (IF On(c, "lct") THEN LctOctets(c) ELSE 0) + p.n
<1> DEFINE suffixed == On(c, "word0") /\ OnAny(c, SiSuffix)
           l == Lct(c)
           r == Rest(c, p)
<1>1. LctOctets(c) \in Nat /\ "lct" \in FixedKinds /\ "payload" \in FixedKinds
  BY DEF Shaped, FixedKinds
<1>2. l = If(On(c, "lct"), <<Fixed("lct", LctOctets(c))>>)
  BY DEF Lct, Fixed
<1>3. r = If(~suffixed, <<Fixed("payload", p.n)>>)
  BY DEF Rest, Fixed, Raw
<1>4. l \in Wires /\ Owns(c, l) /\ Octets(l) = IF On(c, "lct") THEN LctOctets(c) ELSE 0
  <2> HIDE DEF l
  <2> QED BY <1>1, <1>2, FixedWire
<1>5. r \in Wires /\ Owns(c, r) /\ Octets(r) = IF ~suffixed THEN p.n ELSE 0
  <2> DEFINE n == p.n
  <2>1. n \in Nat /\ "payload" \in FixedKinds
    BY <1>1
  <2>2. r = If(~suffixed, <<Fixed("payload", n)>>)
    BY <1>3
  <2> HIDE DEF r, l, suffixed, n
  <2>3. r \in Wires /\ Owns(c, r) /\ Octets(r) = IF ~suffixed THEN n ELSE 0
    BY <2>1, <2>2, FixedWire
  <2> QED BY <2>3 DEF n
<1>6. InsideOctets(l) = 0
  <2> DEFINE seg == Fixed("lct", LctOctets(c))
  <2>1. seg \in Segs /\ seg.kind = "lct"
    BY <1>1, FixedType
  <2> HIDE DEF seg
  <2>2. InsideOctets(<<seg>>) = 0
    BY <2>1, OctetsOne
  <2> QED BY <1>2, <2>2, OctetsEmpty DEF If, seg
<1>7. suffixed => r = <<>>
  BY <1>3 DEF If
<1>8. r \o <<>> = r
  BY <1>5, ConcatEmptySeq DEF Wires
<1> HIDE DEF l, r
<1>9. /\ l \o r \in Wires
      /\ Octets(l \o r) = Octets(l) + Octets(r)
      /\ InsideOctets(l \o r) = InsideOctets(l) + InsideOctets(r)
  BY <1>4, <1>5, OctetsConcat
<1>10. Trail(c, p) = l \o r
  BY <1>8 DEF Trail, l, r
<1>11. suffixed => InsideOctets(l \o r) = 0
  BY <1>6, <1>7, <1>9, OctetsEmpty
<1> QED BY <1>4, <1>5, <1>9, <1>10, <1>11 DEF l, r

\* What the MMTP payload is made of, branch by branch.
LEMMA MmtpPayloadIs ==
  ASSUME NEW c, PrefixesAgree(c), NEW p
  PROVE  /\ ~On(c, "word0") => MmtpPayload(c, p) = <<>>
         /\ On(c, "signalling") =>
              MmtpPayload(c, p) = Signalling(c) \o If(OnAny(c, SiSuffix), SiBlob(c, p))
         /\ On(c, "isobmff") => MmtpPayload(c, p) = Isobmff(c, p)
         /\ On(c, "gfd") => MmtpPayload(c, p) = <<Fixed("gfd", 12)>>
         /\ ~OnAny(c, {"signalling", "isobmff", "gfd"}) => MmtpPayload(c, p) = <<>>
<1>1. /\ ~On(c, "word0") => ~On(c, "signalling") /\ ~On(c, "isobmff") /\ ~On(c, "gfd")
      /\ ~(On(c, "signalling") /\ On(c, "isobmff"))
      /\ ~(On(c, "signalling") /\ On(c, "gfd"))
      /\ ~(On(c, "isobmff") /\ On(c, "gfd"))
      /\ ~OnAny(c, {"signalling", "isobmff", "gfd"}) =>
           ~On(c, "signalling") /\ ~On(c, "isobmff") /\ ~On(c, "gfd")
  BY DEF PrefixesAgree, On, OnAny
<1>2. CASE ~On(c, "word0")
  BY <1>1, <1>2 DEF MmtpPayload
<1>3. CASE On(c, "word0") /\ On(c, "signalling")
  BY <1>1, <1>3 DEF MmtpPayload, OnAny, On
<1>4. CASE On(c, "word0") /\ On(c, "isobmff")
  BY <1>1, <1>4 DEF MmtpPayload, OnAny, On
<1>5. CASE On(c, "word0") /\ On(c, "gfd")
  BY <1>1, <1>5 DEF MmtpPayload, Fixed, OnAny, On
<1>6. CASE On(c, "word0") /\ ~On(c, "signalling") /\ ~On(c, "isobmff") /\ ~On(c, "gfd")
  BY <1>6 DEF MmtpPayload
<1> QED BY <1>2, <1>3, <1>4, <1>5, <1>6

LEMMA MmtpPayloadWire ==
  ASSUME NEW c, Shaped(c), NEW p, p.n \in Nat, Encodes(c, p)
  PROVE  MmtpPayload(c, p) \in Wires /\ ExactIn(c, MmtpPayload(c, p), Trail(c, p))
<1> DEFINE m == MmtpPayload(c, p)
           t == Trail(c, p)
<1>1. /\ PrefixesAgree(c) /\ SuffixAgrees(c) /\ SignallingFits(c) /\ IsobmffFits(c, p)
      /\ t \in Wires
  BY TrailWire DEF Encodes
<1>2. CASE On(c, "signalling")
  <2> DEFINE blob == If(OnAny(c, SiSuffix), SiBlob(c, p))
  <2>1. m = Signalling(c) \o blob
    BY <1>1, <1>2, MmtpPayloadIs
  <2>2. Signalling(c) \in Wires /\ Owns(c, Signalling(c))
    BY <1>1, <1>2, SignallingWire
  <2>3. blob \in Wires /\ ExactIn(c, blob, t)
    <3>1. CASE OnAny(c, SiSuffix)
      <4>1. InsideOctets(t) = 0
        BY <1>1, <3>1, TrailWire DEF SuffixAgrees
      <4> QED BY <1>1, <3>1, <4>1, BlobWire DEF If
    <3>2. CASE ~OnAny(c, SiSuffix)
      BY <3>2, OctetsEmpty, ExactEmpty DEF If
    <3> QED BY <3>1, <3>2
  <2> HIDE DEF m, t, blob
  <2>4. blob \o t \in Wires /\ Signalling(c) \o blob \in Wires
    BY <1>1, <2>2, <2>3, OctetsConcat
  <2>5. ExactIn(c, Signalling(c), blob \o t)
    BY <2>2, <2>4, ExactOwn DEF Owns
  <2>6. ExactIn(c, Signalling(c) \o blob, t)
    BY <1>1, <2>2, <2>3, <2>5, ExactConcat
  <2> QED BY <2>1, <2>4, <2>6 DEF m, t
<1>3. CASE On(c, "isobmff")
  <2>1. ~OnAny(c, SiSuffix)
    BY <1>1, <1>3 DEF PrefixesAgree, SuffixAgrees, On
  <2>2. Octets(t) = (IF On(c, "lct") THEN LctOctets(c) ELSE 0) + p.n
    BY <2>1, TrailWire
  <2> QED BY <1>1, <1>3, <2>2, MmtpPayloadIs, IsobmffWire
<1>4. CASE On(c, "gfd")
  <2>1. "gfd" \in FixedKinds /\ 12 \in Nat
    BY DEF FixedKinds
  <2>2. <<Fixed("gfd", 12)>> \in Wires /\ Owns(c, <<Fixed("gfd", 12)>>)
    BY <2>1, FixedWire
  <2>3. ExactIn(c, <<Fixed("gfd", 12)>>, t)
    BY <2>2, ExactOwn DEF Owns
  <2> QED BY <1>1, <1>4, <2>2, <2>3, MmtpPayloadIs
<1>5. CASE ~OnAny(c, {"signalling", "isobmff", "gfd"})
  BY <1>1, <1>5, MmtpPayloadIs, OctetsEmpty, ExactEmpty
<1> QED BY <1>2, <1>3, <1>4, <1>5 DEF On, OnAny

LEMMA BodyWire ==
  ASSUME NEW c, Shaped(c), NEW p, p.n \in Nat, Encodes(c, p)
  PROVE  Body(c, p) \in Wires /\ ExactIn(c, Body(c, p), <<>>)
<1> DEFINE h == MmtpHeader(c)
           m == MmtpPayload(c, p)
           l == Lct(c)
           r == Rest(c, p)
<1>1. Body(c, p) = ((h \o m) \o l) \o r
  BY DEF Body, Lct, Rest
<1>2. /\ m \in Wires /\ ExactIn(c, m, l \o (r \o <<>>))
      /\ h \in Wires /\ l \in Wires /\ r \in Wires /\ Owns(c, l) /\ Owns(c, r)
      /\ <<>> \in Wires
      /\ Octets(h) <= 65535 => Owns(c, h)
  BY MmtpPayloadWire, HeaderWire, TrailWire, OctetsEmpty DEF Trail
<1> HIDE DEF h, m, l, r
<1>3. /\ h \o m \in Wires /\ (h \o m) \o l \in Wires /\ ((h \o m) \o l) \o r \in Wires
      /\ r \o <<>> \in Wires /\ l \o (r \o <<>>) \in Wires /\ m \o (l \o (r \o <<>>)) \in Wires
  BY <1>2, OctetsConcat
<1>4. Octets(((h \o m) \o l) \o r) = ((Octets(h) + Octets(m)) + Octets(l)) + Octets(r)
  <2>1. Octets(((h \o m) \o l) \o r) = Octets((h \o m) \o l) + Octets(r)
    BY <1>2, <1>3, OctetsConcat
  <2>2. Octets((h \o m) \o l) = Octets(h \o m) + Octets(l)
    BY <1>2, <1>3, OctetsConcat
  <2>3. Octets(h \o m) = Octets(h) + Octets(m)
    BY <1>2, OctetsConcat
  <2> QED BY <2>1, <2>2, <2>3
<1>5. Octets(h) <= 65535
  <2>1. Octets(((h \o m) \o l) \o r) <= 2047
    BY <1>1 DEF Encodes, AlpMax
  <2>2. Octets(h) \in Nat /\ Octets(m) \in Nat /\ Octets(l) \in Nat /\ Octets(r) \in Nat
    BY <1>2, OctetsAre
  <2> QED BY <1>4, <2>1, <2>2
<1>6. /\ ExactIn(c, h, m \o (l \o (r \o <<>>)))
      /\ ExactIn(c, l, r \o <<>>)
      /\ ExactIn(c, r, <<>>)
  BY <1>2, <1>5, ExactOwn DEF Owns
<1>7. ExactIn(c, h \o m, l \o (r \o <<>>))
  BY <1>2, <1>3, <1>6, ExactConcat
<1>8. ExactIn(c, (h \o m) \o l, r \o <<>>)
  BY <1>2, <1>3, <1>6, <1>7, ExactConcat
<1>9. ASSUME NEW t, Nothing(t) PROVE ExactIn(c, ((h \o m) \o l) \o r, t)
  <2>1. ExactIn(c, (h \o m) \o l, r \o t) /\ ExactIn(c, r, t)
    BY <1>6, <1>8, <1>9 DEF Nothing
  <2> QED BY <1>2, <1>3, <1>9, <2>1, ExactLast
<1> QED BY <1>1, <1>3, <1>9 DEF Nothing

\* Every length field of a packet says what it covers: none wraps, and the sums
\* made beforehand are those of what is built, for any payload that is encoded
\* and any number and size of extensions, rows and aggregated bodies.
THEOREM PacketLengthsExact ==
  ASSUME NEW c, Shaped(c), NEW p, p.n \in Nat, Encodes(c, p)
  PROVE  LengthsExact(c, Packet(c, p)) /\ Packet(c, p) \in Wires
<1> DEFINE body == Body(c, p)
           inner == Seg("alp", 2, U11(Octets(body)), {})
           alp == <<inner>> \o body
           outer == Seg("tlv", 3, U16(Octets(alp)), {})
<1>1. body \in Wires /\ ExactIn(c, body, <<>>) /\ Octets(body) \in Nat /\ Octets(body) <= 2047
  BY BodyWire, OctetsAre DEF Encodes, AlpMax
<1>2. Packet(c, p) = <<outer>> \o alp
  BY DEF Packet
<1> HIDE DEF body
<1>3. inner \in Segs /\ inner.kind = "alp" /\ inner.octets = 2 /\ inner.says = Octets(body)
  <2>1. U11(Octets(body)) = Octets(body) /\ U11(Octets(body)) \in Nat
    BY <1>1, Unsigned
  <2>2. "alp" \in Kinds /\ 2 \in Nat
    BY DEF Kinds, LengthKinds
  <2> QED BY <2>1, <2>2, PlainType
<1> HIDE DEF inner
<1>4. <<inner>> \in Wires /\ Octets(<<inner>>) = 2
  BY <1>3, OctetsOne
<1>5. alp \in Wires /\ Octets(alp) = 2 + Octets(body)
  BY <1>1, <1>4, OctetsConcat
<1>6. \A w \in Wires : w \o <<>> = w
  BY ConcatEmptySeq DEF Wires
<1>7. ExactIn(c, alp, <<>>)
  <2>1. ExactIn(c, <<inner>>, body \o <<>>)
    <3>1. CoveredOctets(c, inner, body \o <<>>) = Octets(body)
      BY <1>1, <1>3, <1>6 DEF CoveredOctets
    <3> QED BY <1>1, <1>3, <1>6, <3>1, ExactOne
  <2>2. ASSUME NEW t, Nothing(t) PROVE ExactIn(c, <<inner>> \o body, t)
    <3>1. ExactIn(c, <<inner>>, body \o t) /\ ExactIn(c, body, t)
      BY <1>1, <2>1, <2>2 DEF Nothing
    <3> QED BY <1>1, <1>4, <2>2, <3>1, ExactLast
  <2> QED BY <2>2 DEF Nothing
<1> HIDE DEF alp
<1>8. outer \in Segs /\ outer.kind = "tlv" /\ outer.says = Octets(alp)
  <2>1. Octets(alp) \in Nat /\ Octets(alp) <= 65535
    BY <1>1, <1>5
  <2>2. U16(Octets(alp)) = Octets(alp)
    BY <2>1, Unsigned
  <2>3. "tlv" \in Kinds /\ 3 \in Nat
    BY DEF Kinds, LengthKinds
  <2> QED BY <2>1, <2>2, <2>3, PlainType
<1> HIDE DEF outer
<1>9. <<outer>> \in Wires
  BY <1>8, OneWire
<1>10. ExactIn(c, <<outer>> \o alp, <<>>)
  <2>1. ExactIn(c, <<outer>>, alp \o <<>>)
    <3>1. CoveredOctets(c, outer, alp \o <<>>) = Octets(alp)
      BY <1>5, <1>6, <1>8 DEF CoveredOctets
    <3> QED BY <1>5, <1>6, <1>8, <3>1, ExactOne
  <2> QED BY <1>5, <1>7, <1>9, <2>1, OctetsEmpty, ExactConcat
<1>11. <<outer>> \o alp \in Wires
  BY <1>5, <1>9, OctetsConcat
<1> DEFINE packet == <<outer>> \o alp
<1>12. ASSUME NEW i \in DOMAIN packet, packet[i].kind \in LengthKinds
       PROVE  packet[i].says = CoveredOctets(c, packet[i], SubSeq(packet, i + 1, Len(packet)))
  <2>1. i \in 0..Len(packet)
    BY <1>11 DEF Wires
  <2> HIDE DEF packet
  <2>2. SubSeq(packet, i + 1, Len(packet)) \o <<>> = SubSeq(packet, i + 1, Len(packet))
    BY <1>6, <1>11, <2>1, From DEF packet
  <2>3. packet[i].says
          = CoveredOctets(c, packet[i], SubSeq(packet, i + 1, Len(packet)) \o <<>>)
    BY <1>10, <1>12 DEF ExactIn, packet
  <2> QED BY <2>2, <2>3
<1> QED BY <1>2, <1>11, <1>12 DEF LengthsExact

----------------------------------------------------------------------------
(* Reading a packet back *)

\* what verify is at: the octets left, the payload type read
Unread(type, wire) == [ok |-> TRUE, type |-> type, work |-> wire]
Only(kind, wire) == \A i \in DOMAIN wire : wire[i].kind = kind

LEMMA ReadingIs ==
  ASSUME NEW t, NEW w
  PROVE  Unread(t, w).ok = TRUE /\ Unread(t, w).type = t /\ Unread(t, w).work = w
BY DEF Unread

LEMMA BehindReading ==
  ASSUME NEW t, NEW w, NEW n
  PROVE  Behind(Unread(t, w), n) = Unread(t, SubSeq(w, n + 1, Len(w)))
<1>1. ASSUME NEW y, NEW x
      PROVE  [[ok |-> y, type |-> t, work |-> w] EXCEPT !.work = x]
               = [ok |-> y, type |-> t, work |-> x]
  OBVIOUS
<1>2. [Unread(t, w) EXCEPT !.work = SubSeq(w, n + 1, Len(w))] = Unread(t, SubSeq(w, n + 1, Len(w)))
  BY <1>1, Zenon DEF Unread
<1>3. ASSUME NEW r, r.work = w PROVE Behind(r, n) = [r EXCEPT !.work = SubSeq(w, n + 1, Len(w))]
  BY <1>3, Zenon DEF Behind
<1>4. Behind(Unread(t, w), n) = [Unread(t, w) EXCEPT !.work = SubSeq(w, n + 1, Len(w))]
  <2>1. Unread(t, w).work = w
    BY ReadingIs, Zenon
  <2> QED BY <1>3, <2>1
<1> QED BY <1>2, <1>4, Zenon

LEMMA BeginsReading ==
  ASSUME NEW t, NEW w, NEW kind
  PROVE  Begins(Unread(t, w), kind) <=> w # <<>> /\ Head(w).kind = kind
<1>1. ASSUME NEW r, r.work = w PROVE Begins(r, kind) <=> w # <<>> /\ Head(w).kind = kind
  BY <1>1, Zenon DEF Begins
<1>2. Unread(t, w).work = w
  BY ReadingIs, Zenon
<1> QED BY <1>1, <1>2

LEMMA SameWire ==
  ASSUME NEW a \in Wires, NEW b \in Wires, Len(a) = Len(b), \A i \in 1..Len(a) : a[i] = b[i]
  PROVE  a = b
<1>1. a \in Seq(Segs) /\ b \in Seq(Segs)
  BY DEF Wires
<1> QED BY <1>1, SeqEqual

LEMMA ConcatEmpty == ASSUME NEW a \in Wires PROVE a \o <<>> = a /\ <<>> \o a = a
BY ConcatEmptySeq DEF Wires

LEMMA ConcatAssoc ==
  ASSUME NEW a \in Wires, NEW b \in Wires, NEW d \in Wires
  PROVE  (a \o b) \o d = a \o (b \o d)
BY ConcatAssociative DEF Wires

Associates(a, b, d) == (a \o b) \o d = a \o (b \o d)

LEMMA Association ==
  ASSUME NEW a \in Wires, NEW b \in Wires, NEW d \in Wires
  PROVE  Associates(a, b, d)
BY ConcatAssoc DEF Associates

Regroups(a, b, d, e) == ((a \o b) \o d) \o e = a \o (b \o (d \o e))

LEMMA Regroup ==
  ASSUME NEW a \in Wires, NEW b \in Wires, NEW d \in Wires, NEW e \in Wires
  PROVE  Regroups(a, b, d, e)
<1> DEFINE ab == a \o b
           de == d \o e
<1>1. ab \in Wires /\ de \in Wires
  BY ConcatFacts
<1>2. a \o (b \o de) = ab \o de
  <2> HIDE DEF de
  <2>1. Associates(a, b, de)
    BY <1>1, Association
  <2> QED BY <2>1 DEF Associates
<1>3. (ab \o d) \o e = ab \o de
  <2> HIDE DEF ab
  <2>1. Associates(ab, d, e)
    BY <1>1, Association
  <2> QED BY <2>1 DEF Associates
<1> QED BY <1>2, <1>3 DEF ab, de, Regroups

\* the same for five parts
RegroupsFive(a, b, d, e, f) ==
  (((a \o b) \o d) \o e) \o f = a \o (b \o (d \o (e \o f)))

LEMMA RegroupFive ==
  ASSUME NEW a \in Wires, NEW b \in Wires, NEW d \in Wires, NEW e \in Wires, NEW f \in Wires
  PROVE  RegroupsFive(a, b, d, e, f)
<1> DEFINE ab == a \o b
           ef == e \o f
           def == d \o ef
<1>1. ab \in Wires /\ ef \in Wires /\ def \in Wires
  BY ConcatFacts
<1>2. a \o (b \o def) = ab \o def
  <2> HIDE DEF def
  <2>1. Associates(a, b, def)
    BY <1>1, Association
  <2> QED BY <2>1 DEF Associates
<1>3. ((ab \o d) \o e) \o f = ab \o def
  <2> HIDE DEF ab
  <2>1. Regroups(ab, d, e, f)
    BY <1>1, Regroup
  <2> QED BY <2>1 DEF Regroups
<1> QED BY <1>2, <1>3 DEF ab, ef, def, RegroupsFive

\* What is behind, and in front of, the place where two parts meet.
LEMMA Parts ==
  ASSUME NEW a \in Wires, NEW b \in Wires
  PROVE  /\ SubSeq(a \o b, Len(a) + 1, Len(a \o b)) = b
         /\ SubSeq(a \o b, 1, Len(a)) = a
<1> DEFINE w == a \o b
           after == SubSeq(w, Len(a) + 1, Len(w))
           front == SubSeq(w, 1, Len(a))
<1>1. /\ w \in Wires /\ Len(a) \in Nat /\ Len(b) \in Nat /\ Len(w) = Len(a) + Len(b)
      /\ \A i \in 1..Len(a) : w[i] = a[i]
      /\ \A i \in 1..Len(b) : w[Len(a) + i] = b[i]
  BY ConcatFacts
<1>2. after = b
  <2>1. Len(a) \in 0..Len(w) /\ Len(w) - Len(a) = Len(b)
    BY <1>1
  <2>2. after \in Wires /\ Len(after) = Len(b) /\ \A j \in 1..Len(b) : after[j] = w[Len(a) + j]
    <3> HIDE DEF w
    <3> QED BY <1>1, <2>1, From
  <2> HIDE DEF w, after
  <2> QED BY <1>1, <2>2, SameWire
<1>3. front = a
  <2>1. /\ front \in Wires /\ Len(front) = Len(a)
        /\ \A i \in 1..Len(a) : front[i] = w[i]
    <3> HIDE DEF w
    <3>1. w \in Seq(Segs) /\ 1 \in Int /\ Len(a) \in Int /\ \A i \in 1..Len(a) : w[i] \in Segs
      BY <1>1 DEF Wires
    <3>2. /\ front \in Seq(Segs) /\ Len(front) = IF 1 <= Len(a) THEN Len(a) - 1 + 1 ELSE 0
          /\ \A i \in 1..Len(a) - 1 + 1 : front[i] = w[1 + i - 1]
      BY <3>1, SubSeqProperties
    <3> QED BY <1>1, <3>2 DEF Wires
  <2> HIDE DEF w, front
  <2> QED BY <1>1, <2>1, SameWire
<1> QED BY <1>2, <1>3

LEMMA OneAndRest ==
  ASSUME NEW seg \in Segs, NEW b \in Wires
  PROVE  LET w == <<seg>> \o b IN
         /\ w \in Wires /\ w # <<>> /\ Head(w) = seg /\ w[1] = seg /\ Tail(w) = b
         /\ SubSeq(w, 2, Len(w)) = b
<1> DEFINE one == <<seg>>
           w == one \o b
<1>1. one \in Wires /\ one[1] = seg /\ Len(one) = 1
  BY OneWire
<1>2. SubSeq(w, Len(one) + 1, Len(w)) = b
  BY <1>1, Parts
<1>3. /\ w \in Wires /\ Len(w) = Len(one) + Len(b) /\ Len(b) \in Nat
      /\ \A i \in 1..Len(one) : w[i] = one[i]
  BY <1>1, ConcatFacts
<1> HIDE DEF one
<1>4. w[1] = seg /\ w # <<>>
  BY <1>1, <1>3
<1>5. w \in Seq(Segs) /\ Head(w) = w[1] /\ Tail(w) = SubSeq(w, 2, Len(w))
  <2> HIDE DEF w
  <2> QED BY <1>3, <1>4, HeadTailProperties DEF Wires
<1> QED BY <1>1, <1>2, <1>3, <1>4, <1>5 DEF one

\* A run of headers of one kind is taken off by their number.
LEMMA PeelRun ==
  ASSUME NEW t, NEW kind, NEW a \in Wires, NEW b \in Wires, Only(kind, a)
  PROVE  Peel(Unread(t, a \o b), kind, Len(a)) = Unread(t, b)
<1> DEFINE w == a \o b
<1>1. /\ Len(a) \in Nat /\ Len(b) \in Nat /\ Len(w) = Len(a) + Len(b) /\ DOMAIN a = 1..Len(a)
      /\ \A i \in 1..Len(a) : w[i] = a[i]
  BY ConcatFacts
<1>2. SubSeq(w, Len(a) + 1, Len(w)) = b
  BY Parts
<1> HIDE DEF w
<1>3. Len(a) <= Len(w) /\ \A i \in 1..Len(a) : w[i].kind = kind
  BY <1>1 DEF Only
<1>4. Behind(Unread(t, w), Len(a)) = Unread(t, b)
  BY <1>2, BehindReading
<1>5. Unread(t, w).work = w
  BY ReadingIs
<1> QED BY <1>3, <1>4, <1>5 DEF Peel, w

LEMMA PeelOne ==
  ASSUME NEW t, NEW seg \in Segs, NEW b \in Wires
  PROVE  /\ Peel(Unread(t, <<seg>> \o b), seg.kind, 1) = Unread(t, b)
         /\ Begins(Unread(t, <<seg>> \o b), seg.kind)
         /\ Head(Unread(t, <<seg>> \o b).work) = seg
         /\ Behind(Unread(t, <<seg>> \o b), 1) = Unread(t, b)
<1> DEFINE one == <<seg>>
<1>1. one \in Wires /\ one[1] = seg /\ Len(one) = 1 /\ DOMAIN one = {1}
  BY OneWire
<1>2. Only(seg.kind, one)
  BY <1>1 DEF Only
<1>3. /\ one \o b # <<>> /\ Head(one \o b) = seg
      /\ SubSeq(one \o b, 2, Len(one \o b)) = b
  BY OneAndRest
<1> HIDE DEF one
<1>4. Peel(Unread(t, one \o b), seg.kind, Len(one)) = Unread(t, b)
  BY <1>1, <1>2, PeelRun
<1>5. Behind(Unread(t, one \o b), 1) = Unread(t, SubSeq(one \o b, 1 + 1, Len(one \o b)))
  BY BehindReading
<1>9. 1 + 1 = 2
  OBVIOUS
<1>6. Begins(Unread(t, one \o b), seg.kind) /\ Head(Unread(t, one \o b).work) = seg
  <2>1. Unread(t, one \o b).work = one \o b
    BY ReadingIs, Zenon
  <2>2. Begins(Unread(t, one \o b), seg.kind)
    BY <1>3, BeginsReading, Zenon
  <2> QED BY <1>3, <2>1, <2>2, Zenon
<1>7. Peel(Unread(t, one \o b), seg.kind, 1) = Unread(t, b)
  BY <1>1, <1>4
<1>8. Behind(Unread(t, one \o b), 1) = Unread(t, b)
  BY <1>3, <1>5, <1>9, Zenon
<1> QED BY <1>6, <1>7, <1>8 DEF one

\* What may follow a header's octets without being covered: nothing, or one
\* segment that is not empty.
Outside(x) == x \in Wires /\ (x = <<>> \/ (Len(x) = 1 /\ Octets(x) > 0))

LEMMA MaxIs ==
  ASSUME NEW T, T \subseteq Nat, NEW m \in T, \A k \in T : k <= m
  PROVE  Max(T) = m
<1>1. \A k \in T : k \in Nat /\ m \in Nat
  OBVIOUS
<1>2. \A k \in T : m >= k
  BY <1>1
<1>3. ASSUME NEW k \in T, \A j \in T : k >= j PROVE k = m
  BY <1>1, <1>3
<1>4. Max(T) = CHOOSE k \in T : \A j \in T : k >= j
  BY DEF Max
<1> QED BY <1>2, <1>3, <1>4

\* the places where the first octets of tail are n
Cuts(tail, n) == {k \in 0..Len(tail) : Octets(SubSeq(tail, 1, k)) = n}

LEMMA CutAt ==
  ASSUME NEW inner \in Wires, NEW x, Outside(x)
  PROVE  LET cuts == Cuts(inner \o x, Octets(inner)) IN
         /\ cuts # {}
         /\ Max(cuts) = Len(inner)
<1> DEFINE tail == inner \o x
           n == Octets(inner)
           cuts == Cuts(tail, n)
<1>1. /\ x \in Wires /\ tail \in Wires /\ Len(inner) \in Nat /\ Len(x) \in Nat
      /\ Len(tail) = Len(inner) + Len(x)
      /\ SubSeq(tail, 1, Len(inner)) = inner
  BY ConcatFacts, Parts DEF Outside
<1>2. Octets(tail) = n + Octets(x) /\ n \in Nat /\ Octets(x) \in Nat
  BY <1>1, OctetsConcat, OctetsAre
<1>3. SubSeq(tail, 1, Len(tail)) = tail
  <2>1. tail \o <<>> = tail /\ <<>> \in Wires
    BY <1>1, ConcatEmpty, OctetsEmpty
  <2> HIDE DEF tail
  <2>2. SubSeq(tail \o <<>>, 1, Len(tail)) = tail
    BY <1>1, <2>1, Parts
  <2> QED BY <2>1, <2>2
<1>4. Octets(SubSeq(tail, 1, Len(inner))) = n
  BY <1>1
<1>5. Octets(SubSeq(tail, 1, Len(tail))) = n + Octets(x)
  BY <1>2, <1>3
<1> HIDE DEF tail, n
<1>6. Len(inner) \in cuts
  BY <1>1, <1>4 DEF Cuts
<1>7. ASSUME NEW k \in cuts PROVE k <= Len(inner)
  <2>1. k \in 0..Len(tail) /\ Octets(SubSeq(tail, 1, k)) = n
    BY DEF Cuts
  <2>2. CASE x = <<>>
    <3>1. Len(x) = 0
      BY <2>2
    <3> QED BY <1>1, <2>1, <3>1
  <2>3. CASE Len(x) = 1 /\ Octets(x) > 0
    <3>1. k # Len(tail)
      <4>1. n + Octets(x) # n
        BY <1>2, <2>3
      <4> QED BY <1>5, <2>1, <4>1
    <3> QED BY <1>1, <2>1, <2>3, <3>1
  <2> QED BY <2>2, <2>3 DEF Outside
<1>8. cuts \subseteq Nat
  BY <1>1 DEF Cuts
<1> HIDE DEF cuts
<1>9. Max(cuts) = Len(inner)
  BY <1>6, <1>7, <1>8, MaxIs
<1> QED BY <1>6, <1>9 DEF cuts, tail, n

\* A header that says how much it covers gives what is inside of it.
LEMMA Covering ==
  ASSUME NEW t, NEW seg \in Segs, NEW inner \in Wires, seg.says = Octets(inner),
         NEW x, Outside(x)
  PROVE  PeelCovering(Unread(t, <<seg>> \o (inner \o x)), seg.kind) = Unread(t, inner)
<1> DEFINE tail == inner \o x
           r == Unread(t, <<seg>> \o tail)
           kind == seg.kind
           cuts == Cuts(tail, Octets(inner))
<1>1. tail \in Wires /\ x \in Wires /\ SubSeq(tail, 1, Len(inner)) = inner
  BY ConcatFacts, Parts DEF Outside
<1>2. cuts # {} /\ Max(cuts) = Len(inner)
  BY CutAt
<1> HIDE DEF cuts, tail
<1>3. Begins(r, kind) /\ Head(r.work) = seg /\ Behind(r, 1) = Unread(t, tail)
  BY <1>1, PeelOne
<1>4. Unread(t, tail).work = tail
  BY ReadingIs, Zenon
<1>5. Behind(r, 1).work = tail
  BY <1>3, <1>4
<1>6. \A y : [r EXCEPT !.work = y] = Unread(t, y)
  <2>1. ASSUME NEW ok, NEW w, NEW y
        PROVE  [[ok |-> ok, type |-> t, work |-> w] EXCEPT !.work = y]
                 = [ok |-> ok, type |-> t, work |-> y]
    OBVIOUS
  <2> QED BY <2>1, Zenon DEF Unread
<1>7. cuts = {k \in 0..Len(tail) : Octets(SubSeq(tail, 1, k)) = seg.says}
  BY DEF cuts, Cuts
<1> HIDE DEF r, kind
<1>8. PeelCovering(r, kind) = [r EXCEPT !.work = SubSeq(tail, 1, Max(cuts))]
  <2>1. PeelCovering(r, kind) =
          IF Begins(r, kind) /\ cuts # {}
          THEN [r EXCEPT !.work = SubSeq(tail, 1, Max(cuts))]
          ELSE Fail(r)
    BY <1>3, <1>5, <1>7, Zenon DEF PeelCovering
  <2> QED BY <1>2, <1>3, <2>1, Zenon
<1>9. PeelCovering(r, kind) = Unread(t, inner)
  BY <1>1, <1>2, <1>6, <1>8, Zenon
<1> QED BY <1>9 DEF r, kind, tail

Strips == HeaderFlags \cup SiStrips \cup {"signalling", "isobmff", "du_header", "gfd"}

\* s has the strips of c, and of what verify can be told the rest.
Undoes(s, c) ==
  /\ \A flag \in Strips : flag \in s.flags <=> On(c, flag)
  /\ "extension" \in s.flags <=> c.extensions # <<>>
  /\ "lct" \in s.flags <=> On(c, "lct") /\ ~OnAny(c, SiSuffix)
  /\ s.type = IF On(c, "word0") THEN c.payload_type ELSE NoType
  /\ s.extensions = Len(c.extensions)
  /\ s.bodies = Len(c.sig.bodies)
  /\ s.units = c.iso.bodies

LEMMA UndoingUndoes ==
  ASSUME NEW c
  PROVE  /\ Undoes(Undoing(c), c) /\ "table" \notin Undoing(c).flags
         /\ Undoes(ReadingTables(Undoing(c)), c) /\ "table" \in ReadingTables(Undoing(c)).flags
<1> DEFINE s == Undoing(c)
           more == ReadingTables(s)
           given == c.flags \cap Strips
<1>1. /\ s.flags = given \cup {f \in {"extension"} : c.extensions # <<>>}
                         \cup {f \in {"lct"} : On(c, "lct") /\ ~OnAny(c, SiSuffix)}
      /\ s.type = (IF On(c, "word0") THEN c.payload_type ELSE NoType)
      /\ s.extensions = Len(c.extensions) /\ s.bodies = Len(c.sig.bodies)
      /\ s.units = c.iso.bodies
  BY DEF Undoing, Strips
<1>2. /\ more.flags = s.flags \cup {"table"} /\ more.type = s.type
      /\ more.extensions = s.extensions /\ more.bodies = s.bodies /\ more.units = s.units
  <2>1. ASSUME NEW flags, NEW type, NEW extensions, NEW bodies, NEW units, NEW t,
               t = [flags |-> flags, type |-> type, extensions |-> extensions,
                    bodies |-> bodies, units |-> units]
        PROVE  LET u == [t EXCEPT !.flags = t.flags \cup {"table"}] IN
               /\ u.flags = t.flags \cup {"table"} /\ u.type = t.type
               /\ u.extensions = t.extensions /\ u.bodies = t.bodies /\ u.units = t.units
    BY <2>1
  <2> QED BY <2>1 DEF ReadingTables, Undoing
<1>3. "extension" \notin Strips /\ "lct" \notin Strips /\ "table" \notin Strips
  BY DEF Strips, HeaderFlags, SiStrips
<1>4. /\ \A flag \in Strips : flag \in given <=> On(c, flag)
      /\ "extension" \notin given /\ "lct" \notin given /\ "table" \notin given
  BY <1>3 DEF On
<1> HIDE DEF s, given, more
<1>5. /\ \A flag \in Strips : flag \in s.flags <=> On(c, flag)
      /\ "extension" \in s.flags <=> c.extensions # <<>>
      /\ "lct" \in s.flags <=> On(c, "lct") /\ ~OnAny(c, SiSuffix)
      /\ "table" \notin s.flags
  BY <1>1, <1>3, <1>4
<1>6. Undoes(s, c)
  BY <1>1, <1>5 DEF Undoes
<1>7. /\ \A flag \in Strips : flag \in more.flags <=> On(c, flag)
      /\ "extension" \in more.flags <=> c.extensions # <<>>
      /\ "lct" \in more.flags <=> On(c, "lct") /\ ~OnAny(c, SiSuffix)
      /\ "table" \in more.flags
  BY <1>2, <1>3, <1>5
<1>8. Undoes(more, c)
  BY <1>1, <1>2, <1>7 DEF Undoes
<1> QED BY <1>5, <1>6, <1>7, <1>8 DEF s, more

LEMMA StepReading ==
  ASSUME NEW s, NEW flag, NEW t, NEW w, NEW peeled
  PROVE  /\ flag \in s.flags => Step(s, flag, Unread(t, w), peeled) = peeled
         /\ flag \notin s.flags => Step(s, flag, Unread(t, w), peeled) = Unread(t, w)
<1>1. Unread(t, w).ok
  BY ReadingIs, Zenon
<1> QED BY <1>1, Zenon DEF Step

\* the header in front is of the kind, and there when the strip is given
Optional(s, flag, kind, front) ==
  \/ flag \in s.flags /\ \E seg \in Segs : seg.kind = kind /\ front = <<seg>>
  \/ flag \notin s.flags /\ front = <<>>

LEMMA OptionalPeel ==
  ASSUME NEW s, NEW flag, NEW kind, NEW front, Optional(s, flag, kind, front),
         NEW t, NEW b \in Wires
  PROVE  Step(s, flag, Unread(t, front \o b), Peel(Unread(t, front \o b), kind, 1))
           = Unread(t, b)
<1>1. CASE flag \in s.flags
  <2>1. PICK seg \in Segs : seg.kind = kind /\ front = <<seg>>
    BY <1>1 DEF Optional
  <2>2. Peel(Unread(t, front \o b), kind, 1) = Unread(t, b)
    BY <2>1, PeelOne
  <2> QED BY <1>1, <2>2, StepReading
<1>2. CASE flag \notin s.flags
  <2>1. front \o b = b
    BY <1>2, ConcatEmpty DEF Optional
  <2> QED BY <1>2, <2>1, StepReading
<1> QED BY <1>1, <1>2

LEMMA HeaderSteps ==
  ASSUME NEW s, NEW r0, NEW r1, NEW r2, NEW r3, NEW r4,
         Step(s, "word0", r0, PeelWord0(s, r0)) = r1,
         Step(s, "ts_psn", r1, PeelTsPsn(s, r1)) = r2,
         Step(s, "counter", r2, PeelCounter(s, r2)) = r3,
         Step(s, "extension", r3, PeelExtension(s, r3)) = r4
  PROVE  HeaderPeeled(s, r0) = r4
BY Zenon DEF HeaderPeeled

TypeRead(c) == IF On(c, "word0") THEN c.payload_type ELSE NoType

LEMMA PeelWord0Reading ==
  ASSUME NEW c, Shaped(c), On(c, "word0"), NEW s, s.type = c.payload_type, NEW b \in Wires
  PROVE  PeelWord0(s, Unread(NoType, <<Word0(c)>> \o b)) = Unread(c.payload_type, b)
<1> DEFINE seg == Word0(c)
           r == Unread(NoType, <<seg>> \o b)
<1>1. seg \in Segs /\ seg.kind = "word0" /\ seg.says = c.payload_type
  BY Word0Type DEF Word0, Seg
<1> HIDE DEF seg
<1>2. Begins(r, "word0") /\ Head(r.work) = seg /\ Behind(r, 1) = Unread(NoType, b)
  BY <1>1, PeelOne
<1>3. [Unread(NoType, b) EXCEPT !.type = c.payload_type] = Unread(c.payload_type, b)
  <2>1. ASSUME NEW ok, NEW x, NEW y
        PROVE  [[ok |-> ok, type |-> x, work |-> b] EXCEPT !.type = y]
                 = [ok |-> ok, type |-> y, work |-> b]
    OBVIOUS
  <2> DEFINE ok == TRUE
             y == c.payload_type
  <2> HIDE DEF ok, y
  <2>2. [[ok |-> ok, type |-> NoType, work |-> b] EXCEPT !.type = y]
          = [ok |-> ok, type |-> y, work |-> b]
    BY <2>1, Zenon
  <2> QED BY <2>2, Zenon DEF Unread, ok, y
<1> HIDE DEF r
<1>4. PeelWord0(s, r) = [Behind(r, 1) EXCEPT !.type = c.payload_type]
  <2>1. ~(~Begins(r, "word0") \/ s.type \notin {NoType, Head(r.work).says})
    BY <1>1, <1>2
  <2>2. Head(r.work).says = c.payload_type
    BY <1>1, <1>2
  <2> QED BY <2>1, <2>2, Zenon DEF PeelWord0
<1>5. PeelWord0(s, r) = Unread(c.payload_type, b)
  BY <1>2, <1>3, <1>4, Zenon
<1> QED BY <1>5 DEF r, seg

LEMMA HeaderRead ==
  ASSUME NEW c, Shaped(c), PrefixesAgree(c), NEW s, Undoes(s, c), NEW w \in Wires
  PROVE  HeaderPeeled(s, Unread(NoType, MmtpHeader(c) \o w)) = Unread(TypeRead(c), w)
<1>1. /\ "word0" \in s.flags <=> On(c, "word0")
      /\ "ts_psn" \in s.flags <=> On(c, "ts_psn")
      /\ "counter" \in s.flags <=> On(c, "counter")
      /\ "extension" \in s.flags <=> c.extensions # <<>>
  BY DEF Undoes, Strips, HeaderFlags
<1>2. CASE ~On(c, "word0")
  <2>1. /\ "word0" \notin s.flags /\ "ts_psn" \notin s.flags /\ "counter" \notin s.flags
        /\ "extension" \notin s.flags
    BY <1>1, <1>2 DEF PrefixesAgree, On, OnAny
  <2>2. MmtpHeader(c) \o w = w
    BY <1>2, ConcatEmpty DEF MmtpHeader
  <2> DEFINE r == Unread(NoType, w)
  <2>3. HeaderPeeled(s, r) = r
    BY <2>1, StepReading, HeaderSteps
  <2> QED BY <1>2, <2>2, <2>3 DEF TypeRead
<1>3. CASE On(c, "word0")
  <2> DEFINE one == <<Word0(c)>>
             ts == If(On(c, "ts_psn"), <<Fixed("ts_psn", 8)>>)
             cnt == If(On(c, "counter"), <<Fixed("counter", 4)>>)
             ext == Extended(c)
             type == c.payload_type
  <2>1. /\ Fixed("ts_psn", 8) \in Segs /\ Fixed("ts_psn", 8).kind = "ts_psn"
        /\ Fixed("counter", 4) \in Segs /\ Fixed("counter", 4).kind = "counter"
    <3>1. "ts_psn" \in FixedKinds /\ "counter" \in FixedKinds /\ 4 \in Nat /\ 8 \in Nat
      BY DEF FixedKinds
    <3> QED BY <3>1, FixedType
  <2>2. one \in Wires /\ ts \in Wires /\ cnt \in Wires /\ ext \in Wires
    BY <2>1, Word0Type, OneWire, IfWire, ExtendedType
  <2>3. MmtpHeader(c) = ((one \o ts) \o cnt) \o ext
    BY <1>3 DEF MmtpHeader, Fixed, Extended
  <2>4. Only("extension", ext) /\ Len(ext) = Len(c.extensions)
    <3>1. DOMAIN ext = DOMAIN c.extensions /\ \A i \in DOMAIN ext : ext[i].kind = "extension"
      BY ExtendedType
    <3>2. ext \in Seq(Segs) /\ c.extensions \in Seq(Nat)
      BY <2>2 DEF Shaped, Wires
    <3> QED BY <3>1, <3>2 DEF Only
  <2> HIDE DEF one, ts, cnt, ext
  <2>5. ext \o w \in Wires /\ cnt \o (ext \o w) \in Wires /\ ts \o (cnt \o (ext \o w)) \in Wires
    BY <2>2, ConcatFacts
  <2>6. MmtpHeader(c) \o w = one \o (ts \o (cnt \o (ext \o w)))
    <3>1. RegroupsFive(one, ts, cnt, ext, w)
      BY <2>2, RegroupFive
    <3> QED BY <2>3, <3>1 DEF RegroupsFive
  <2> DEFINE r0 == Unread(NoType, one \o (ts \o (cnt \o (ext \o w))))
             r1 == Unread(type, ts \o (cnt \o (ext \o w)))
             r2 == Unread(type, cnt \o (ext \o w))
             r3 == Unread(type, ext \o w)
             r4 == Unread(type, w)
  <2>7. Step(s, "word0", r0, PeelWord0(s, r0)) = r1
    <3>1. s.type = type
      BY <1>3 DEF Undoes
    <3>2. PeelWord0(s, r0) = r1
      BY <1>3, <2>5, <3>1, PeelWord0Reading DEF one
    <3> QED BY <1>1, <1>3, <3>2, StepReading
  <2>8. Step(s, "ts_psn", r1, PeelTsPsn(s, r1)) = r2
    <3>1. Optional(s, "ts_psn", "ts_psn", ts)
      BY <1>1, <2>1 DEF Optional, ts, If
    <3>2. Step(s, "ts_psn", r1, Peel(r1, "ts_psn", 1)) = r2
      <4> DEFINE b == cnt \o (ext \o w)
      <4>1. b \in Wires
        BY <2>5
      <4> HIDE DEF b
      <4>2. Step(s, "ts_psn", Unread(type, ts \o b), Peel(Unread(type, ts \o b), "ts_psn", 1))
              = Unread(type, b)
        BY <3>1, <4>1, OptionalPeel
      <4> QED BY <4>2 DEF b
    <3> QED BY <3>2 DEF PeelTsPsn
  <2>9. Step(s, "counter", r2, PeelCounter(s, r2)) = r3
    <3>1. Optional(s, "counter", "counter", cnt)
      BY <1>1, <2>1 DEF Optional, cnt, If
    <3>2. Step(s, "counter", r2, Peel(r2, "counter", 1)) = r3
      <4> DEFINE b == ext \o w
      <4>1. b \in Wires
        BY <2>5
      <4> HIDE DEF b
      <4>2. Step(s, "counter", Unread(type, cnt \o b), Peel(Unread(type, cnt \o b), "counter", 1))
              = Unread(type, b)
        BY <3>1, <4>1, OptionalPeel
      <4> QED BY <4>2 DEF b
    <3> QED BY <3>2 DEF PeelCounter
  <2>10. Step(s, "extension", r3, PeelExtension(s, r3)) = r4
    <3>1. PeelExtension(s, r3) = r4
      <4>1. s.extensions = Len(ext)
        BY <2>4 DEF Undoes
      <4> QED BY <2>2, <2>4, <4>1, PeelRun DEF PeelExtension
    <3>2. CASE c.extensions = <<>>
      <4>1. Len(ext) = 0
        BY <2>4, <3>2
      <4>2. ext = <<>>
        BY <2>2, <4>1 DEF Wires
      <4>3. ext \o w = w
        BY <4>2, ConcatEmpty
      <4> QED BY <1>1, <3>2, <4>3, StepReading
    <3>3. CASE c.extensions # <<>>
      BY <1>1, <3>1, <3>3, StepReading
    <3> QED BY <3>2, <3>3
  <2> HIDE DEF r0, r1, r2, r3, r4
  <2>11. HeaderPeeled(s, r0) = r4
    BY <2>7, <2>8, <2>9, <2>10, HeaderSteps
  <2> QED BY <1>3, <2>6, <2>11 DEF r0, r4, TypeRead
<1> QED BY <1>2, <1>3

LEMMA SignallingSteps ==
  ASSUME NEW s, NEW p, NEW r0, NEW r1, NEW r2, NEW r3, NEW r4, NEW r5, NEW r6,
         Step(s, "signalling", r0, PeelSignalling(s, r0)) = r1,
         Step(s, "message", r1, PeelMessage(s, r1)) = r2,
         Step(s, "envelope", r2, PeelEnvelope(s, r2)) = r3,
         Step(s, "loop", r3, PeelLoop(s, r3, p)) = r4,
         Step(s, "pa", r4, PeelPa(s, r4)) = r5,
         Step(s, "table", r5, ReadTable(s, r5, p)) = r6
  PROVE  SignallingPeeled(s, r0, p) = r6
BY Zenon DEF SignallingPeeled

LEMMA PayloadSteps ==
  ASSUME NEW s, NEW r0, NEW r1, NEW r2, NEW r3,
         Step(s, "gfd", r0, PeelGfd(s, r0)) = r1,
         Step(s, "isobmff", r1, PeelIsobmff(s, r1)) = r2,
         Step(s, "lct", r2, PeelLct(s, r2)) = r3
  PROVE  PayloadPeeled(s, r0) = r3
BY Zenon DEF PayloadPeeled

\* wire is inner behind a header that covers it, if the strip is given
Wrapped(s, kind, inner, wire) ==
  \/ /\ kind \in s.flags
     /\ \E seg \in Segs : seg.kind = kind /\ seg.says = Octets(inner) /\ wire = <<seg>> \o inner
  \/ kind \notin s.flags /\ wire = inner

\* what is still behind once the header is off
Dropped(s, kind, x) == IF kind \in s.flags THEN <<>> ELSE x

LEMMA DroppedOutside ==
  ASSUME NEW s, NEW kind, NEW x, Outside(x)
  PROVE  Outside(Dropped(s, kind, x))
BY OctetsEmpty DEF Outside, Dropped

\* the step takes the header off wire, and drops what is behind it
StepCovers(s, kind, inner, wire, t, x) ==
  Step(s, kind, Unread(t, wire \o x), PeelCovering(Unread(t, wire \o x), kind))
    = Unread(t, inner \o Dropped(s, kind, x))

LEMMA CoverStep ==
  ASSUME NEW s, NEW kind, NEW inner \in Wires, NEW wire, Wrapped(s, kind, inner, wire),
         NEW t, NEW x, Outside(x)
  PROVE  /\ kind \in s.flags => PeelCovering(Unread(t, wire \o x), kind) = Unread(t, inner)
         /\ StepCovers(s, kind, inner, wire, t, x)
<1> USE DEF StepCovers
<1>1. CASE kind \in s.flags
  <2>1. PICK seg \in Segs : seg.kind = kind /\ seg.says = Octets(inner) /\ wire = <<seg>> \o inner
    BY <1>1 DEF Wrapped
  <2>2. PeelCovering(Unread(t, <<seg>> \o (inner \o x)), kind) = Unread(t, inner)
    BY <2>1, Covering
  <2>3. (<<seg>> \o inner) \o x = <<seg>> \o (inner \o x)
    <3>1. <<seg>> \in Wires /\ x \in Wires
      BY OneWire DEF Outside
    <3> QED BY <3>1, ConcatAssoc
  <2>4. PeelCovering(Unread(t, wire \o x), kind) = Unread(t, inner)
    BY <2>1, <2>2, <2>3
  <2>5. inner \o Dropped(s, kind, x) = inner
    BY <1>1, ConcatEmpty DEF Dropped
  <2> QED BY <1>1, <2>4, <2>5, StepReading
<1>2. CASE kind \notin s.flags
  <2>1. wire = inner /\ Dropped(s, kind, x) = x
    BY <1>2 DEF Wrapped, Dropped
  <2> QED BY <1>2, <2>1, StepReading
<1> QED BY <1>1, <1>2

LEMMA WrappedWire ==
  ASSUME NEW s, NEW kind, NEW inner \in Wires, NEW wire, Wrapped(s, kind, inner, wire)
  PROVE  wire \in Wires
<1>1. ASSUME NEW seg \in Segs PROVE <<seg>> \o inner \in Wires
  BY OneWire, ConcatFacts
<1> QED BY <1>1 DEF Wrapped

LEMMA WrapIsWrapped ==
  ASSUME NEW s, NEW kind \in {"message", "envelope", "loop"}, NEW n \in Nat, NEW inner \in Wires,
         NEW cond, cond <=> kind \in s.flags
  PROVE  Wrapped(s, kind, inner, Wrap(cond, kind, n, inner))
<1>1. CASE cond
  <2> DEFINE seg == Seg(kind, n, Octets(inner), {})
  <2>1. seg \in Segs /\ seg.kind = kind /\ seg.says = Octets(inner)
    <3>1. kind \in Kinds /\ Octets(inner) \in Nat
      BY OctetsAre DEF Kinds, LengthKinds
    <3> QED BY <3>1, PlainType
  <2>2. Wrap(cond, kind, n, inner) = <<seg>> \o inner
    BY <1>1 DEF Wrap, If
  <2> HIDE DEF seg
  <2> QED BY <1>1, <2>1, <2>2 DEF Wrapped
<1>2. CASE ~cond
  <2>1. Wrap(cond, kind, n, inner) = inner
    BY <1>2, ConcatEmpty DEF Wrap, If
  <2> QED BY <1>2, <2>1 DEF Wrapped
<1> QED BY <1>1, <1>2

\* From the message header to the PA index: what the suffix holds is found.
LEMMA SuffixCovered ==
  ASSUME NEW s, NEW p,
         NEW pa \in Wires, NEW loop \in Wires, NEW envelope \in Wires, NEW message \in Wires,
         Wrapped(s, "message", envelope, message), Wrapped(s, "envelope", loop, envelope),
         Wrapped(s, "loop", pa, loop),
         "loop" \in s.flags =>
           (IF pa # <<>> /\ Head(pa).kind = "pa" THEN "with_pa" ELSE "bare") \in p.loops,
         {"message", "envelope", "loop"} \cap s.flags # {},
         NEW x, Outside(x)
  PROVE  LET r1 == Unread(2, message \o x)
             r2 == Step(s, "message", r1, PeelMessage(s, r1))
             r3 == Step(s, "envelope", r2, PeelEnvelope(s, r2))
         IN  Step(s, "loop", r3, PeelLoop(s, r3, p)) = Unread(2, pa)
<1> DEFINE x2 == Dropped(s, "message", x)
           x3 == Dropped(s, "envelope", x2)
           x4 == Dropped(s, "loop", x3)
           r1 == Unread(2, message \o x)
           r2 == Unread(2, envelope \o x2)
           r3 == Unread(2, loop \o x3)
           r4 == Unread(2, pa \o x4)
<1>1. Outside(x2) /\ Outside(x3)
  BY DroppedOutside
<1>2. x4 = <<>>
  BY DEF Dropped
<1> HIDE DEF x2, x3, x4
<1>3. r1.type = 2 /\ r2.type = 2 /\ r3.type = 2
  <2>1. \A w : Unread(2, w).type = 2
    BY ReadingIs, Zenon
  <2> QED BY <2>1
<1>4. Step(s, "message", r1, PeelMessage(s, r1)) = r2
  <2>1. Step(s, "message", r1, PeelCovering(r1, "message")) = r2
    <3>1. StepCovers(s, "message", envelope, message, 2, x)
      BY CoverStep
    <3> QED BY <3>1 DEF StepCovers, x2
  <2> QED BY <1>3, <2>1, Zenon DEF PeelMessage
<1>5. Step(s, "envelope", r2, PeelEnvelope(s, r2)) = r3
  <2>1. Step(s, "envelope", r2, PeelCovering(r2, "envelope")) = r3
    <3>1. StepCovers(s, "envelope", loop, envelope, 2, x2)
      BY <1>1, CoverStep
    <3> QED BY <3>1 DEF StepCovers, x3
  <2> QED BY <1>3, <2>1, Zenon DEF PeelEnvelope
<1>6. Step(s, "loop", r3, PeelLoop(s, r3, p)) = r4
  <2>1. /\ Step(s, "loop", r3, PeelCovering(r3, "loop")) = r4
        /\ "loop" \in s.flags => PeelCovering(r3, "loop") = Unread(2, pa)
    <3>1. /\ "loop" \in s.flags => PeelCovering(Unread(2, loop \o x3), "loop") = Unread(2, pa)
          /\ StepCovers(s, "loop", pa, loop, 2, x3)
      BY <1>1, CoverStep
    <3> QED BY <3>1 DEF StepCovers, x4
  <2>2. CASE "loop" \in s.flags
    <3>1. PeelCovering(r3, "loop") = Unread(2, pa)
      BY <2>1, <2>2
    <3>2. (IF Begins(Unread(2, pa), "pa") THEN "with_pa" ELSE "bare") \in p.loops
      BY <2>2, BeginsReading
    <3> HIDE DEF r3, r4
    <3>3. PeelLoop(s, r3, p) = PeelCovering(r3, "loop")
      BY <1>3, <3>1, <3>2, Zenon DEF PeelLoop
    <3> QED BY <2>1, <3>3
  <2>3. CASE "loop" \notin s.flags
    <3>1. \A y : Step(s, "loop", r3, y) = r3
      BY <2>3, StepReading
    <3> HIDE DEF r3, r4
    <3> QED BY <2>1, <3>1
  <2> QED BY <2>2, <2>3
<1>7. r4 = Unread(2, pa)
  BY <1>2, ConcatEmpty
<1> HIDE DEF r2, r3, r4
<1> QED BY <1>4, <1>5, <1>6, <1>7

\* in which form what a loop holds decodes
LoopForm(c) == IF On(c, "pa") THEN "with_pa" ELSE "bare"
LoopDecodes(c, p) == On(c, "loop") => LoopForm(c) \in p.loops

\* A table that is to be read is there to be read.
TableToRead(s, c, p) ==
  "table" \in s.flags =>
    /\ p.table # NoTable /\ p.pa = 0 /\ TableRead(p.table)
    /\ On(c, "signalling")
    /\ On(c, "lct") => OnAny(c, SiSuffix)

LEMMA RawType ==
  ASSUME NEW p, p.n \in Nat
  PROVE  Raw(p) \in Segs /\ Raw(p).kind = "payload" /\ <<Raw(p)>> \in Wires
<1>1. "payload" \in Kinds
  BY DEF Kinds
<1> QED BY <1>1, PlainType, OneWire DEF Raw

LEMMA IndexRead ==
  ASSUME NEW s, NEW c, Shaped(c), Undoes(s, c)
  PROVE  LET index == If(On(c, "pa"), <<Fixed("pa", 3 + 4 * Len(c.rows))>>) IN
         index \in Wires /\ Optional(s, "pa", "pa", index)
<1> DEFINE n == 3 + 4 * Len(c.rows)
           seg == Fixed("pa", n)
<1>1. seg \in Segs /\ seg.kind = "pa"
  <2>1. Len(c.rows) \in Nat
    BY DEF Shaped
  <2>2. n \in Nat /\ "pa" \in FixedKinds
    BY <2>1 DEF FixedKinds
  <2> HIDE DEF n
  <2> QED BY <2>2, FixedType
<1> HIDE DEF seg
<1>2. If(On(c, "pa"), <<seg>>) \in Wires
  BY <1>1, OneWire, IfWire
<1>3. "pa" \in s.flags <=> On(c, "pa")
  BY DEF Undoes, Strips, SiStrips
<1>4. Optional(s, "pa", "pa", If(On(c, "pa"), <<seg>>))
  BY <1>1, <1>3 DEF Optional, If
<1> QED BY <1>2, <1>4 DEF seg

\* The first segment of what the loop holds tells the PA index.
LEMMA IndexFirst ==
  ASSUME NEW s, NEW index, Optional(s, "pa", "pa", index), NEW p, p.n \in Nat
  PROVE  LET pa == index \o <<Raw(p)>> IN
         pa # <<>> /\ Head(pa).kind = "pa" <=> "pa" \in s.flags
<1>1. Raw(p) \in Segs /\ Raw(p).kind = "payload" /\ <<Raw(p)>> \in Wires
  BY RawType
<1> DEFINE raw == Raw(p)
           tail == <<raw>>
<1>2. tail # <<>> /\ Head(tail) = raw
  <2> HIDE DEF raw
  <2> QED BY DEF tail
<1> HIDE DEF raw
<1>3. CASE "pa" \in s.flags
  <2>1. PICK seg \in Segs : seg.kind = "pa" /\ index = <<seg>>
    BY <1>3 DEF Optional
  <2>2. tail \in Wires
    BY <1>1 DEF raw
  <2> HIDE DEF tail
  <2>3. <<seg>> \o tail # <<>> /\ Head(<<seg>> \o tail) = seg
    BY <2>2, OneAndRest
  <2> QED BY <1>3, <2>1, <2>3 DEF tail, raw
<1>4. CASE "pa" \notin s.flags
  <2>1. index \o tail = tail
    <3>1. index = <<>> /\ tail \in Wires
      BY <1>1, <1>4 DEF Optional, raw
    <3> QED BY <3>1, ConcatEmpty
  <2>2. Head(index \o tail).kind # "pa"
    BY <1>1, <1>2, <2>1 DEF raw
  <2> QED BY <1>4, <2>2 DEF tail, raw
<1> QED BY <1>3, <1>4

\* The signalling suffix gives the payload.
LEMMA SuffixRead ==
  ASSUME NEW c, Shaped(c), NEW s, Undoes(s, c), NEW p, p.n \in Nat, LoopDecodes(c, p),
         On(c, "pa") => On(c, "message"), OnAny(c, SiSuffix), TableToRead(s, c, p),
         NEW x, Outside(x)
  PROVE  LET r1 == Unread(2, SiBlob(c, p) \o x)
             r2 == Step(s, "message", r1, PeelMessage(s, r1))
             r3 == Step(s, "envelope", r2, PeelEnvelope(s, r2))
             r4 == Step(s, "loop", r3, PeelLoop(s, r3, p))
             r5 == Step(s, "pa", r4, PeelPa(s, r4))
         IN  Step(s, "table", r5, ReadTable(s, r5, p)) = Unread(2, <<Raw(p)>>)
<1> DEFINE index == If(On(c, "pa"), <<Fixed("pa", 3 + 4 * Len(c.rows))>>)
           pa == index \o <<Raw(p)>>
           loop == Wrap(On(c, "loop"), "loop", 4, pa)
           envelope == Wrap(On(c, "envelope"), "envelope", 4, loop)
           message == Wrap(On(c, "message"), "message", 7, envelope)
<1>1. SiBlob(c, p) = message
  BY DEF SiBlob, Fixed
<1>2. index \in Wires /\ Optional(s, "pa", "pa", index) /\ <<Raw(p)>> \in Wires
  BY IndexRead, RawType
<1>3. pa # <<>> /\ Head(pa).kind = "pa" <=> "pa" \in s.flags
  <2> HIDE DEF index
  <2> QED BY <1>2, IndexFirst
<1> HIDE DEF index
<1>4. pa \in Wires
  BY <1>2, ConcatFacts
<1> HIDE DEF pa
<1>5. \A kind \in SiSuffix : On(c, kind) <=> kind \in s.flags
  BY DEF Undoes, Strips, SiStrips, SiSuffix
<1>6. \A kind \in {"message", "envelope", "loop"} : On(c, kind) <=> kind \in s.flags
  BY <1>5 DEF SiSuffix
<1>7. 4 \in Nat /\ 7 \in Nat
  OBVIOUS
<1>8. Wrapped(s, "loop", pa, loop)
  BY <1>4, <1>6, <1>7, WrapIsWrapped
<1>9. loop \in Wires
  BY <1>4, <1>8, WrappedWire
<1> HIDE DEF loop
<1>10. Wrapped(s, "envelope", loop, envelope)
  BY <1>6, <1>7, <1>9, WrapIsWrapped
<1>11. envelope \in Wires
  BY <1>9, <1>10, WrappedWire
<1> HIDE DEF envelope
<1>12. Wrapped(s, "message", envelope, message)
  BY <1>6, <1>7, <1>11, WrapIsWrapped
<1>13. message \in Wires
  BY <1>11, <1>12, WrappedWire
<1> HIDE DEF message
<1>14. "loop" \in s.flags =>
         (IF pa # <<>> /\ Head(pa).kind = "pa" THEN "with_pa" ELSE "bare") \in p.loops
  <2>1. "pa" \in s.flags <=> On(c, "pa")
    BY <1>5 DEF SiSuffix
  <2>2. "loop" \in s.flags <=> On(c, "loop")
    BY <1>6
  <2> QED BY <1>3, <2>1, <2>2 DEF LoopDecodes, LoopForm
<1>15. {"message", "envelope", "loop"} \cap s.flags # {}
  <2>1. PICK kind \in SiSuffix : On(c, kind)
    BY DEF OnAny, On
  <2>2. \E k \in {"message", "envelope", "loop"} : On(c, k)
    BY <2>1 DEF SiSuffix
  <2> QED BY <1>6, <2>2
<1> DEFINE r1 == Unread(2, message \o x)
           r2 == Step(s, "message", r1, PeelMessage(s, r1))
           r3 == Step(s, "envelope", r2, PeelEnvelope(s, r2))
           r4 == Step(s, "loop", r3, PeelLoop(s, r3, p))
           r5 == Step(s, "pa", r4, PeelPa(s, r4))
           r6 == Unread(2, <<Raw(p)>>)
<1>16. r4 = Unread(2, pa)
  BY <1>4, <1>8, <1>9, <1>10, <1>11, <1>12, <1>13, <1>14, <1>15, SuffixCovered
<1> HIDE DEF r4
<1>17. r5 = r6
  <2>1. r4.type = 2
    BY <1>16, ReadingIs, Zenon
  <2>2. Step(s, "pa", r4, Peel(r4, "pa", 1)) = r6
    <3> DEFINE b == <<Raw(p)>>
    <3>1. b \in Wires
      BY <1>2
    <3> HIDE DEF b
    <3>2. Step(s, "pa", Unread(2, index \o b), Peel(Unread(2, index \o b), "pa", 1)) = Unread(2, b)
      BY <1>2, <3>1, OptionalPeel
    <3> QED BY <1>16, <3>2 DEF b, pa
  <2> QED BY <2>1, <2>2, Zenon DEF PeelPa
<1>18. Step(s, "table", r6, ReadTable(s, r6, p)) = r6
  <2>1. CASE "table" \notin s.flags
    BY <2>1, StepReading
  <2>2. CASE "table" \in s.flags
    <3>1. r6.work = <<Raw(p)>>
      BY ReadingIs, Zenon
    <3> HIDE DEF r6
    <3>2. ReadTable(s, r6, p) = r6
      BY <2>2, <3>1, Zenon DEF ReadTable, TableToRead
    <3>3. Step(s, "table", r6, r6) = r6
      BY Zenon DEF Step
    <3> QED BY <3>2, <3>3
  <2> QED BY <2>1, <2>2
<1> HIDE DEF r5, r6
<1>19. Step(s, "table", r5, ReadTable(s, r5, p)) = r6
  BY <1>17, <1>18
<1> QED BY <1>1, <1>19 DEF r1, r2, r3, r4, r5, r6

\* What is behind the MMTP part.
LEMMA Behindhand ==
  ASSUME NEW c, Shaped(c), SuffixAgrees(c), NEW s, Undoes(s, c), NEW p, p.n \in Nat
  PROVE  LET x == Lct(c) \o Rest(c, p) IN
         /\ Lct(c) \in Wires /\ x \in Wires
         /\ OnAny(c, SiSuffix) => Outside(x)
         /\ ~OnAny(c, SiSuffix) =>
              x = Lct(c) \o <<Raw(p)>> /\ Optional(s, "lct", "lct", Lct(c))
<1> DEFINE n == LctOctets(c)
           seg == Fixed("lct", n)
           l == Lct(c)
           r == Rest(c, p)
<1>1. seg \in Segs /\ seg.kind = "lct" /\ seg.octets = n /\ n \in Nat /\ n > 0
  <2>1. "lct" \in FixedKinds /\ n \in {4, 8, 12}
    BY DEF Shaped, FixedKinds
  <2>2. n \in Nat /\ n > 0
    BY <2>1
  <2> HIDE DEF n
  <2> QED BY <2>1, <2>2, FixedType
<1>2. l = IF On(c, "lct") THEN <<seg>> ELSE <<>>
  BY DEF Lct, If, Fixed
<1>3. /\ On(c, "word0") /\ OnAny(c, SiSuffix) => r = <<>>
      /\ ~(On(c, "word0") /\ OnAny(c, SiSuffix)) => r = <<Raw(p)>>
  BY DEF Rest, If
<1>4. l \in Wires /\ r \in Wires /\ l \o r \in Wires
  BY TrailWire, ConcatFacts
<1> HIDE DEF seg, l, r, n
<1>5. ASSUME OnAny(c, SiSuffix) PROVE Outside(l \o r)
  <2>1. r = <<>>
    BY <1>3, <1>5 DEF SuffixAgrees
  <2>2. l \o r = l
    BY <1>4, <2>1, ConcatEmpty
  <2>3. CASE On(c, "lct")
    <3>1. l = <<seg>> /\ Octets(<<seg>>) = n
      BY <1>1, <1>2, <2>3, OctetsOne
    <3>2. Len(l) = 1
      BY <3>1
    <3> QED BY <1>1, <1>4, <2>2, <3>1, <3>2 DEF Outside
  <2>4. CASE ~On(c, "lct")
    BY <1>2, <1>4, <2>2, <2>4 DEF Outside
  <2> QED BY <2>3, <2>4
<1>6. ASSUME ~OnAny(c, SiSuffix) PROVE l \o r = l \o <<Raw(p)>> /\ Optional(s, "lct", "lct", l)
  <2>1. "lct" \in s.flags <=> On(c, "lct")
    BY <1>6 DEF Undoes
  <2>2. Optional(s, "lct", "lct", l)
    BY <1>1, <1>2, <2>1 DEF Optional
  <2> QED BY <1>3, <1>6, <2>2
<1> QED BY <1>4, <1>5, <1>6 DEF l, r

\* The strips that c has nothing for do nothing.
LEMMA NoSignalling ==
  ASSUME NEW c, NEW s, Undoes(s, c), SuffixAgrees(c), ~On(c, "signalling"), NEW p,
         TableToRead(s, c, p), NEW t, NEW w
  PROVE  SignallingPeeled(s, Unread(t, w), p) = Unread(t, w)
<1>1. ~OnAny(c, SiSuffix)
  BY DEF SuffixAgrees
<1>2. /\ "signalling" \notin s.flags /\ "message" \notin s.flags /\ "envelope" \notin s.flags
      /\ "loop" \notin s.flags /\ "pa" \notin s.flags /\ "table" \notin s.flags
  BY <1>1 DEF Undoes, Strips, SiStrips, SiSuffix, On, OnAny, TableToRead
<1> QED BY <1>2, StepReading, SignallingSteps

LEMMA PeelSignallingReading ==
  ASSUME NEW c, Shaped(c), SignallingFits(c), On(c, "signalling"), NEW s, Undoes(s, c),
         NEW t, NEW w \in Wires
  PROVE  PeelSignalling(s, Unread(t, Signalling(c) \o w)) = Unread(t, w)
<1> DEFINE seg == Seg("signalling", 2, 0, IF c.sig.aggregation THEN {"A"} ELSE {})
           bodies == SigBodies(c)
           r == Unread(t, <<seg>> \o (bodies \o w))
<1>1. seg \in Segs /\ seg.kind = "signalling" /\ seg.marks = IF c.sig.aggregation THEN {"A"} ELSE {}
  <2>1. "signalling" \in Kinds /\ 2 \in Nat /\ 0 \in Nat
        /\ (IF c.sig.aggregation THEN {"A"} ELSE {}) \in SUBSET Marks
    BY DEF Kinds, Marks
  <2> QED BY <2>1, SegType
<1>2. bodies \in Wires /\ Only("body", bodies) /\ Len(bodies) = s.bodies
  <2>1. bodies \in Wires /\ DOMAIN bodies = DOMAIN c.sig.bodies
        /\ \A i \in DOMAIN bodies : bodies[i].kind = "body"
    BY SigBodiesType
  <2>2. bodies \in Seq(Segs) /\ c.sig.bodies \in Seq(Nat)
    BY <2>1 DEF Shaped, Wires
  <2> HIDE DEF bodies
  <2>3. Len(bodies) = Len(c.sig.bodies)
    BY <2>1, <2>2
  <2> QED BY <2>1, <2>3 DEF Only, Undoes
<1>3. Signalling(c) = <<seg>> \o bodies
  BY DEF Signalling, SigBodies
<1> HIDE DEF seg, bodies
<1>4. <<seg>> \in Wires /\ bodies \o w \in Wires
  BY <1>1, <1>2, OneWire, ConcatFacts
<1>5. Signalling(c) \o w = <<seg>> \o (bodies \o w)
  BY <1>2, <1>3, <1>4, ConcatAssoc
<1>6. /\ Begins(r, "signalling") /\ Head(r.work) = seg
      /\ Behind(r, 1) = Unread(t, bodies \o w)
  BY <1>1, <1>4, PeelOne
<1>7. Peel(Unread(t, bodies \o w), "body", s.bodies) = Unread(t, w)
  <2>1. Peel(Unread(t, bodies \o w), "body", Len(bodies)) = Unread(t, w)
    BY <1>2, PeelRun
  <2> QED BY <1>2, <2>1
<1>8. s.bodies # 0 => "A" \in seg.marks
  <2>1. s.bodies # 0 => c.sig.bodies # <<>>
    BY DEF Undoes
  <2> QED BY <1>1, <2>1 DEF SignallingFits
<1> HIDE DEF r
<1>9. PeelSignalling(s, r) = Peel(Behind(r, 1), "body", s.bodies)
  BY <1>6, <1>8 DEF PeelSignalling
<1> QED BY <1>5, <1>6, <1>7, <1>9 DEF r

\* After the MMTP header, in the signalling mode.
LEMMA SignallingRead ==
  ASSUME NEW c, Shaped(c), NEW p, p.n \in Nat, Encodes(c, p), On(c, "signalling"),
         NEW s, Undoes(s, c), LoopDecodes(c, p), TableToRead(s, c, p)
  PROVE  SignallingPeeled(s, Unread(c.payload_type,
                                     MmtpPayload(c, p) \o (Lct(c) \o Rest(c, p))), p)
           = Unread(c.payload_type,
                     IF OnAny(c, SiSuffix) THEN <<Raw(p)>> ELSE Lct(c) \o <<Raw(p)>>)
<1> DEFINE x == Lct(c) \o Rest(c, p)
           blob == If(OnAny(c, SiSuffix), SiBlob(c, p))
           type == c.payload_type
           r0 == Unread(type, Signalling(c) \o (blob \o x))
           r1 == Unread(type, blob \o x)
<1>1. PrefixesAgree(c) /\ SuffixAgrees(c) /\ SignallingFits(c) /\ RowsHold(c, p)
  BY DEF Encodes
<1>2. x \in Wires /\ (OnAny(c, SiSuffix) => Outside(x))
      /\ (~OnAny(c, SiSuffix) => x = Lct(c) \o <<Raw(p)>>)
  BY <1>1, Behindhand
<1>3. blob \in Wires /\ Signalling(c) \in Wires
  BY BlobWire, SignallingWire, IfWire
<1>4. MmtpPayload(c, p) = Signalling(c) \o blob
  BY <1>1, MmtpPayloadIs
<1> HIDE DEF x, blob
<1>5. blob \o x \in Wires
  BY <1>2, <1>3, ConcatFacts
<1>6. MmtpPayload(c, p) \o x = Signalling(c) \o (blob \o x)
  BY <1>2, <1>3, <1>4, ConcatAssoc
<1>7. Step(s, "signalling", r0, PeelSignalling(s, r0)) = r1
  <2>1. "signalling" \in s.flags
    BY DEF Undoes, Strips
  <2>2. PeelSignalling(s, r0) = r1
    BY <1>1, <1>5, PeelSignallingReading
  <2> QED BY <2>1, <2>2, StepReading
<1>8. CASE OnAny(c, SiSuffix)
  <2>1. type = 2 /\ blob = SiBlob(c, p)
    BY <1>1, <1>8 DEF SuffixAgrees, blob, If
  <2>2. On(c, "pa") => On(c, "message")
    BY <1>1 DEF RowsHold
  <2> DEFINE q1 == Unread(2, SiBlob(c, p) \o x)
             q2 == Step(s, "message", q1, PeelMessage(s, q1))
             q3 == Step(s, "envelope", q2, PeelEnvelope(s, q2))
             q4 == Step(s, "loop", q3, PeelLoop(s, q3, p))
             q5 == Step(s, "pa", q4, PeelPa(s, q4))
             q6 == Unread(2, <<Raw(p)>>)
  <2>3. Step(s, "table", q5, ReadTable(s, q5, p)) = q6
    BY <1>2, <1>8, <2>2, SuffixRead
  <2>4. Step(s, "signalling", r0, PeelSignalling(s, r0)) = q1
    BY <1>7, <2>1
  <2> HIDE DEF q1, q2, q3, q4, q5, q6, r0, r1
  <2>5. SignallingPeeled(s, r0, p) = q6
    <3>1. /\ Step(s, "message", q1, PeelMessage(s, q1)) = q2
          /\ Step(s, "envelope", q2, PeelEnvelope(s, q2)) = q3
          /\ Step(s, "loop", q3, PeelLoop(s, q3, p)) = q4
          /\ Step(s, "pa", q4, PeelPa(s, q4)) = q5
      BY DEF q2, q3, q4, q5
    <3> QED BY <2>3, <2>4, <3>1, SignallingSteps
  <2> QED BY <1>6, <1>8, <2>1, <2>5 DEF r0, q6, x
<1>9. CASE ~OnAny(c, SiSuffix)
  <2>1. r1 = Unread(type, Lct(c) \o <<Raw(p)>>)
    <3>1. blob = <<>>
      BY <1>9 DEF blob, If
    <3> QED BY <1>2, <1>9, <3>1, ConcatEmpty
  <2>2. /\ "message" \notin s.flags /\ "envelope" \notin s.flags
        /\ "loop" \notin s.flags /\ "pa" \notin s.flags
    BY <1>9 DEF Undoes, Strips, SiStrips, SiSuffix, On, OnAny
  <2>3. Step(s, "table", r1, ReadTable(s, r1, p)) = r1
    <3>1. CASE "table" \notin s.flags
      BY <3>1, StepReading
    <3>2. CASE "table" \in s.flags
      <4>1. Lct(c) = <<>>
        BY <1>9, <3>2 DEF TableToRead, Lct, If
      <4>2. r1 = Unread(type, <<Raw(p)>>)
        BY <2>1, <4>1, RawType, ConcatEmpty
      <4>3. r1.work = <<Raw(p)>>
        <5>1. Unread(type, <<Raw(p)>>).work = <<Raw(p)>>
          BY ReadingIs, Zenon
        <5> QED BY <4>2, <5>1
      <4> HIDE DEF r1
      <4>4. ReadTable(s, r1, p) = r1
        BY <3>2, <4>3, Zenon DEF ReadTable, TableToRead
      <4>5. Step(s, "table", r1, r1) = r1
        BY Zenon DEF Step
      <4> QED BY <4>4, <4>5
    <3> QED BY <3>1, <3>2
  <2>4. \A flag : \A y : flag \notin s.flags => Step(s, flag, r1, y) = r1
    BY StepReading
  <2> HIDE DEF r0, r1
  <2>5. SignallingPeeled(s, r0, p) = r1
    BY <1>7, <2>2, <2>3, <2>4, SignallingSteps
  <2> QED BY <1>6, <1>9, <2>1, <2>5 DEF r0, x
<1> QED BY <1>8, <1>9

LEMMA MarksAre ==
  ASSUME NEW c
  PROVE  /\ "A" \in IsobmffMarks(c) <=> c.iso.aggregation
         /\ "T" \in IsobmffMarks(c) <=> c.iso.timed
         /\ "2" \in IsobmffMarks(c) <=> c.iso.fragment_type = 2
BY DEF IsobmffMarks

\* The prefix says what the rest of the packet is, with the 6 octets of its own.
LEMMA IsobmffSays ==
  ASSUME NEW c, Shaped(c), NEW p, p.n \in Nat, On(c, "isobmff"), IsobmffFits(c, p),
         NEW seg \in Segs, NEW more \in Wires, Isobmff(c, p) = <<seg>> \o more, seg.kind = "isobmff",
         NEW w \in Wires, Octets(w) = (IF On(c, "lct") THEN LctOctets(c) ELSE 0) + p.n
  PROVE  seg.says = 6 + Octets(more \o w)
<1> DEFINE iso == <<seg>> \o more
<1>1. /\ iso \in Wires /\ iso[1] = seg /\ SubSeq(iso, 2, Len(iso)) = more
  BY OneAndRest
<1>2. 1 \in DOMAIN iso
  <2>1. <<seg>> \in Wires /\ Len(<<seg>>) = 1
    BY OneWire
  <2>2. DOMAIN iso = 1..1 + Len(more) /\ Len(more) \in Nat
    BY <2>1, ConcatFacts
  <2> QED BY <2>2
<1>3. ExactIn(c, iso, w)
  BY IsobmffWire
<1> HIDE DEF iso
<1>4. seg.says = CoveredOctets(c, seg, SubSeq(iso, 2, Len(iso)) \o w)
  <2>1. seg.kind \in LengthKinds /\ 1 + 1 = 2
    BY DEF LengthKinds
  <2>2. iso[1].kind \in LengthKinds =>
          iso[1].says = CoveredOctets(c, iso[1], SubSeq(iso, 1 + 1, Len(iso)) \o w)
    BY <1>2, <1>3, Zenon DEF ExactIn
  <2>3. SubSeq(iso, 1 + 1, Len(iso)) = SubSeq(iso, 2, Len(iso))
    BY <2>1
  <2> QED BY <1>1, <2>1, <2>2, <2>3, Zenon
<1> QED BY <1>1, <1>4 DEF CoveredOctets

LEMMA UnitsRead ==
  ASSUME NEW c, Shaped(c), NEW p, IsobmffFits(c, p), On(c, "isobmff"), c.iso.bodies # <<>>,
         NEW s, Undoes(s, c), NEW timed, timed <=> c.iso.timed, NEW t, NEW w \in Wires
  PROVE  PeelUnits(s, Unread(t, Units(c) \o w), timed) = Unread(t, w)
<1> DEFINE units == Units(c)
           work == units \o w
           r == Unread(t, work)
<1>1. /\ units \in Wires /\ DOMAIN units = DOMAIN c.iso.bodies
      /\ \A i \in DOMAIN c.iso.bodies :
           /\ DuHeader(c) + c.iso.bodies[i] \in Nat
           /\ units[i].kind = "du" /\ units[i].says = U16(DuHeader(c) + c.iso.bodies[i])
  BY UnitsType
<1> HIDE DEF units
<1>2. s.units = c.iso.bodies /\ Len(units) = Len(s.units) /\ s.units # <<>>
  <2>1. units \in Seq(Segs) /\ c.iso.bodies \in Seq(Nat)
    BY <1>1 DEF Shaped, Wires
  <2>2. Len(units) = Len(c.iso.bodies)
    BY <1>1, <2>1
  <2> QED BY <2>2 DEF Undoes
<1>3. DuHeaderStripped(s, timed) = DuHeader(c)
  <2>1. "du_header" \in s.flags <=> On(c, "du_header")
    BY DEF Undoes, Strips
  <2> QED BY <2>1 DEF DuHeaderStripped, DuHeader
<1>4. /\ Len(units) <= Len(work) /\ \A i \in DOMAIN units : work[i] = units[i]
      /\ SubSeq(work, Len(units) + 1, Len(work)) = w
  <2>1. /\ Len(units) \in Nat /\ Len(w) \in Nat /\ Len(work) = Len(units) + Len(w)
        /\ DOMAIN units = 1..Len(units) /\ \A i \in 1..Len(units) : work[i] = units[i]
    BY <1>1, ConcatFacts
  <2>2. SubSeq(work, Len(units) + 1, Len(work)) = w
    BY <1>1, Parts
  <2> HIDE DEF work
  <2> QED BY <2>1, <2>2
<1>5. \A i \in DOMAIN s.units :
        work[i].kind = "du" /\ work[i].says = DuHeader(c) + s.units[i]
  <2> SUFFICES ASSUME NEW i \in DOMAIN c.iso.bodies
               PROVE  work[i].kind = "du" /\ work[i].says = DuHeader(c) + c.iso.bodies[i]
    BY <1>2
  <2>1. work[i] = units[i] /\ DuHeader(c) + c.iso.bodies[i] <= 65535
    BY <1>1, <1>4 DEF IsobmffFits
  <2> DEFINE n == DuHeader(c) + c.iso.bodies[i]
  <2>2. n \in Nat /\ units[i].kind = "du" /\ units[i].says = U16(n) /\ n <= 65535
    BY <1>1, <2>1
  <2> HIDE DEF n
  <2>3. U16(n) = n
    BY <2>2, Unsigned
  <2> QED BY <2>1, <2>2, <2>3 DEF n
<1> HIDE DEF work
<1>6. UnitsGiven(s, timed, work)
  BY <1>2, <1>3, <1>4, <1>5 DEF UnitsGiven
<1>7. r.work = work /\ Behind(r, Len(s.units)) = Unread(t, w)
  <2>1. r.work = work
    BY ReadingIs, Zenon
  <2>2. Behind(r, Len(units)) = Unread(t, SubSeq(work, Len(units) + 1, Len(work)))
    BY BehindReading
  <2> HIDE DEF r
  <2> QED BY <1>2, <1>4, <2>1, <2>2
<1> HIDE DEF r
<1>8. PeelUnits(s, r, timed) = Unread(t, w)
  BY <1>2, <1>6, <1>7 DEF PeelUnits
<1> QED BY <1>8 DEF r, work, units

\* After the MMTP header, in the ISOBMFF mode.
LEMMA IsobmffRead ==
  ASSUME NEW c, Shaped(c), NEW p, p.n \in Nat, PrefixesAgree(c), On(c, "isobmff"),
         IsobmffFits(c, p), NEW s, Undoes(s, c), NEW t,
         NEW w \in Wires, Octets(w) = (IF On(c, "lct") THEN LctOctets(c) ELSE 0) + p.n
  PROVE  PeelIsobmff(s, Unread(t, Isobmff(c, p) \o w)) = Unread(t, w)
<1> DEFINE length == IsobmffLength(c, p)
           marks == IsobmffMarks(c)
           seg == Seg("isobmff", 8, U16(length), marks)
           duCond == On(c, "du_header") /\ ~c.iso.aggregation
           duSeg == Fixed("du_header", DuHeader(c))
           du == If(duCond, <<duSeg>>)
           units == Units(c)
           more == du \o units
           r == Unread(t, <<seg>> \o (more \o w))
           tail == Unread(t, more \o w)
<1>1. Isobmff(c, p) = (<<seg>> \o du) \o units
  BY DEF Isobmff, Fixed, Units, Unit
<1>2. duSeg \in Segs /\ duSeg.kind = "du_header"
  <2>1. "du_header" \in FixedKinds /\ DuHeader(c) \in Nat
    BY DuHeaderType DEF FixedKinds
  <2> QED BY <2>1, FixedType
<1>3. du = (IF duCond THEN <<duSeg>> ELSE <<>>)
  BY DEF If
<1>4. units \in Wires
  BY UnitsType
<1>5. seg \in Segs /\ seg.kind = "isobmff" /\ seg.marks = marks
  <2>1. length \in Nat
    <3>1. UnitOctets(c) \in Nat
      BY UnitsSum, UnitsType, OctetsAre
    <3>2. (IF On(c, "lct") THEN LctOctets(c) ELSE 0) + p.n \in Nat
      BY DEF Shaped
    <3>3. length = 6 + ((IF On(c, "lct") THEN LctOctets(c) ELSE 0) + p.n)
                   + (IF c.iso.aggregation THEN UnitOctets(c) ELSE DuHeader(c))
      BY DEF IsobmffLength
    <3> HIDE DEF length
    <3> QED BY <3>1, <3>2, <3>3, DuHeaderType
  <2> HIDE DEF length, marks
  <2>2. "isobmff" \in Kinds /\ U16(length) \in Nat /\ 8 \in Nat /\ marks \in SUBSET Marks
    BY <2>1, Unsigned, IsobmffMarksType DEF Kinds, LengthKinds, marks
  <2> QED BY <2>2, SegType
<1> HIDE DEF seg, duSeg, du, units, marks
<1>6. du \in Wires /\ <<seg>> \in Wires /\ more \in Wires /\ more \o w \in Wires
  <2>1. du \in Wires
    BY <1>2, <1>3, OneWire, OctetsEmpty
  <2> QED BY <1>4, <1>5, <2>1, OneWire, ConcatFacts
<1>7. Isobmff(c, p) = <<seg>> \o more /\ Isobmff(c, p) \o w = <<seg>> \o (more \o w)
  <2>1. Associates(<<seg>>, du, units)
    BY <1>4, <1>6, Association
  <2>2. Isobmff(c, p) = <<seg>> \o more
    BY <1>1, <2>1 DEF Associates
  <2> HIDE DEF more
  <2>3. Associates(<<seg>>, more, w)
    BY <1>6, Association
  <2> QED BY <2>2, <2>3 DEF Associates
<1>8. seg.says = 6 + Octets(more \o w)
  <2> HIDE DEF more
  <2>1. seg \in Segs /\ more \in Wires /\ Isobmff(c, p) = <<seg>> \o more /\ seg.kind = "isobmff"
    BY <1>5, <1>6, <1>7
  <2> QED BY <2>1, IsobmffSays
<1>9. more \o w = du \o (units \o w) /\ units \o w \in Wires
  <2>1. units \o w \in Wires
    BY <1>4, ConcatFacts
  <2>2. Associates(du, units, w)
    BY <1>4, <1>6, Association
  <2> QED BY <2>1, <2>2 DEF Associates
<1> HIDE DEF more
<1>10. /\ Begins(r, "isobmff") /\ Head(r.work) = seg /\ Behind(r, 1) = tail
  BY <1>5, <1>6, PeelOne
<1>11. tail.work = more \o w
  BY ReadingIs, Zenon
<1>12. "du_header" \in s.flags <=> On(c, "du_header")
  BY DEF Undoes, Strips
<1>13. "du_header" \in s.flags => "2" \in seg.marks
  BY <1>5, <1>12, MarksAre DEF PrefixesAgree, marks
<1>14. /\ "A" \in seg.marks <=> c.iso.aggregation
       /\ "T" \in seg.marks <=> c.iso.timed
  BY <1>5, MarksAre DEF marks
<1> DEFINE timed == "T" \in seg.marks
<1>15. timed <=> c.iso.timed
  BY <1>14
<1> HIDE DEF r, tail, timed
<1>16. PeelIsobmff(s, r) =
         CASE "A" \in seg.marks -> PeelUnits(s, tail, timed)
           [] "A" \notin seg.marks /\ s.units # <<>> -> Fail(r)
           [] OTHER -> IF "du_header" \in s.flags THEN Peel(tail, "du_header", 1) ELSE tail
  BY <1>8, <1>10, <1>11, <1>13, Zenon DEF PeelIsobmff, timed
<1>17. s.units = c.iso.bodies
  BY DEF Undoes
<1>18. CASE c.iso.aggregation
  <2>1. PeelIsobmff(s, r) = PeelUnits(s, tail, timed)
    BY <1>14, <1>16, <1>18
  <2>2. c.iso.bodies # <<>>
    BY <1>18 DEF IsobmffFits
  <2>3. tail = Unread(t, units \o w)
    <3>1. du = <<>>
      BY <1>3, <1>18
    <3> QED BY <1>9, <3>1, ConcatEmpty DEF tail
  <2>4. PeelUnits(s, Unread(t, units \o w), timed) = Unread(t, w)
    BY <1>15, <2>2, UnitsRead DEF units
  <2> QED BY <1>7, <2>1, <2>3, <2>4 DEF r
<1>19. CASE ~c.iso.aggregation
  <2>1. c.iso.bodies = <<>>
    BY <1>19 DEF IsobmffFits
  <2>2. PeelIsobmff(s, r) = IF "du_header" \in s.flags THEN Peel(tail, "du_header", 1) ELSE tail
    BY <1>14, <1>16, <1>17, <1>19, <2>1
  <2>3. units = <<>>
    <3>1. Len(c.iso.bodies) = 0
      BY <2>1
    <3>2. DOMAIN units = {}
      BY <2>1, UnitsType DEF units
    <3> QED BY <1>4, <3>2 DEF Wires
  <2>4. tail = Unread(t, du \o w)
    BY <1>9, <2>3, ConcatEmpty DEF tail
  <2>5. CASE On(c, "du_header")
    <3>1. du = <<duSeg>>
      BY <1>3, <1>19, <2>5
    <3>2. Peel(Unread(t, <<duSeg>> \o w), "du_header", 1) = Unread(t, w)
      BY <1>2, PeelOne
    <3> QED BY <1>7, <1>12, <2>2, <2>4, <2>5, <3>1, <3>2 DEF r
  <2>6. CASE ~On(c, "du_header")
    <3>1. du = <<>>
      BY <1>3, <2>6
    <3>2. tail = Unread(t, w)
      BY <2>4, <3>1, ConcatEmpty
    <3> QED BY <1>7, <1>12, <2>2, <2>6, <3>2 DEF r
  <2> QED BY <2>5, <2>6
<1> QED BY <1>18, <1>19

\* What is left of a packet when only the LCT header can still be in front.
Left(c, p) == IF OnAny(c, SiSuffix) THEN <<Raw(p)>> ELSE Lct(c) \o <<Raw(p)>>

LEMMA LctRead ==
  ASSUME NEW c, Shaped(c), SuffixAgrees(c), NEW s, Undoes(s, c), NEW p, p.n \in Nat, NEW t
  PROVE  LET r == Unread(t, Left(c, p)) IN Step(s, "lct", r, PeelLct(s, r)) = Unread(t, <<Raw(p)>>)
<1>1. CASE OnAny(c, SiSuffix)
  <2>1. "lct" \notin s.flags
    BY <1>1 DEF Undoes
  <2> QED BY <1>1, <2>1, StepReading DEF Left
<1>2. CASE ~OnAny(c, SiSuffix)
  <2>1. Optional(s, "lct", "lct", Lct(c))
    BY <1>2, Behindhand
  <2>2. <<Raw(p)>> \in Wires
    BY RawType
  <2>3. Step(s, "lct", Unread(t, Lct(c) \o <<Raw(p)>>), Peel(Unread(t, Lct(c) \o <<Raw(p)>>), "lct", 1))
          = Unread(t, <<Raw(p)>>)
    BY <2>1, <2>2, OptionalPeel
  <2> QED BY <1>2, <2>3 DEF Left, PeelLct
<1> QED BY <1>1, <1>2

\* After the MMTP header: the payload is found in every mode.
LEMMA PayloadRead ==
  ASSUME NEW c, Shaped(c), NEW p, p.n \in Nat, Encodes(c, p), NEW s, Undoes(s, c),
         LoopDecodes(c, p), TableToRead(s, c, p)
  PROVE  PayloadPeeled(s, SignallingPeeled(s, Unread(TypeRead(c),
                             MmtpPayload(c, p) \o (Lct(c) \o Rest(c, p))), p))
           = Unread(TypeRead(c), <<Raw(p)>>)
<1> DEFINE type == TypeRead(c)
           x == Lct(c) \o Rest(c, p)
           r == Unread(type, MmtpPayload(c, p) \o x)
           left == Unread(type, Left(c, p))
           last == Unread(type, <<Raw(p)>>)
<1>1. PrefixesAgree(c) /\ SuffixAgrees(c) /\ IsobmffFits(c, p)
  BY DEF Encodes
<1>2. Step(s, "lct", left, PeelLct(s, left)) = last
  BY <1>1, LctRead
<1>3. /\ "signalling" \in s.flags <=> On(c, "signalling")
      /\ "isobmff" \in s.flags <=> On(c, "isobmff")
      /\ "gfd" \in s.flags <=> On(c, "gfd")
  BY DEF Undoes, Strips
<1>4. /\ On(c, "signalling") => ~On(c, "isobmff") /\ ~On(c, "gfd")
      /\ On(c, "isobmff") => ~On(c, "signalling") /\ ~On(c, "gfd")
      /\ On(c, "signalling") \/ On(c, "isobmff") \/ On(c, "gfd") => On(c, "word0")
  BY <1>1 DEF PrefixesAgree, On, OnAny
<1>5. \A flag, y : flag \notin s.flags => Step(s, flag, left, y) = left
  BY StepReading
<1>6. ~On(c, "signalling") =>
        x = Lct(c) \o <<Raw(p)>> /\ left = Unread(type, x) /\ x \in Wires
  BY <1>1, Behindhand DEF SuffixAgrees, Left
<1>7. ~On(c, "signalling") => SignallingPeeled(s, r, p) = r
  BY <1>1, NoSignalling
<1>8. CASE On(c, "signalling")
  <2>1. type = c.payload_type
    BY <1>4, <1>8 DEF TypeRead
  <2>2. SignallingPeeled(s, r, p) = left
    BY <1>8, <2>1, SignallingRead DEF Left
  <2> HIDE DEF r, left, last
  <2>3. PayloadPeeled(s, left) = last
    BY <1>2, <1>3, <1>4, <1>5, <1>8, PayloadSteps
  <2> QED BY <2>2, <2>3 DEF r, last
<1>9. CASE On(c, "isobmff")
  <2>1. ~On(c, "signalling") /\ ~On(c, "gfd") /\ ~OnAny(c, SiSuffix)
    BY <1>1, <1>4, <1>9 DEF SuffixAgrees
  <2>2. Octets(x) = (IF On(c, "lct") THEN LctOctets(c) ELSE 0) + p.n
    <3>1. Octets(Trail(c, p)) = (IF On(c, "lct") THEN LctOctets(c) ELSE 0) + p.n
      BY <2>1, TrailWire
    <3>2. Trail(c, p) = x
      <4>1. Rest(c, p) \in Wires
        BY TrailWire
      <4>2. Rest(c, p) \o <<>> = Rest(c, p)
        BY <4>1, ConcatEmpty
      <4> QED BY <4>2 DEF Trail
    <3> QED BY <3>1, <3>2
  <2>3. r = Unread(type, Isobmff(c, p) \o x)
    BY <1>1, <1>9, MmtpPayloadIs
  <2>4. x \in Wires /\ left = Unread(type, x)
    BY <1>6, <2>1
  <2> HIDE DEF x
  <2>5. PeelIsobmff(s, r) = left
    BY <1>1, <1>9, <2>2, <2>3, <2>4, IsobmffRead
  <2>6. "gfd" \notin s.flags /\ "isobmff" \in s.flags
    BY <1>3, <1>9, <2>1
  <2>7. /\ Step(s, "gfd", r, PeelGfd(s, r)) = r
        /\ Step(s, "isobmff", r, PeelIsobmff(s, r)) = left
    BY <2>5, <2>6, StepReading
  <2> HIDE DEF r, left, last
  <2>8. PayloadPeeled(s, r) = last
    BY <1>2, <2>7, PayloadSteps
  <2> QED BY <1>7, <2>1, <2>8 DEF r, last, x
<1>10. CASE On(c, "gfd") /\ ~On(c, "signalling") /\ ~On(c, "isobmff")
  <2> DEFINE seg == Fixed("gfd", 12)
  <2>1. seg \in Segs /\ seg.kind = "gfd"
    <3>1. "gfd" \in FixedKinds /\ 12 \in Nat
      BY DEF FixedKinds
    <3> QED BY <3>1, FixedType
  <2>2. r = Unread(type, <<seg>> \o x) /\ x \in Wires /\ left = Unread(type, x)
    BY <1>1, <1>6, <1>10, MmtpPayloadIs
  <2>3. type = 1
    BY <1>1, <1>4, <1>10 DEF TypeRead, PrefixesAgree
  <2> HIDE DEF seg, x
  <2>4. Peel(r, "gfd", 1) = left
    BY <2>1, <2>2, PeelOne
  <2>5. r.type = 1
    BY <2>3, ReadingIs
  <2>6. "gfd" \in s.flags /\ "isobmff" \notin s.flags
    BY <1>3, <1>10
  <2>7. Step(s, "gfd", r, PeelGfd(s, r)) = left
    <3>1. PeelGfd(s, r) = left
      <4> HIDE DEF r, left
      <4> QED BY <2>4, <2>5 DEF PeelGfd
    <3> QED BY <2>6, <3>1, StepReading
  <2> HIDE DEF r, left, last
  <2>8. PayloadPeeled(s, r) = last
    BY <1>2, <1>5, <2>6, <2>7, PayloadSteps
  <2> QED BY <1>7, <1>10, <2>8 DEF r, last, x
<1>11. CASE ~On(c, "gfd") /\ ~On(c, "signalling") /\ ~On(c, "isobmff")
  <2>1. MmtpPayload(c, p) = <<>>
    BY <1>1, <1>11, MmtpPayloadIs DEF On, OnAny
  <2>2. r = left
    BY <1>6, <1>11, <2>1, ConcatEmpty
  <2> HIDE DEF r, left, last
  <2>3. PayloadPeeled(s, left) = last
    BY <1>2, <1>3, <1>5, <1>11, PayloadSteps
  <2> QED BY <1>7, <1>11, <2>2, <2>3 DEF r, last
<1> QED BY <1>8, <1>9, <1>10, <1>11

\* What verify opens first: TLV-mux and ALP give each the whole of what follows.
LEMMA PacketOpens ==
  ASSUME NEW c, Shaped(c), NEW p, p.n \in Nat, Encodes(c, p)
  PROVE  LET packet == Packet(c, p) IN
         Opens(packet) /\ SubSeq(packet, 3, Len(packet)) = Body(c, p)
<1> DEFINE body == Body(c, p)
           inner == Seg("alp", 2, U11(Octets(body)), {})
           alp == <<inner>> \o body
           outer == Seg("tlv", 3, U16(Octets(alp)), {})
           packet == <<outer>> \o alp
<1>1. body \in Wires /\ Octets(body) \in Nat /\ Octets(body) <= 2047
  BY BodyWire, OctetsAre DEF Encodes, AlpMax
<1>2. Packet(c, p) = packet
  BY DEF Packet
<1> HIDE DEF body
<1>3. inner \in Segs /\ inner.octets = 2 /\ inner.says = Octets(body)
  <2>1. U11(Octets(body)) = Octets(body) /\ U11(Octets(body)) \in Nat
    BY <1>1, Unsigned
  <2>2. "alp" \in Kinds /\ 2 \in Nat
    BY DEF Kinds, LengthKinds
  <2> QED BY <2>1, <2>2, PlainType
<1> HIDE DEF inner
<1>4. /\ <<inner>> \in Wires /\ Octets(<<inner>>) = 2
      /\ alp \in Wires /\ Octets(alp) = Octets(<<inner>>) + Octets(body)
      /\ alp[1] = inner /\ SubSeq(alp, 2, Len(alp)) = body
  BY <1>1, <1>3, OctetsOne, OctetsConcat, OneAndRest
<1>5. Len(alp) = 1 + Len(body) /\ Len(body) \in Nat
  <2>1. Len(<<inner>>) = 1
    OBVIOUS
  <2> QED BY <1>1, <1>4, <2>1, ConcatFacts
<1> HIDE DEF alp
<1>6. outer \in Segs /\ outer.says = Octets(alp)
  <2>1. Octets(alp) \in Nat /\ Octets(alp) <= 65535
    BY <1>1, <1>4
  <2>2. U16(Octets(alp)) = Octets(alp)
    BY <2>1, Unsigned
  <2>3. "tlv" \in Kinds /\ 3 \in Nat
    BY DEF Kinds, LengthKinds
  <2> QED BY <2>1, <2>2, <2>3, PlainType
<1> HIDE DEF outer
<1>7. packet \in Wires /\ packet[1] = outer /\ Tail(packet) = alp
  BY <1>4, <1>6, OneAndRest
<1>8. /\ Len(packet) = 1 + Len(alp) /\ DOMAIN alp = 1..Len(alp)
      /\ \A i \in 1..Len(alp) : packet[1 + i] = alp[i]
  <2>1. Len(<<outer>>) = 1 /\ <<outer>> \in Wires
    BY <1>6, OneWire
  <2> QED BY <1>4, <2>1, ConcatFacts
<1> HIDE DEF packet
<1>9. packet[2] = inner
  BY <1>4, <1>5, <1>8
<1>10. SubSeq(packet, 3, Len(packet)) = body
  <2> DEFINE after == SubSeq(packet, 2 + 1, Len(packet))
  <2>1. 2 \in 0..Len(packet)
    BY <1>5, <1>8
  <2>2. after \in Wires /\ Len(after) = Len(packet) - 2
        /\ \A j \in 1..Len(packet) - 2 : after[j] = packet[2 + j]
    BY <1>7, <2>1, From
  <2> DEFINE behind == SubSeq(alp, 1 + 1, Len(alp))
  <2>3. 1 \in 0..Len(alp)
    BY <1>5
  <2>4. behind \in Wires /\ Len(behind) = Len(alp) - 1
        /\ \A j \in 1..Len(alp) - 1 : behind[j] = alp[1 + j]
    BY <1>4, <2>3, From
  <2>5. behind = body /\ after = SubSeq(packet, 3, Len(packet))
    <3>1. 1 + 1 = 2 /\ 2 + 1 = 3
      OBVIOUS
    <3> QED BY <1>4, <3>1
  <2> HIDE DEF after, behind
  <2>6. Len(after) = Len(behind)
    BY <1>5, <1>8, <2>2, <2>4
  <2>7. ASSUME NEW j \in 1..Len(after) PROVE after[j] = behind[j]
    <3>1. /\ j \in 1..Len(packet) - 2 /\ j \in 1..Len(alp) - 1 /\ 1 + j \in 1..Len(alp)
          /\ 1 + (1 + j) = 2 + j
      BY <1>5, <1>8, <2>2
    <3>2. packet[1 + (1 + j)] = alp[1 + j]
      BY <1>8, <3>1
    <3> QED BY <2>2, <2>4, <3>1, <3>2
  <2> QED BY <2>2, <2>4, <2>5, <2>6, <2>7, SameWire
<1>11. Behind([work |-> packet], 2).work = body
  <2>1. ASSUME NEW y, NEW z PROVE [[work |-> y] EXCEPT !.work = z].work = z
    OBVIOUS
  <2>2. Behind([work |-> packet], 2).work = SubSeq(packet, 2 + 1, Len(packet))
    BY <2>1 DEF Behind
  <2>3. 2 + 1 = 3
    OBVIOUS
  <2> QED BY <1>10, <2>2, <2>3
<1>12. Opens(packet)
  BY <1>3, <1>6, <1>7, <1>9, <1>11 DEF Opens
<1> QED BY <1>2, <1>10, <1>12 DEF body

\* verify, with the strips that undo a configuration, gets the payload back from
\* what encode makes of it: whatever is in front of the payload is taken off, and
\* no more, whichever headers the configuration has, however many extensions and
\* aggregated bodies there are, and of whatever sizes.
THEOREM PacketReadBack ==
  ASSUME NEW c, Shaped(c), NEW p, p.n \in Nat, Encodes(c, p), NEW s, Undoes(s, c),
         LoopDecodes(c, p), TableToRead(s, c, p)
  PROVE  PacketVerifies(s, Packet(c, p), p)
<1> DEFINE packet == Packet(c, p)
           m == MmtpPayload(c, p)
           l == Lct(c)
           rest == Rest(c, p)
           w == m \o (l \o rest)
           last == Unread(TypeRead(c), <<Raw(p)>>)
<1>1. Opens(packet) /\ SubSeq(packet, 3, Len(packet)) = Body(c, p)
  BY PacketOpens
<1>2. m \in Wires /\ l \in Wires /\ rest \in Wires /\ MmtpHeader(c) \in Wires
  BY MmtpPayloadWire, TrailWire, HeaderWire
<1>3. Body(c, p) = ((MmtpHeader(c) \o m) \o l) \o rest
  BY DEF Body, Lct, Rest
<1> HIDE DEF packet, m, l, rest
<1>4. w \in Wires /\ Body(c, p) = MmtpHeader(c) \o w
  <2>1. l \o rest \in Wires /\ w \in Wires
    BY <1>2, ConcatFacts
  <2>2. Regroups(MmtpHeader(c), m, l, rest)
    BY <1>2, Regroup
  <2> QED BY <1>3, <2>1, <2>2 DEF Regroups
<1> HIDE DEF w
<1>5. HeaderPeeled(s, Unread(NoType, MmtpHeader(c) \o w)) = Unread(TypeRead(c), w)
  BY <1>4, HeaderRead DEF Encodes
<1>6. PayloadPeeled(s, SignallingPeeled(s, Unread(TypeRead(c), w), p)) = last
  BY PayloadRead DEF w, m, l, rest
<1>7. last.ok = TRUE /\ last.work = <<Raw(p)>>
  BY ReadingIs, Zenon
<1> HIDE DEF last
<1>8. PayloadPeeled(s, SignallingPeeled(s, HeaderPeeled(s, Unread(NoType, Body(c, p))), p)) = last
  BY <1>4, <1>5, <1>6
<1>9. PacketVerifies(s, packet, p)
  BY <1>1, <1>7, <1>8, Zenon DEF PacketVerifies, Unread
<1> QED BY <1>9 DEF packet

\* verify does not refuse the strips that undo what encode has taken, as long as
\* there is no more to strip of one kind than verify counts.
THEOREM UndoingAgrees ==
  ASSUME NEW c, Shaped(c), NEW p, Encodes(c, p), WithinCounts(c), NEW s, Undoes(s, c),
         c.sig.bodies # <<>> => On(c, "signalling"), c.iso.bodies # <<>> => On(c, "isobmff")
  PROVE  StripsAgree(s)
<1> DEFINE Modes == {"signalling", "isobmff", "gfd"}
<1>1. PrefixesAgree(c) /\ SuffixAgrees(c)
  BY DEF Encodes
<1>2. /\ \A flag \in {"word0", "ts_psn", "counter", "signalling", "isobmff", "du_header", "gfd"} :
           flag \in s.flags <=> On(c, flag)
      /\ \A flag \in SiStrips : flag \in s.flags <=> On(c, flag)
  BY DEF Undoes, Strips, HeaderFlags, SiStrips
<1>3. s.type = IF On(c, "word0") THEN c.payload_type ELSE NoType
  BY DEF Undoes
<1>4. HeaderStripsAgree(s)
  <2>1. /\ "extension" \in s.flags <=> c.extensions # <<>>
        /\ s.extensions = Len(c.extensions) /\ s.extensions \in Nat
        /\ s.extensions # 0 <=> c.extensions # <<>>
        /\ s.extensions <= ExtensionsMax
    BY DEF Undoes, Shaped, WithinCounts
  <2>2. "extension" \in s.flags => "word0" \in s.flags /\ s.extensions \in 1..ExtensionsMax
    <3>1. c.extensions # <<>> => On(c, "word0")
      BY <1>1 DEF PrefixesAgree
    <3>2. 32 \in Nat /\ \A n \in Nat : n # 0 /\ n <= 32 => n \in 1..32
      OBVIOUS
    <3> QED BY <1>2, <2>1, <3>1, <3>2 DEF ExtensionsMax
  <2>3. /\ s.type # NoType => "word0" \in s.flags
        /\ "ts_psn" \in s.flags => "word0" \in s.flags
        /\ "counter" \in s.flags => {"ts_psn", "word0"} \subseteq s.flags
    BY <1>1, <1>2, <1>3 DEF PrefixesAgree, On, OnAny
  <2> QED BY <2>1, <2>2, <2>3 DEF HeaderStripsAgree
<1>5. SignallingStripsAgree(s)
  <2>1. s.bodies = Len(c.sig.bodies) /\ (s.bodies # 0 => c.sig.bodies # <<>>)
        /\ s.bodies <= BodiesMax
    BY DEF Undoes, WithinCounts
  <2>2. "signalling" \in s.flags => "word0" \in s.flags
    BY <1>1, <1>2 DEF PrefixesAgree, On, OnAny
  <2> QED BY <1>2, <2>1, <2>2 DEF SignallingStripsAgree
<1>6. SuffixStripsAgree(s)
  <2> SUFFICES ASSUME s.flags \cap SiStrips # {}
               PROVE  /\ {"word0", "signalling"} \subseteq s.flags
                      /\ s.bodies = 0 /\ s.type = 2 /\ s.flags \cap {"isobmff", "gfd"} = {}
    BY DEF SuffixStripsAgree
  <2>1. OnAny(c, SiSuffix)
    BY <1>2 DEF OnAny, On, SiStrips, SiSuffix
  <2>2. On(c, "signalling") /\ On(c, "word0") /\ c.payload_type = 2 /\ c.sig.bodies = <<>>
    BY <1>1, <2>1 DEF SuffixAgrees
  <2>3. s.bodies = 0
    BY <2>2 DEF Undoes
  <2>4. ~On(c, "isobmff") /\ ~On(c, "gfd")
    BY <1>1, <2>2 DEF PrefixesAgree, On
  <2> QED BY <1>2, <1>3, <2>2, <2>3, <2>4
<1>7. ModeStripsAgree(s)
  <2> DEFINE M == s.flags \cap Modes
  <2>1. /\ ~("isobmff" \in M /\ "signalling" \in M) /\ ~("gfd" \in M /\ "signalling" \in M)
        /\ ~("gfd" \in M /\ "isobmff" \in M)
    BY <1>1, <1>2 DEF PrefixesAgree, On
  <2>2. Cardinality(M) <= 1
    <3>1. M = {} \/ M = {"signalling"} \/ M = {"isobmff"} \/ M = {"gfd"}
      BY <2>1
    <3>2. /\ Cardinality({}) = 0 /\ Cardinality({"signalling"}) = 1
          /\ Cardinality({"isobmff"}) = 1 /\ Cardinality({"gfd"}) = 1
      BY FS_EmptySet, FS_Singleton
    <3> HIDE DEF M
    <3>3. Cardinality(M) = 0 \/ Cardinality(M) = 1
      BY <3>1, <3>2, Zenon
    <3> QED BY <3>3
  <2>3. /\ "isobmff" \in s.flags => "word0" \in s.flags /\ s.type = 0
        /\ "gfd" \in s.flags => "word0" \in s.flags /\ s.type = 1
    BY <1>1, <1>2, <1>3 DEF PrefixesAgree, On, OnAny
  <2>4. s.units # <<>> => "isobmff" \in s.flags
    BY <1>2 DEF Undoes
  <2>5. "du_header" \in s.flags => "isobmff" \in s.flags
    BY <1>1, <1>2 DEF PrefixesAgree
  <2> QED BY <2>2, <2>3, <2>4, <2>5 DEF ModeStripsAgree
<1> QED BY <1>4, <1>5, <1>6, <1>7 DEF StripsAgree

----------------------------------------------------------------------------
(* Reading a table back *)

Gives(reading, fields) == \E given \in reading.given : given \subseteq fields

\* The first link of a chain that a set of fields selects.
FirstOf(readings, fields, i) ==
  /\ i \in 1..Len(readings) /\ Gives(readings[i], fields)
  /\ \A j \in 1..Len(readings) : j < i => ~Gives(readings[j], fields)

\* The last link of a chain asks for nothing.
LEMMA ChosenIsFirst ==
  ASSUME NEW readings, NEW fields, NEW n \in Nat \ {0}, Len(readings) = n,
         Gives(readings[n], fields)
  PROVE  \E i \in 1..n : /\ FirstOf(readings, fields, i)
                        /\ Chosen(readings, fields) = readings[i].item
<1> DEFINE I == {i \in 1..n : Gives(readings[i], fields)}
<1>1. n \in I /\ I \subseteq Nat
  OBVIOUS
<1>2. PICK i \in I : \A j \in I : i <= j
  BY <1>1, Least
<1>3. ASSUME NEW k \in I, \A j \in I : k <= j PROVE k = i
  BY <1>2, <1>3
<1>4. Min(I) = i
  BY <1>2, <1>3 DEF Min
<1>5. Chosen(readings, fields) = readings[Min(I)].item
  BY <1>1 DEF Chosen, SelectInSeq, Gives
<1>6. FirstOf(readings, fields, i)
  BY <1>2 DEF FirstOf
<1> QED BY <1>4, <1>5, <1>6

LEMMA GivesOne ==
  ASSUME NEW item, NEW a, NEW fields
  PROVE  Gives(Reading(item, {{a}}), fields) <=> a \in fields
BY DEF Gives, Reading

LEMMA GivesTwo ==
  ASSUME NEW item, NEW a, NEW b, NEW fields
  PROVE  Gives(Reading(item, {{a, b}}), fields) <=> a \in fields /\ b \in fields
BY DEF Gives, Reading

\* A codec reads the fields of an item where the item has them, if the two
\* have the same shape.
Alike(item, codec) == Len(codec.id) = Len(item.id) /\ codec.location = item.location

\* What is expected of an item that is not a URL tells its shape.
Telling(fields, item) ==
  /\ "id8" \in fields <=> Len(item.id) = 1
  /\ "id16" \in fields <=> Len(item.id) = 2
  /\ "packet_id" \in fields <=> item.location = "packet_id"
  /\ "ipv4_port" \in fields <=> item.location = "ipv4"
  /\ "ipv6_port" \in fields <=> item.location = "ipv6"
  /\ "ipv4_address" \in fields <=> item.location = "ipv4" /\ item.address # "zero"
  /\ "ipv6_address" \in fields <=> item.location = "ipv6" /\ item.address # "zero"

LEMMA ItemTells ==
  ASSUME NEW item, item.location \in Locations \ {"url"}
  PROVE  /\ Telling(IdFields(item) \cup LocationFields(item), item)
         /\ IdFields(item) \cup LocationFields(item) \subseteq
              {"id_length", "id8", "id16", "packet_id", "ipv4_port", "ipv4_address", "ipv6_port",
               "ipv6_address"}
<1>1. /\ "id8" \in IdFields(item) <=> Len(item.id) = 1
      /\ "id16" \in IdFields(item) <=> Len(item.id) = 2
      /\ IdFields(item) \subseteq {"id_length", "id8", "id16"}
  BY DEF IdFields
<1>2. /\ "packet_id" \in LocationFields(item) <=> item.location = "packet_id"
      /\ "ipv4_port" \in LocationFields(item) <=> item.location = "ipv4"
      /\ "ipv6_port" \in LocationFields(item) <=> item.location = "ipv6"
      /\ "ipv4_address" \in LocationFields(item) <=> item.location = "ipv4" /\ item.address # "zero"
      /\ "ipv6_address" \in LocationFields(item) <=> item.location = "ipv6" /\ item.address # "zero"
      /\ LocationFields(item) \subseteq
           {"packet_id", "ipv4_port", "ipv4_address", "ipv6_port", "ipv6_address"}
  BY DEF LocationFields, Locations
<1> QED BY <1>1, <1>2 DEF Telling

LEMMA AssetTells ==
  ASSUME NEW item, item.location \in Locations \ {"url"}
  PROVE  /\ Telling(AssetFields(item), item)
         /\ "location_type" \in AssetFields(item) <=> item.location # "none"
         /\ "descriptors" \in AssetFields(item) <=> item.tail # <<>>
BY ItemTells DEF AssetFields, Telling

LEMMA EntryTells ==
  ASSUME NEW item, item.location \in Locations \ {"url"}
  PROVE  Telling(EntryFields(item), item)
BY ItemTells DEF EntryFields, Telling

\* An asset the encoder validates: no URL, and an id of at most two octets,
\* which a packet id as its location leaves none.
ValidAsset(item) ==
  /\ item.location \in {"none", "packet_id", "ipv4", "ipv6"}
  /\ Len(item.id) \in 0..2
  /\ item.location = "packet_id" => Len(item.id) = 0
  /\ item.tail = <<>> \/ item.tail = DeadBeef

LEMMA Shapes ==
  LET S(item, id, location, tail) ==
        Len(item.id) = id /\ item.location = location /\ Len(item.tail) = tail
  IN
  /\ S(Named(Id16, Lab("ipv6")), 2, "ipv6", 0) /\ S(Named(Id16, Lab("ipv4")), 2, "ipv4", 0)
  /\ S(Named(Id8, Lab("ipv4")), 1, "ipv4", 0) /\ S(Named(Id8, Lab("ipv6")), 1, "ipv6", 0)
  /\ S(Named(Id8, At("ipv6")), 1, "ipv6", 0) /\ S(Named(Id8, At("ipv4")), 1, "ipv4", 0)
  /\ S(Lab("ipv4"), 0, "ipv4", 0) /\ S(Lab("ipv6"), 0, "ipv6", 0)
  /\ S(Named(Id16, At("ipv6")), 2, "ipv6", 0) /\ S(Named(Id16, At("ipv4")), 2, "ipv4", 0)
  /\ S(At("ipv4"), 0, "ipv4", 0) /\ S(At("ipv6"), 0, "ipv6", 0)
  /\ S(At("packet_id"), 0, "packet_id", 0) /\ S(Named(Id8, At("packet_id")), 1, "packet_id", 0)
  /\ S(Named(Id16, Bare), 2, "none", 0) /\ S(Named(Id8, Bare), 1, "none", 0)
  /\ S(With(DeadBeef, Bare), 0, "none", 4) /\ S(Bare, 0, "none", 0)
BY DEF Named, Lab, At, Bare, With, Item, Id8, Id16, DeadBeef

\* A link of a chain: what selects it, and the shape of its item.
Link(reading, fields, selected, id, location, tail) ==
  /\ Gives(reading, fields) <=> selected
  /\ Len(reading.item.id) = id /\ reading.item.location = location
  /\ Len(reading.item.tail) = tail

LEMMA AssetLinks ==
  ASSUME NEW F
  PROVE  /\ Link(AssetReadings[1], F, "id16" \in F /\ "ipv6_address" \in F, 2, "ipv6", 0)
         /\ Link(AssetReadings[2], F, "id16" \in F /\ "ipv4_address" \in F, 2, "ipv4", 0)
         /\ Link(AssetReadings[3], F, "id8" \in F /\ "ipv4_address" \in F, 1, "ipv4", 0)
         /\ Link(AssetReadings[4], F, "id8" \in F /\ "ipv6_address" \in F, 1, "ipv6", 0)
         /\ Link(AssetReadings[5], F, "id8" \in F /\ "ipv6_port" \in F, 1, "ipv6", 0)
         /\ Link(AssetReadings[6], F, "id8" \in F /\ "ipv4_port" \in F, 1, "ipv4", 0)
         /\ Link(AssetReadings[7], F, "ipv4_address" \in F, 0, "ipv4", 0)
         /\ Link(AssetReadings[8], F, "id16" \in F /\ "ipv6_port" \in F, 2, "ipv6", 0)
         /\ Link(AssetReadings[9], F, "id16" \in F /\ "ipv4_port" \in F, 2, "ipv4", 0)
         /\ Link(AssetReadings[10], F, "ipv4_port" \in F, 0, "ipv4", 0)
         /\ Link(AssetReadings[11], F, "ipv6_address" \in F, 0, "ipv6", 0)
         /\ Link(AssetReadings[12], F, "ipv6_port" \in F, 0, "ipv6", 0)
         /\ Link(AssetReadings[13], F, "location_type" \in F \/ "packet_id" \in F,
                 0, "packet_id", 0)
         /\ Link(AssetReadings[14], F, "id16" \in F, 2, "none", 0)
         /\ Link(AssetReadings[15], F, "id8" \in F, 1, "none", 0)
         /\ Link(AssetReadings[16], F, "descriptors" \in F, 0, "none", 4)
         /\ Link(AssetReadings[17], F, TRUE, 0, "none", 0)
<1>1. /\ Gives(AssetId16Ipv6Nz, F) <=> "id16" \in F /\ "ipv6_address" \in F
      /\ Gives(AssetId16Ipv4Nz, F) <=> "id16" \in F /\ "ipv4_address" \in F
      /\ Gives(AssetId8Ipv4Nz, F) <=> "id8" \in F /\ "ipv4_address" \in F
      /\ Gives(AssetId8Ipv6Nz, F) <=> "id8" \in F /\ "ipv6_address" \in F
      /\ Gives(AssetId8Ipv6, F) <=> "id8" \in F /\ "ipv6_port" \in F
      /\ Gives(AssetId8Ipv4, F) <=> "id8" \in F /\ "ipv4_port" \in F
      /\ Gives(AssetIpv4Nz, F) <=> "ipv4_address" \in F
      /\ Gives(AssetId16Ipv6, F) <=> "id16" \in F /\ "ipv6_port" \in F
      /\ Gives(AssetId16Ipv4, F) <=> "id16" \in F /\ "ipv4_port" \in F
      /\ Gives(AssetIpv4, F) <=> "ipv4_port" \in F
      /\ Gives(AssetIpv6Nz, F) <=> "ipv6_address" \in F
      /\ Gives(AssetIpv6, F) <=> "ipv6_port" \in F
      /\ Gives(AssetLocation0, F) <=> "location_type" \in F \/ "packet_id" \in F
      /\ Gives(AssetId16, F) <=> "id16" \in F
      /\ Gives(AssetId8, F) <=> "id8" \in F
      /\ Gives(AssetDescriptors4, F) <=> "descriptors" \in F
      /\ Gives(AssetBare, F) <=> TRUE
  <2>1. Gives(AssetId16Ipv6Nz, F) <=> "id16" \in F /\ "ipv6_address" \in F
    BY GivesTwo DEF AssetId16Ipv6Nz
  <2>2. Gives(AssetId16Ipv4Nz, F) <=> "id16" \in F /\ "ipv4_address" \in F
    BY GivesTwo DEF AssetId16Ipv4Nz
  <2>3. Gives(AssetId8Ipv4Nz, F) <=> "id8" \in F /\ "ipv4_address" \in F
    BY GivesTwo DEF AssetId8Ipv4Nz
  <2>4. Gives(AssetId8Ipv6Nz, F) <=> "id8" \in F /\ "ipv6_address" \in F
    BY GivesTwo DEF AssetId8Ipv6Nz
  <2>5. Gives(AssetId8Ipv6, F) <=> "id8" \in F /\ "ipv6_port" \in F
    BY GivesTwo DEF AssetId8Ipv6
  <2>6. Gives(AssetId8Ipv4, F) <=> "id8" \in F /\ "ipv4_port" \in F
    BY GivesTwo DEF AssetId8Ipv4
  <2>7. Gives(AssetIpv4Nz, F) <=> "ipv4_address" \in F
    BY GivesOne DEF AssetIpv4Nz
  <2>8. Gives(AssetId16Ipv6, F) <=> "id16" \in F /\ "ipv6_port" \in F
    BY GivesTwo DEF AssetId16Ipv6
  <2>9. Gives(AssetId16Ipv4, F) <=> "id16" \in F /\ "ipv4_port" \in F
    BY GivesTwo DEF AssetId16Ipv4
  <2>10. Gives(AssetIpv4, F) <=> "ipv4_port" \in F
    BY GivesOne DEF AssetIpv4
  <2>11. Gives(AssetIpv6Nz, F) <=> "ipv6_address" \in F
    BY GivesOne DEF AssetIpv6Nz
  <2>12. Gives(AssetIpv6, F) <=> "ipv6_port" \in F
    BY GivesOne DEF AssetIpv6
  <2>13. Gives(AssetLocation0, F) <=> "location_type" \in F \/ "packet_id" \in F
    BY DEF Gives, Reading, AssetLocation0
  <2>14. Gives(AssetId16, F) <=> "id16" \in F
    BY GivesOne DEF AssetId16
  <2>15. Gives(AssetId8, F) <=> "id8" \in F
    BY GivesOne DEF AssetId8
  <2>16. Gives(AssetDescriptors4, F) <=> "descriptors" \in F
    BY GivesOne DEF AssetDescriptors4
  <2>17. Gives(AssetBare, F) <=> TRUE
    BY DEF Gives, Reading, AssetBare
  <2> QED BY <2>1, <2>2, <2>3, <2>4, <2>5, <2>6, <2>7, <2>8, <2>9, <2>10, <2>11, <2>12, <2>13,
             <2>14, <2>15, <2>16, <2>17
<1>2. /\ AssetId16Ipv6Nz.item = Named(Id16, Lab("ipv6"))
      /\ AssetId16Ipv4Nz.item = Named(Id16, Lab("ipv4"))
      /\ AssetId8Ipv4Nz.item = Named(Id8, Lab("ipv4"))
      /\ AssetId8Ipv6Nz.item = Named(Id8, Lab("ipv6"))
      /\ AssetId8Ipv6.item = Named(Id8, At("ipv6"))
      /\ AssetId8Ipv4.item = Named(Id8, At("ipv4"))
      /\ AssetIpv4Nz.item = Lab("ipv4")
      /\ AssetId16Ipv6.item = Named(Id16, At("ipv6"))
      /\ AssetId16Ipv4.item = Named(Id16, At("ipv4"))
      /\ AssetIpv4.item = At("ipv4")
      /\ AssetIpv6Nz.item = Lab("ipv6")
      /\ AssetIpv6.item = At("ipv6")
      /\ AssetLocation0.item = At("packet_id")
      /\ AssetId16.item = Named(Id16, Bare)
      /\ AssetId8.item = Named(Id8, Bare)
      /\ AssetDescriptors4.item = With(DeadBeef, Bare)
      /\ AssetBare.item = Bare
  BY DEF Reading, AssetId16Ipv6Nz, AssetId16Ipv4Nz, AssetId8Ipv4Nz, AssetId8Ipv6Nz, AssetId8Ipv6,
         AssetId8Ipv4, AssetIpv4Nz, AssetId16Ipv6, AssetId16Ipv4, AssetIpv4, AssetIpv6Nz,
         AssetIpv6, AssetLocation0, AssetId16, AssetId8, AssetDescriptors4, AssetBare
<1> QED BY <1>1, <1>2, Shapes DEF Link, AssetReadings

\* The codec that verify picks has the shape of the asset, and descriptors only
\* where the asset has them.
LEMMA AssetCodec ==
  ASSUME NEW item, ValidAsset(item)
  PROVE  LET codec == Chosen(AssetReadings, AssetFields(item)) IN
         /\ Alike(item, codec)
         /\ Len(codec.tail) = 0 \/ (Len(codec.tail) = 4 /\ item.tail = DeadBeef)
<1> DEFINE F == AssetFields(item)
           r == AssetReadings
<1>1. /\ Telling(F, item)
      /\ "location_type" \in F <=> item.location # "none"
      /\ "descriptors" \in F <=> item.tail # <<>>
  BY AssetTells DEF ValidAsset, Locations
<1> HIDE DEF F
<1>2. Len(r) = 17
  BY DEF AssetReadings
<1>3. PICK i \in 1..17 : FirstOf(r, F, i) /\ Chosen(r, F) = r[i].item
  <2>1. Gives(r[17], F) /\ 17 \in Nat \ {0}
    BY AssetLinks DEF Link
  <2> HIDE DEF r
  <2> QED BY <1>2, <2>1, ChosenIsFirst
<1>4. Gives(r[i], F) /\ \A j \in 1..17 : j < i => ~Gives(r[j], F)
  BY <1>2, <1>3 DEF FirstOf
<1> HIDE DEF r
<1>5. /\ Alike(item, r[i].item)
      /\ Len(r[i].item.tail) = 0 \/ (Len(r[i].item.tail) = 4 /\ item.tail = DeadBeef)
  <2>1. CASE i = 1
    BY <1>1, <1>4, <2>1, AssetLinks DEF Link, ValidAsset, Telling, Alike, r
  <2>2. CASE i = 2
    BY <1>1, <1>4, <2>2, AssetLinks DEF Link, ValidAsset, Telling, Alike, r
  <2>3. CASE i = 3
    BY <1>1, <1>4, <2>3, AssetLinks DEF Link, ValidAsset, Telling, Alike, r
  <2>4. CASE i = 4
    BY <1>1, <1>4, <2>4, AssetLinks DEF Link, ValidAsset, Telling, Alike, r
  <2>5. CASE i = 5
    BY <1>1, <1>4, <2>5, AssetLinks DEF Link, ValidAsset, Telling, Alike, r
  <2>6. CASE i = 6
    BY <1>1, <1>4, <2>6, AssetLinks DEF Link, ValidAsset, Telling, Alike, r
  <2>7. CASE i = 7
    BY <1>1, <1>4, <2>7, AssetLinks DEF Link, ValidAsset, Telling, Alike, r
  <2>8. CASE i = 8
    BY <1>1, <1>4, <2>8, AssetLinks DEF Link, ValidAsset, Telling, Alike, r
  <2>9. CASE i = 9
    BY <1>1, <1>4, <2>9, AssetLinks DEF Link, ValidAsset, Telling, Alike, r
  <2>10. CASE i = 10
    BY <1>1, <1>4, <2>10, AssetLinks DEF Link, ValidAsset, Telling, Alike, r
  <2>11. CASE i = 11
    BY <1>1, <1>4, <2>11, AssetLinks DEF Link, ValidAsset, Telling, Alike, r
  <2>12. CASE i = 12
    BY <1>1, <1>4, <2>12, AssetLinks DEF Link, ValidAsset, Telling, Alike, r
  <2>13. CASE i = 13
    BY <1>1, <1>4, <2>13, AssetLinks DEF Link, ValidAsset, Telling, Alike, r
  <2>14. CASE i = 14
    <3>1. ~Gives(r[13], F) /\ ("id8" \in F \/ "id16" \in F)
      BY <1>4, <2>14, AssetLinks DEF Link, r
    <3>2. item.location = "none"
      BY <1>1, <3>1, AssetLinks DEF Link, r
    <3>3. Gives(r[14], F)
      BY <1>4, <2>14
    <3> QED BY <1>1, <2>14, <3>2, <3>3, AssetLinks DEF Link, ValidAsset, Telling, Alike, r
  <2>15. CASE i = 15
    <3>1. ~Gives(r[13], F) /\ ("id8" \in F \/ "id16" \in F)
      BY <1>4, <2>15, AssetLinks DEF Link, r
    <3>2. item.location = "none"
      BY <1>1, <3>1, AssetLinks DEF Link, r
    <3>3. Gives(r[15], F)
      BY <1>4, <2>15
    <3> QED BY <1>1, <2>15, <3>2, <3>3, AssetLinks DEF Link, ValidAsset, Telling, Alike, r
  <2>16. CASE i = 16
    BY <1>1, <1>4, <2>16, AssetLinks DEF Link, ValidAsset, Telling, Alike, r
  <2>17. CASE i = 17
    BY <1>1, <1>4, <2>17, AssetLinks DEF Link, ValidAsset, Telling, Alike, r
  <2> QED BY <2>1, <2>2, <2>3, <2>4, <2>5, <2>6, <2>7, <2>8, <2>9, <2>10, <2>11, <2>12, <2>13,
             <2>14, <2>15, <2>16, <2>17
<1> QED BY <1>3, <1>5 DEF F, r

\* A package entry the encoder validates: some location, and an id of at most
\* one octet.
ValidEntry(item) == item.location \in {"packet_id", "ipv4", "ipv6"} /\ Len(item.id) \in 0..1

LEMMA EntryLinks ==
  ASSUME NEW F
  PROVE  /\ Link(EntryReadings[1], F, "id8" \in F /\ "ipv6_address" \in F, 1, "ipv6", 0)
         /\ Link(EntryReadings[2], F, "id8" \in F /\ "ipv6_port" \in F, 1, "ipv6", 0)
         /\ Link(EntryReadings[3], F, "id8" \in F /\ "ipv4_address" \in F, 1, "ipv4", 0)
         /\ Link(EntryReadings[4], F, "id8" \in F /\ "ipv4_port" \in F, 1, "ipv4", 0)
         /\ Link(EntryReadings[5], F, "id8" \in F, 1, "packet_id", 0)
         /\ Link(EntryReadings[6], F, "ipv4_address" \in F, 0, "ipv4", 0)
         /\ Link(EntryReadings[7], F, "ipv4_port" \in F, 0, "ipv4", 0)
         /\ Link(EntryReadings[8], F, "ipv6_address" \in F, 0, "ipv6", 0)
         /\ Link(EntryReadings[9], F, "ipv6_port" \in F, 0, "ipv6", 0)
         /\ Link(EntryReadings[10], F, TRUE, 0, "packet_id", 0)
<1>1. /\ Gives(EntryId8Ipv6Nz, F) <=> "id8" \in F /\ "ipv6_address" \in F
      /\ Gives(EntryId8Ipv6, F) <=> "id8" \in F /\ "ipv6_port" \in F
      /\ Gives(EntryId8Ipv4Nz, F) <=> "id8" \in F /\ "ipv4_address" \in F
      /\ Gives(EntryId8Ipv4, F) <=> "id8" \in F /\ "ipv4_port" \in F
      /\ Gives(EntryId8, F) <=> "id8" \in F
      /\ Gives(EntryIpv4Nz, F) <=> "ipv4_address" \in F
      /\ Gives(EntryIpv4, F) <=> "ipv4_port" \in F
      /\ Gives(EntryIpv6Nz, F) <=> "ipv6_address" \in F
      /\ Gives(EntryIpv6, F) <=> "ipv6_port" \in F
      /\ Gives(EntryPacketId, F) <=> TRUE
  <2>1. Gives(EntryId8Ipv6Nz, F) <=> "id8" \in F /\ "ipv6_address" \in F
    BY GivesTwo DEF EntryId8Ipv6Nz
  <2>2. Gives(EntryId8Ipv6, F) <=> "id8" \in F /\ "ipv6_port" \in F
    BY GivesTwo DEF EntryId8Ipv6
  <2>3. Gives(EntryId8Ipv4Nz, F) <=> "id8" \in F /\ "ipv4_address" \in F
    BY GivesTwo DEF EntryId8Ipv4Nz
  <2>4. Gives(EntryId8Ipv4, F) <=> "id8" \in F /\ "ipv4_port" \in F
    BY GivesTwo DEF EntryId8Ipv4
  <2>5. Gives(EntryId8, F) <=> "id8" \in F
    BY GivesOne DEF EntryId8
  <2>6. Gives(EntryIpv4Nz, F) <=> "ipv4_address" \in F
    BY GivesOne DEF EntryIpv4Nz
  <2>7. Gives(EntryIpv4, F) <=> "ipv4_port" \in F
    BY GivesOne DEF EntryIpv4
  <2>8. Gives(EntryIpv6Nz, F) <=> "ipv6_address" \in F
    BY GivesOne DEF EntryIpv6Nz
  <2>9. Gives(EntryIpv6, F) <=> "ipv6_port" \in F
    BY GivesOne DEF EntryIpv6
  <2>10. Gives(EntryPacketId, F) <=> TRUE
    BY DEF Gives, Reading, EntryPacketId
  <2> QED BY <2>1, <2>2, <2>3, <2>4, <2>5, <2>6, <2>7, <2>8, <2>9, <2>10
<1>2. /\ EntryId8Ipv6Nz.item = Named(Id8, Lab("ipv6"))
      /\ EntryId8Ipv6.item = Named(Id8, At("ipv6"))
      /\ EntryId8Ipv4Nz.item = Named(Id8, Lab("ipv4"))
      /\ EntryId8Ipv4.item = Named(Id8, At("ipv4"))
      /\ EntryId8.item = Named(Id8, At("packet_id"))
      /\ EntryIpv4Nz.item = Lab("ipv4")
      /\ EntryIpv4.item = At("ipv4")
      /\ EntryIpv6Nz.item = Lab("ipv6")
      /\ EntryIpv6.item = At("ipv6")
      /\ EntryPacketId.item = At("packet_id")
  BY DEF Reading, EntryId8Ipv6Nz, EntryId8Ipv6, EntryId8Ipv4Nz, EntryId8Ipv4, EntryId8,
         EntryIpv4Nz, EntryIpv4, EntryIpv6Nz, EntryIpv6, EntryPacketId
<1> QED BY <1>1, <1>2, Shapes DEF Link, EntryReadings

LEMMA EntryCodec ==
  ASSUME NEW item, ValidEntry(item)
  PROVE  LET codec == Chosen(EntryReadings, EntryFields(item)) IN
         /\ Alike(item, codec)
<1> DEFINE F == EntryFields(item)
           r == EntryReadings
<1>1. Telling(F, item)
  BY EntryTells DEF ValidEntry, Locations
<1> HIDE DEF F
<1>2. Len(r) = 10
  BY DEF EntryReadings
<1>3. PICK i \in 1..10 : FirstOf(r, F, i) /\ Chosen(r, F) = r[i].item
  <2>1. Gives(r[10], F) /\ 10 \in Nat \ {0}
    BY EntryLinks DEF Link
  <2> HIDE DEF r
  <2> QED BY <1>2, <2>1, ChosenIsFirst
<1>4. Gives(r[i], F) /\ \A j \in 1..10 : j < i => ~Gives(r[j], F)
  BY <1>2, <1>3 DEF FirstOf
<1> HIDE DEF r
<1>5. /\ Alike(item, r[i].item)
  <2>1. CASE i = 1
    BY <1>1, <1>4, <2>1, EntryLinks DEF Link, ValidEntry, Telling, Alike, r
  <2>2. CASE i = 2
    BY <1>1, <1>4, <2>2, EntryLinks DEF Link, ValidEntry, Telling, Alike, r
  <2>3. CASE i = 3
    BY <1>1, <1>4, <2>3, EntryLinks DEF Link, ValidEntry, Telling, Alike, r
  <2>4. CASE i = 4
    BY <1>1, <1>4, <2>4, EntryLinks DEF Link, ValidEntry, Telling, Alike, r
  <2>5. CASE i = 5
    BY <1>1, <1>4, <2>5, EntryLinks DEF Link, ValidEntry, Telling, Alike, r
  <2>6. CASE i = 6
    BY <1>1, <1>4, <2>6, EntryLinks DEF Link, ValidEntry, Telling, Alike, r
  <2>7. CASE i = 7
    BY <1>1, <1>4, <2>7, EntryLinks DEF Link, ValidEntry, Telling, Alike, r
  <2>8. CASE i = 8
    BY <1>1, <1>4, <2>8, EntryLinks DEF Link, ValidEntry, Telling, Alike, r
  <2>9. CASE i = 9
    BY <1>1, <1>4, <2>9, EntryLinks DEF Link, ValidEntry, Telling, Alike, r
  <2>10. CASE i = 10
    BY <1>1, <1>4, <2>10, EntryLinks DEF Link, ValidEntry, Telling, Alike, r
  <2> QED BY <2>1, <2>2, <2>3, <2>4, <2>5, <2>6, <2>7, <2>8, <2>9, <2>10
<1> QED BY <1>3, <1>5 DEF F, r

\* An IP delivery the encoder validates: no id, and a tail only of a URL.
ValidDelivery(item) ==
  /\ item.location \in {"none", "ipv4", "ipv6", "url"}
  /\ Len(item.id) = 0
  /\ Len(item.tail) \in (IF item.location = "url" THEN {0, 3, 4} ELSE {0})

DeliveryTelling(fields, item) ==
  /\ "ipv4_port" \in fields <=> item.location = "ipv4"
  /\ "ipv6_port" \in fields <=> item.location = "ipv6"
  /\ "ipv4_address" \in fields <=> item.location = "ipv4" /\ item.address # "zero"
  /\ "url_length" \in fields <=> item.location = "url"
  /\ "url_3" \in fields <=> item.location = "url" /\ Len(item.tail) = 3
  /\ "url_4" \in fields <=> item.location = "url" /\ Len(item.tail) = 4

LEMMA DeliveryTells ==
  ASSUME NEW item, item.location \in Locations
  PROVE  DeliveryTelling(DeliveryFields(item), item)
<1>1. DeliveryTelling(LocationFields(item), item)
  <2>1. CASE item.location \in {"none", "packet_id"}
    BY <2>1 DEF LocationFields, DeliveryTelling
  <2>2. CASE item.location = "ipv4"
    BY <2>2 DEF LocationFields, DeliveryTelling
  <2>3. CASE item.location = "ipv6"
    BY <2>3 DEF LocationFields, DeliveryTelling
  <2>4. CASE item.location = "url"
    BY <2>4 DEF LocationFields, DeliveryTelling
  <2> QED BY <2>1, <2>2, <2>3, <2>4 DEF Locations
<1> QED BY <1>1 DEF DeliveryFields, DeliveryTelling

LEMMA UrlShapes ==
  LET url4 == With(<<104, 116, 116, 112>>, At("url"))
      url3 == With(<<108, 97, 98>>, At("url"))
  IN  /\ Len(url4.id) = 0 /\ url4.location = "url" /\ Len(url4.tail) = 4
      /\ Len(url3.id) = 0 /\ url3.location = "url" /\ Len(url3.tail) = 3
      /\ Len(At("url").id) = 0 /\ At("url").location = "url" /\ Len(At("url").tail) = 0
BY DEF With, At, Item

LEMMA DeliveryLinks ==
  ASSUME NEW F
  PROVE  /\ Link(DeliveryReadings[1], F, "ipv4_address" \in F, 0, "ipv4", 0)
         /\ Link(DeliveryReadings[2], F, "ipv4_port" \in F, 0, "ipv4", 0)
         /\ Link(DeliveryReadings[3], F, "ipv6_port" \in F, 0, "ipv6", 0)
         /\ Link(DeliveryReadings[4], F, "url_4" \in F, 0, "url", 4)
         /\ Link(DeliveryReadings[5], F, "url_3" \in F, 0, "url", 3)
         /\ Link(DeliveryReadings[6], F, "url_length" \in F, 0, "url", 0)
         /\ Link(DeliveryReadings[7], F, TRUE, 0, "none", 0)
<1>1. /\ Gives(DeliveryIpv4Nz, F) <=> "ipv4_address" \in F
      /\ Gives(DeliveryIpv4, F) <=> "ipv4_port" \in F
      /\ Gives(DeliveryIpv6, F) <=> "ipv6_port" \in F
      /\ Gives(DeliveryUrl4, F) <=> "url_4" \in F
      /\ Gives(DeliveryUrl3, F) <=> "url_3" \in F
      /\ Gives(DeliveryUrl, F) <=> "url_length" \in F
      /\ Gives(DeliveryBare, F) <=> TRUE
  <2>1. Gives(DeliveryIpv4Nz, F) <=> "ipv4_address" \in F
    BY GivesOne DEF DeliveryIpv4Nz
  <2>2. Gives(DeliveryIpv4, F) <=> "ipv4_port" \in F
    BY GivesOne DEF DeliveryIpv4
  <2>3. Gives(DeliveryIpv6, F) <=> "ipv6_port" \in F
    BY GivesOne DEF DeliveryIpv6
  <2>4. Gives(DeliveryUrl4, F) <=> "url_4" \in F
    BY GivesOne DEF DeliveryUrl4
  <2>5. Gives(DeliveryUrl3, F) <=> "url_3" \in F
    BY GivesOne DEF DeliveryUrl3
  <2>6. Gives(DeliveryUrl, F) <=> "url_length" \in F
    BY GivesOne DEF DeliveryUrl
  <2>7. Gives(DeliveryBare, F) <=> TRUE
    BY DEF Gives, Reading, DeliveryBare
  <2> QED BY <2>1, <2>2, <2>3, <2>4, <2>5, <2>6, <2>7
<1>2. /\ DeliveryIpv4Nz.item = Lab("ipv4")
      /\ DeliveryIpv4.item = At("ipv4")
      /\ DeliveryIpv6.item = At("ipv6")
      /\ DeliveryUrl4.item = With(<<104, 116, 116, 112>>, At("url"))
      /\ DeliveryUrl3.item = With(<<108, 97, 98>>, At("url"))
      /\ DeliveryUrl.item = At("url")
      /\ DeliveryBare.item = Bare
  BY DEF Reading, DeliveryIpv4Nz, DeliveryIpv4, DeliveryIpv6, DeliveryUrl4, DeliveryUrl3,
         DeliveryUrl, DeliveryBare
<1> QED BY <1>1, <1>2, Shapes, UrlShapes DEF Link, DeliveryReadings

LEMMA DeliveryCodec ==
  ASSUME NEW item, ValidDelivery(item)
  PROVE  LET codec == Chosen(DeliveryReadings, DeliveryFields(item)) IN
         /\ Alike(item, codec)
         /\ Len(codec.tail) = Len(item.tail)
<1> DEFINE F == DeliveryFields(item)
           r == DeliveryReadings
<1>1. DeliveryTelling(F, item)
  BY DeliveryTells DEF ValidDelivery, Locations
<1> HIDE DEF F
<1>2. Len(r) = 7
  BY DEF DeliveryReadings
<1>3. PICK i \in 1..7 : FirstOf(r, F, i) /\ Chosen(r, F) = r[i].item
  <2>1. Gives(r[7], F) /\ 7 \in Nat \ {0}
    BY DeliveryLinks DEF Link
  <2> HIDE DEF r
  <2> QED BY <1>2, <2>1, ChosenIsFirst
<1>4. Gives(r[i], F) /\ \A j \in 1..7 : j < i => ~Gives(r[j], F)
  BY <1>2, <1>3 DEF FirstOf
<1> HIDE DEF r
<1>5. /\ Alike(item, r[i].item)
      /\ Len(r[i].item.tail) = Len(item.tail)
  <2>1. CASE i = 1
    BY <1>1, <1>4, <2>1, DeliveryLinks DEF Link, ValidDelivery, DeliveryTelling, Alike, r
  <2>2. CASE i = 2
    BY <1>1, <1>4, <2>2, DeliveryLinks DEF Link, ValidDelivery, DeliveryTelling, Alike, r
  <2>3. CASE i = 3
    BY <1>1, <1>4, <2>3, DeliveryLinks DEF Link, ValidDelivery, DeliveryTelling, Alike, r
  <2>4. CASE i = 4
    BY <1>1, <1>4, <2>4, DeliveryLinks DEF Link, ValidDelivery, DeliveryTelling, Alike, r
  <2>5. CASE i = 5
    BY <1>1, <1>4, <2>5, DeliveryLinks DEF Link, ValidDelivery, DeliveryTelling, Alike, r
  <2>6. CASE i = 6
    <3>1. "url_length" \in F /\ "url_3" \notin F /\ "url_4" \notin F
      BY <1>4, <2>6, DeliveryLinks DEF Link, r
    <3>2. item.location = "url" /\ Len(item.tail) = 0
      BY <1>1, <3>1 DEF DeliveryTelling, ValidDelivery
    <3> QED BY <2>6, <3>2, DeliveryLinks DEF Link, ValidDelivery, Alike, r
  <2>7. CASE i = 7
    BY <1>1, <1>4, <2>7, DeliveryLinks DEF Link, ValidDelivery, DeliveryTelling, Alike, r
  <2> QED BY <2>1, <2>2, <2>3, <2>4, <2>5, <2>6, <2>7
<1> QED BY <1>3, <1>5 DEF F, r

\* The codec of the layout that the encoder completes.
LEMMA CompletedCodec ==
  ASSUME NEW item, item = Named(Id16, At("ipv6"))
  PROVE  Chosen(AssetReadings, AssetFields(item)) = AssetId16Ipv6.item
<1> DEFINE F == AssetFields(item)
           r == AssetReadings
<1>1. Len(item.id) = 2 /\ item.location = "ipv6" /\ item.address = "zero"
  BY DEF Named, Item, Id16, At
<1>2. Telling(F, item)
  BY <1>1, AssetTells DEF Locations
<1> HIDE DEF F
<1>3. /\ "id16" \in F /\ "ipv6_port" \in F
      /\ "id8" \notin F /\ "ipv4_address" \notin F /\ "ipv6_address" \notin F
  BY <1>1, <1>2 DEF Telling
<1>4. Gives(r[8], F) /\ \A i \in 1..7 : ~Gives(r[i], F)
  <2>1. /\ ~Gives(r[1], F) /\ ~Gives(r[2], F) /\ ~Gives(r[3], F) /\ ~Gives(r[4], F)
        /\ ~Gives(r[5], F) /\ ~Gives(r[6], F) /\ ~Gives(r[7], F) /\ Gives(r[8], F)
    BY <1>3, AssetLinks DEF Link
  <2> HIDE DEF r
  <2> QED BY <2>1
<1>5. Len(r) = 17 /\ 17 \in Nat \ {0} /\ Gives(r[17], F) /\ r[8] = AssetId16Ipv6
  BY AssetLinks DEF AssetReadings, Link
<1> HIDE DEF r
<1>6. PICK i \in 1..17 : FirstOf(r, F, i) /\ Chosen(r, F) = r[i].item
  BY <1>5, ChosenIsFirst
<1>7. i = 8
  BY <1>4, <1>5, <1>6 DEF FirstOf
<1> QED BY <1>5, <1>6, <1>7 DEF F, r

LEMMA LocationSize ==
  ASSUME NEW item, item.location \in Locations
  PROVE  LocationOctets(item) \in Nat
BY DEF LocationOctets, Locations

\* A codec reads in place what it has the shape for.
LEMMA ReadInPlace ==
  ASSUME NEW item, NEW codec, Alike(item, codec), NEW fields,
         "loop_length" \in fields => Len(codec.tail) = Len(item.tail)
  PROVE  InPlace(fields, item, codec) /\ LocationOctets(codec) = LocationOctets(item)
<1>1. LocationOctets(codec) = LocationOctets(item)
  BY DEF Alike, LocationOctets
<1>2. ASSUME NEW f \in fields PROVE Ahead(f, item) = Ahead(f, codec)
  BY DEF Alike, Ahead
<1> QED BY <1>1, <1>2 DEF InPlace

\* What the layouts of an MPT come to.
AssetThere(t) ==
  /\ ValidAsset(t.item)
  /\ \/ t.octets = MptPrefix + AssetOctets(t.item)
     \/ t.item = Named(Id16, At("ipv6")) /\ Padded(t.octets) = MptPrefix + AssetOctets(t.item)

LEMMA AssetReadable ==
  ASSUME NEW t \in SiTables, AssetThere(t)
  PROVE  MptPrefix <= t.octets /\ AssetRead(t)
<1> DEFINE codec == Chosen(AssetReadings, AssetFields(t.item))
           item == t.item
           fields == AssetFields(item) \cap AssetFields(codec)
<1>1. /\ Alike(item, codec)
      /\ Len(codec.tail) = 0 \/ (Len(codec.tail) = 4 /\ item.tail = DeadBeef)
  BY AssetCodec DEF AssetThere
<1>2. item.id \in Seq(Nat) /\ item.tail \in Seq(Nat) /\ t.octets \in Nat
      /\ item.location \in Locations
  BY DEF SiTables, Items
<1>3. "loop_length" \notin AssetFields(item)
  BY <1>2, ItemTells DEF AssetFields, AssetThere, ValidAsset
<1> HIDE DEF codec
<1>4. InPlace(fields, item, codec) /\ LocationOctets(codec) = LocationOctets(item)
  BY <1>1, <1>3, ReadInPlace
<1>5. /\ AssetOctets(item) \in Nat /\ AssetOctets(codec) \in Nat
      /\ AssetOctets(codec) <= AssetOctets(item)
  <2> DEFINE a == Len(item.id)
             l == LocationOctets(item)
             x == Len(codec.tail)
             y == Len(item.tail)
  <2>1. a \in Nat /\ l \in Nat /\ y \in Nat
    BY <1>2, LocationSize
  <2>2. x \in Nat /\ x <= y
    <3>1. Len(DeadBeef) = 4
      BY DEF DeadBeef
    <3> QED BY <1>1, <2>1, <3>1
  <2>3. AssetOctets(codec) = 14 + a + l + x /\ AssetOctets(item) = 14 + a + l + y
    BY <1>1, <1>4 DEF AssetOctets, Alike
  <2> HIDE DEF a, l, x, y
  <2> QED BY <2>1, <2>2, <2>3
<1>6. MptPrefix + AssetOctets(codec) <= AssetRoom(t, codec)
  <2>2. t.octets <= Padded(t.octets) /\ Padded(t.octets) \in Nat
    BY <1>2 DEF Padded, MptPrefix
  <2>3. CASE t.octets = MptPrefix + AssetOctets(item)
    BY <1>2, <1>5, <2>2, <2>3 DEF AssetRoom, MptPrefix
  <2>4. CASE item = Named(Id16, At("ipv6")) /\ Padded(t.octets) = MptPrefix + AssetOctets(item)
    <3>1. codec = AssetId16Ipv6.item
      BY <2>4, CompletedCodec DEF codec
    <3> QED BY <1>5, <2>2, <2>4, <3>1 DEF AssetRoom, MptPrefix
  <2> QED BY <2>3, <2>4 DEF AssetThere
<1>7. MptPrefix <= t.octets
  <2>1. Padded(t.octets) = MptPrefix + AssetOctets(item) => MptPrefix <= t.octets
    BY <1>2, <1>5 DEF Padded, MptPrefix
  <2>2. t.octets = MptPrefix + AssetOctets(item) => MptPrefix <= t.octets
    BY <1>2, <1>5 DEF MptPrefix
  <2> QED BY <2>1, <2>2 DEF AssetThere
<1> QED BY <1>4, <1>6, <1>7 DEF AssetRead, codec

EntryThere(t) == ValidEntry(t.item) /\ t.octets = PltPrefix + EntryOctets(t.item)

LEMMA EntryReadable ==
  ASSUME NEW t \in SiTables, EntryThere(t)
  PROVE  PltPrefix <= t.octets /\ EntryRead(t)
<1> DEFINE codec == Chosen(EntryReadings, EntryFields(t.item))
           fields == EntryFields(t.item) \cap EntryFields(codec)
<1>1. Alike(t.item, codec)
  BY EntryCodec DEF EntryThere
<1>2. "loop_length" \notin EntryFields(t.item)
  BY ItemTells DEF EntryFields, EntryThere, ValidEntry, Locations
<1> HIDE DEF codec
<1>3. InPlace(fields, t.item, codec) /\ LocationOctets(codec) = LocationOctets(t.item)
  BY <1>1, <1>2, ReadInPlace
<1>4. EntryOctets(codec) = EntryOctets(t.item)
  BY <1>1, <1>3 DEF EntryOctets, Alike
<1>5. t.octets \in Nat /\ PltPrefix + EntryOctets(t.item) = t.octets
  BY DEF SiTables, EntryThere
<1>6. PltPrefix + EntryOctets(codec) <= t.octets
  <2>1. \A n \in Nat : n <= n
    OBVIOUS
  <2> QED BY <1>4, <1>5, <2>1, Zenon
<1>7. PltPrefix <= t.octets
  <2> DEFINE a == Len(t.item.id)
             l == LocationOctets(t.item)
  <2>1. a \in Nat /\ l \in Nat
    BY LocationSize DEF SiTables, Items
  <2>2. t.octets = 2 + (1 + a + l)
    BY <1>5 DEF EntryOctets, PltPrefix
  <2> HIDE DEF a, l
  <2> QED BY <2>1, <2>2 DEF PltPrefix
<1> QED BY <1>3, <1>6, <1>7 DEF EntryRead, codec

DeliveryThere(t) == ValidDelivery(t.item) /\ t.octets = PltPrefix + DeliveryOctets(t.item)

LEMMA DeliveryReadable ==
  ASSUME NEW t \in SiTables, DeliveryThere(t)
  PROVE  PltPrefix <= t.octets /\ DeliveryRead(t)
<1> DEFINE codec == Chosen(DeliveryReadings, DeliveryFields(t.item))
           fields == DeliveryFields(t.item) \cap DeliveryFields(codec)
<1>1. Alike(t.item, codec) /\ Len(codec.tail) = Len(t.item.tail)
  BY DeliveryCodec DEF DeliveryThere
<1> HIDE DEF codec
<1>2. InPlace(fields, t.item, codec) /\ LocationOctets(codec) = LocationOctets(t.item)
  BY <1>1, ReadInPlace
<1>3. DeliveryOctets(codec) = DeliveryOctets(t.item)
  BY <1>1, <1>2 DEF DeliveryOctets, Alike
<1>4. t.octets \in Nat /\ PltPrefix + DeliveryOctets(t.item) = t.octets
  BY DEF SiTables, DeliveryThere
<1>5. PltPrefix + DeliveryOctets(codec) <= t.octets
  <2>1. \A n \in Nat : n <= n
    OBVIOUS
  <2> QED BY <1>3, <1>4, <2>1, Zenon
<1>6. PltPrefix <= t.octets
  <2> DEFINE l == IF t.item.location = "none" THEN 1 ELSE LocationOctets(t.item)
             n == Len(t.item.tail)
  <2>1. l \in Nat /\ n \in Nat
    BY LocationSize DEF SiTables, Items
  <2>2. t.octets = 2 + (6 + l + n)
    BY <1>4 DEF DeliveryOctets, PltPrefix
  <2> HIDE DEF l, n
  <2> QED BY <2>1, <2>2 DEF PltPrefix
<1> QED BY <1>2, <1>5, <1>6 DEF DeliveryRead, codec

\* An asset of an MPT, whatever length its header gives.
LEMMA AssetHolds ==
  ASSUME NEW t, NEW n, NEW item, Asset(t, n, item), ValidAsset(item)
  PROVE  AssetThere(t)
BY DEF Asset, AssetIn, AssetThere

LEMMA EntryHolds ==
  ASSUME NEW t, NEW n, NEW item, Entry(t, n, item), ValidEntry(item)
  PROVE  EntryThere(t) /\ t.entries = 1
BY DEF Entry, EntryThere

LEMMA DeliveryHolds ==
  ASSUME NEW t, NEW n, NEW item, Delivery(t, n, item), ValidDelivery(item)
  PROVE  DeliveryThere(t) /\ t.entries = 0
BY DEF Delivery, DeliveryThere

\* Neither the address nor the port of a delivery says where its octets are.
LEMMA AnyAddressHolds ==
  ASSUME NEW t \in SiTables, NEW n, NEW location \in {"ipv4", "ipv6"}, AnyAddress(t, n, location)
  PROVE  DeliveryThere(t) /\ t.entries = 0
<1> DEFINE u == [t EXCEPT !.item.address = "zero", !.item.port = 0]
<1>1. /\ u.octets = t.octets /\ u.entries = t.entries
      /\ u.item.id = t.item.id /\ u.item.location = t.item.location /\ u.item.tail = t.item.tail
  BY DEF SiTables, Items
<1> HIDE DEF u
<1>2. Delivery(u, n, At(location))
  BY DEF AnyAddress, u
<1>3. /\ t.entries = 0 /\ t.octets = PltPrefix + DeliveryOctets(u.item)
      /\ t.item.id = <<>> /\ t.item.location = location /\ t.item.tail = <<>>
  BY <1>1, <1>2 DEF Delivery, At, Item
<1>4. DeliveryOctets(u.item) = DeliveryOctets(t.item)
  BY <1>1 DEF DeliveryOctets, LocationOctets
<1>5. ValidDelivery(t.item)
  BY <1>3 DEF ValidDelivery
<1> QED BY <1>3, <1>4, <1>5 DEF DeliveryThere

LEMMA AssetsValid ==
  /\ ValidAsset(Bare)
  /\ ValidAsset(Named(Id8, Bare))
  /\ ValidAsset(Named(Id16, Bare))
  /\ ValidAsset(At("packet_id"))
  /\ ValidAsset(At("ipv4"))
  /\ ValidAsset(Lab("ipv4"))
  /\ ValidAsset(Named(Id8, Lab("ipv4")))
  /\ ValidAsset(Named(Id8, Lab("ipv6")))
  /\ ValidAsset(Named(Id16, At("ipv4")))
  /\ ValidAsset(Named(Id16, Lab("ipv4")))
  /\ ValidAsset(Named(Id16, Lab("ipv6")))
  /\ ValidAsset(Named(Id16, With(DeadBeef, Bare)))
  /\ ValidAsset(Named(Id8, With(DeadBeef, Bare)))
  /\ ValidAsset(At("ipv6"))
  /\ ValidAsset(Lab("ipv6"))
  /\ ValidAsset(Named(Id8, At("ipv4")))
  /\ ValidAsset(Named(Id8, At("ipv6")))
  /\ ValidAsset(With(DeadBeef, Bare))
  /\ ValidAsset(Named(Id16, At("ipv6")))
BY DEF ValidAsset, Named, Lab, At, Bare, With, Item, Id8, Id16, DeadBeef

LEMMA EntriesValid ==
  /\ ValidEntry(At("packet_id"))
  /\ ValidEntry(Named(Id8, At("packet_id")))
  /\ ValidEntry(At("ipv4"))
  /\ ValidEntry(Lab("ipv4"))
  /\ ValidEntry(Named(Id8, Lab("ipv4")))
  /\ ValidEntry(Named(Id8, Lab("ipv6")))
  /\ ValidEntry(Named(Id8, At("ipv4")))
  /\ ValidEntry(Named(Id8, At("ipv6")))
  /\ ValidEntry(At("ipv6"))
  /\ ValidEntry(Lab("ipv6"))
BY DEF ValidEntry, Named, Lab, At, Item, Id8

LEMMA DeliveriesValid ==
  /\ ValidDelivery(Bare)
  /\ ValidDelivery(Lab("ipv4"))
  /\ ValidDelivery(At("url"))
  /\ ValidDelivery(With(<<108, 97, 98>>, At("url")))
  /\ ValidDelivery(With(<<104, 116, 116, 112>>, At("url")))
BY DEF ValidDelivery, Lab, At, Bare, With, Item

\* Whichever layout an MPT has passed, it has its asset where the layout puts it,
\* or no octets for one.
LEMMA MptHasItem ==
  ASSUME NEW flags, NEW layout \in flags \cap MptLayouts, NEW t, MptLayoutsHold(flags, t)
  PROVE  t.octets = MptPrefix \/ AssetThere(t)
<1>1. CASE layout = "mpt_table_body_prefix"
  BY <1>1 DEF MptLayoutsHold, MptTableBodyPrefix
<1>2. CASE layout = "mpt_asset"
  BY <1>2, AssetHolds, AssetsValid DEF MptLayoutsHold, MptAsset
<1>3. CASE layout = "mpt_asset_id8"
  BY <1>3, AssetHolds, AssetsValid DEF MptLayoutsHold, MptAssetId8
<1>4. CASE layout = "mpt_asset_id16"
  BY <1>4, AssetHolds, AssetsValid DEF MptLayoutsHold, MptAssetId16
<1>5. CASE layout = "mpt_asset_location0"
  BY <1>5, AssetHolds, AssetsValid DEF MptLayoutsHold, MptAssetLocation0
<1>6. CASE layout = "mpt_asset_location_ipv4"
  BY <1>6, AssetHolds, AssetsValid DEF MptLayoutsHold, MptAssetLocationIpv4
<1>7. CASE layout = "mpt_asset_location_ipv4_nz"
  BY <1>7, AssetHolds, AssetsValid DEF MptLayoutsHold, MptAssetLocationIpv4Nz
<1>8. CASE layout = "mpt_asset_id8_location_ipv4_nz"
  BY <1>8, AssetHolds, AssetsValid DEF MptLayoutsHold, MptAssetId8LocationIpv4Nz
<1>9. CASE layout = "mpt_asset_id8_location_ipv6_nz"
  BY <1>9, AssetHolds, AssetsValid DEF MptLayoutsHold, MptAssetId8LocationIpv6Nz
<1>10. CASE layout = "mpt_asset_id16_location_ipv4"
  BY <1>10, AssetHolds, AssetsValid DEF MptLayoutsHold, MptAssetId16LocationIpv4
<1>11. CASE layout = "mpt_asset_id16_location_ipv4_nz"
  BY <1>11, AssetHolds, AssetsValid DEF MptLayoutsHold, MptAssetId16LocationIpv4Nz
<1>12. CASE layout = "mpt_asset_id16_location_ipv6"
  BY <1>12, AssetsValid DEF MptLayoutsHold, MptAssetId16LocationIpv6, AssetIn, AssetThere
<1>13. CASE layout = "mpt_asset_id16_location_ipv6_nz"
  BY <1>13, AssetHolds, AssetsValid DEF MptLayoutsHold, MptAssetId16LocationIpv6Nz
<1>14. CASE layout = "mpt_asset_id16_descriptors4"
  BY <1>14, AssetHolds, AssetsValid DEF MptLayoutsHold, MptAssetId16Descriptors4
<1>15. CASE layout = "mpt_asset_id8_descriptors4"
  BY <1>15, AssetHolds, AssetsValid DEF MptLayoutsHold, MptAssetId8Descriptors4
<1>16. CASE layout = "mpt_asset_location_ipv6"
  BY <1>16, AssetHolds, AssetsValid DEF MptLayoutsHold, MptAssetLocationIpv6
<1>17. CASE layout = "mpt_asset_location_ipv6_nz"
  BY <1>17, AssetHolds, AssetsValid DEF MptLayoutsHold, MptAssetLocationIpv6Nz
<1>18. CASE layout = "mpt_asset_id8_location_ipv4"
  BY <1>18, AssetHolds, AssetsValid DEF MptLayoutsHold, MptAssetId8LocationIpv4
<1>19. CASE layout = "mpt_asset_id8_location_ipv6"
  BY <1>19, AssetHolds, AssetsValid DEF MptLayoutsHold, MptAssetId8LocationIpv6
<1>20. CASE layout = "mpt_asset_descriptors4"
  BY <1>20, AssetHolds, AssetsValid DEF MptLayoutsHold, MptAssetDescriptors4
<1> QED BY <1>1, <1>2, <1>3, <1>4, <1>5, <1>6, <1>7, <1>8, <1>9, <1>10, <1>11, <1>12, <1>13,
           <1>14, <1>15, <1>16, <1>17, <1>18, <1>19, <1>20 DEF MptLayouts

PltItemThere(t) ==
  \/ t.octets = PltPrefix
  \/ t.entries = 1 /\ EntryThere(t)
  \/ t.entries = 0 /\ DeliveryThere(t)

LEMMA PltHasItem ==
  ASSUME NEW flags, NEW layout \in flags \cap PltLayouts, NEW t \in SiTables,
         PltLayoutsHold(flags, t)
  PROVE  PltItemThere(t)
<1>1. CASE layout = "plt_table_body_prefix"
  BY <1>1 DEF PltLayoutsHold, PltItemThere, PltTableBodyPrefix
<1>2. CASE layout = "plt_delivery_info"
  BY <1>2, DeliveryHolds, DeliveriesValid DEF PltLayoutsHold, PltItemThere, PltDeliveryInfo
<1>3. CASE layout = "plt_delivery_info_ipv4"
  BY <1>3, AnyAddressHolds DEF PltLayoutsHold, PltItemThere, PltDeliveryInfoIpv4
<1>4. CASE layout = "plt_delivery_info_ipv4_nz"
  BY <1>4, DeliveryHolds, DeliveriesValid DEF PltLayoutsHold, PltItemThere, PltDeliveryInfoIpv4Nz
<1>5. CASE layout = "plt_delivery_info_ipv6"
  BY <1>5, AnyAddressHolds DEF PltLayoutsHold, PltItemThere, PltDeliveryInfoIpv6
<1>6. CASE layout = "plt_delivery_info_url"
  BY <1>6, DeliveryHolds, DeliveriesValid DEF PltLayoutsHold, PltItemThere, PltDeliveryInfoUrl
<1>7. CASE layout = "plt_delivery_info_url_3"
  BY <1>7, DeliveryHolds, DeliveriesValid DEF PltLayoutsHold, PltItemThere, PltDeliveryInfoUrl3
<1>8. CASE layout = "plt_delivery_info_url_4"
  BY <1>8, DeliveryHolds, DeliveriesValid DEF PltLayoutsHold, PltItemThere, PltDeliveryInfoUrl4
<1>9. CASE layout = "plt_package_entry"
  BY <1>9, EntryHolds, EntriesValid DEF PltLayoutsHold, PltItemThere, PltPackageEntry
<1>10. CASE layout = "plt_package_entry_id8"
  BY <1>10, EntryHolds, EntriesValid DEF PltLayoutsHold, PltItemThere, PltPackageEntryId8
<1>11. CASE layout = "plt_package_entry_ipv4"
  BY <1>11, EntryHolds, EntriesValid DEF PltLayoutsHold, PltItemThere, PltPackageEntryIpv4
<1>12. CASE layout = "plt_package_entry_ipv4_nz"
  BY <1>12, EntryHolds, EntriesValid DEF PltLayoutsHold, PltItemThere, PltPackageEntryIpv4Nz
<1>13. CASE layout = "plt_package_entry_id8_location_ipv4_nz"
  BY <1>13, EntryHolds, EntriesValid DEF PltLayoutsHold, PltItemThere,
         PltPackageEntryId8LocationIpv4Nz
<1>14. CASE layout = "plt_package_entry_id8_location_ipv6_nz"
  BY <1>14, EntryHolds, EntriesValid DEF PltLayoutsHold, PltItemThere,
         PltPackageEntryId8LocationIpv6Nz
<1>15. CASE layout = "plt_package_entry_id8_location_ipv4"
  BY <1>15, EntryHolds, EntriesValid DEF PltLayoutsHold, PltItemThere,
         PltPackageEntryId8LocationIpv4
<1>16. CASE layout = "plt_package_entry_id8_location_ipv6"
  BY <1>16, EntryHolds, EntriesValid DEF PltLayoutsHold, PltItemThere,
         PltPackageEntryId8LocationIpv6
<1>17. CASE layout = "plt_package_entry_ipv6"
  BY <1>17, EntryHolds, EntriesValid DEF PltLayoutsHold, PltItemThere, PltPackageEntryIpv6
<1>18. CASE layout = "plt_package_entry_ipv6_nz"
  BY <1>18, EntryHolds, EntriesValid DEF PltLayoutsHold, PltItemThere, PltPackageEntryIpv6Nz
<1> QED BY <1>1, <1>2, <1>3, <1>4, <1>5, <1>6, <1>7, <1>8, <1>9, <1>10, <1>11, <1>12, <1>13,
           <1>14, <1>15, <1>16, <1>17, <1>18 DEF PltLayouts

\* A table that passes the validation of a layout is read back: the chain of
\* else-ifs picks, from the fields that are expected, a codec that finds each of
\* them where the table has it, whatever the counts and the values are.
THEOREM ValidatedTableRead ==
  ASSUME NEW c, NEW p, p.table = NoTable \/ p.table \in SiTables, p.pa = 0,
         LayoutsAgree(c), TablesHold(c, p), LayoutsOn(c.flags) # {}
  PROVE  p.table # NoTable /\ TableRead(p.table)
<1> DEFINE t == p.table
<1>1. PICK layout \in c.flags : layout \in MptLayouts \cup PltLayouts
  BY DEF LayoutsOn, Layouts
<1>2. ASSUME TableOf(c, p) # NoTable
      PROVE  TableOf(c, p) = t /\ t # NoTable /\ t \in SiTables /\ TableDecodes(t)
  BY <1>2 DEF TableOf
<1> HIDE DEF t
<1>3. CASE layout \in MptLayouts
  <2>1. MptHolds(c, p)
    BY <1>1, <1>3 DEF LayoutsAgree, BodyRequired, TablesHold, On
  <2>2. /\ t # NoTable /\ t \in SiTables /\ TableDecodes(t)
        /\ t.table_id = MptTableId /\ MptLayoutsHold(c.flags, t)
    BY <1>2, <2>1 DEF MptHolds
  <2>3. t.octets = MptPrefix \/ AssetThere(t)
    BY <1>1, <1>3, <2>2, MptHasItem
  <2>4. MptPrefix <= t.octets /\ (MptPrefix < t.octets => AssetRead(t))
    <3>1. CASE t.octets = MptPrefix
      BY <3>1 DEF MptPrefix
    <3>2. CASE AssetThere(t)
      BY <2>2, <3>2, AssetReadable
    <3> QED BY <2>3, <3>1, <3>2
  <2> QED BY <2>2, <2>4 DEF TableRead, t
<1>4. CASE layout \in PltLayouts
  <2>1. PltHolds(c, p)
    BY <1>1, <1>4 DEF LayoutsAgree, BodyRequired, TablesHold, On
  <2>2. /\ t # NoTable /\ t \in SiTables /\ TableDecodes(t)
        /\ t.table_id = PltTableId /\ PltLayoutsHold(c.flags, t)
    BY <1>2, <2>1 DEF PltHolds
  <2>3. PltItemThere(t)
    BY <1>1, <1>4, <2>2, PltHasItem
  <2>4. /\ PltPrefix <= t.octets
        /\ t.entries > 0 /\ PltPrefix < t.octets => EntryRead(t)
        /\ t.entries = 0 /\ PltPrefix < t.octets => DeliveryRead(t)
    <3>1. CASE t.octets = PltPrefix
      BY <3>1 DEF PltPrefix
    <3>2. CASE t.entries = 1 /\ EntryThere(t)
      BY <2>2, <3>2, EntryReadable
    <3>3. CASE t.entries = 0 /\ DeliveryThere(t)
      BY <2>2, <3>3, DeliveryReadable
    <3> QED BY <2>3, <3>1, <3>2, <3>3 DEF PltItemThere
  <2>5. t.table_id # MptTableId
    BY <2>2 DEF PltTableId, MptTableId
  <2> QED BY <2>2, <2>4, <2>5 DEF TableRead, t
<1> QED BY <1>1, <1>3, <1>4

=============================================================================
