---------------------------- MODULE SuiteRun_proofs ----------------------------
(***************************************************************************)
(* Theorems about SuiteRun, for every submission, behaviour, measurement   *)
(* and bound: the run is the plan, an untouched bundle of it is accepted,  *)
(* whatever the server accepts follows from the traces it was given, and no *)
(* rule passes that was not evaluated.                                     *)
(***************************************************************************)
EXTENDS SuiteRun, FiniteSetTheorems, FunctionTheorems, SequenceTheorems, NaturalsInduction,
        WellFoundedInduction, TLAPS

(* Lists. Two that give the same members in the same places are equal,     *)
(* however they were put together; the plan is a flattened list of lists,  *)
(* and FlattenSeq is a recursive function, so what it returns is shown by  *)
(* counting its passes.                                                    *)

LEMMA Counting ==
  ASSUME NEW S \in SUBSET Nat, 0 \in S, \A n \in S : n + 1 \in S
  PROVE  S = Nat
  <1>1. SUFFICES ASSUME Nat \ S # {}
                 PROVE  FALSE
    OBVIOUS
  <1>2. PICK x \in Nat \ S : \A y \in Nat \ S : <<y, x>> \notin OpToRel(<, Nat)
    BY <1>1, WFMin, NatLessThanWellFounded, Zenon
  <1>3. \A y \in Nat \ S : ~(y < x)
    BY <1>2, Zenon DEF OpToRel
  <1>4. x # 0 /\ x - 1 \in Nat /\ x = (x - 1) + 1
    OBVIOUS
  <1>5. x - 1 \in S
    BY <1>3, <1>4
  <1> QED BY <1>4, <1>5

LEMMA ListedInOrder ==
  ASSUME NEW S, NEW n \in Nat, NEW f \in [1 .. n -> S]
  PROVE  f \in Seq(S) /\ Len(f) = n
  OBVIOUS

LEMMA SameSize ==
  ASSUME NEW S, NEW T, NEW f \in Bijection(S, T), IsFiniteSet(S)
  PROVE  IsFiniteSet(T) /\ Cardinality(T) = Cardinality(S)
  BY FS_Bijection DEF ExistsBijection

LEMMA Concatenated ==
  ASSUME NEW X, NEW s \in Seq(X), NEW t \in Seq(X)
  PROVE  /\ s \o t \in Seq(X) /\ Range(s \o t) = Range(s) \cup Range(t)
         /\ IsInjective(s) /\ IsInjective(t) /\ Range(s) \cap Range(t) = {} => IsInjective(s \o t)
  <1>1. /\ s \o t \in Seq(X) /\ Len(s \o t) = Len(s) + Len(t)
        /\ \A i \in 1 .. Len(s) + Len(t) : (s \o t)[i] = IF i <= Len(s) THEN s[i] ELSE t[i - Len(s)]
    BY ConcatProperties
  <1>2. Range(s \o t) = Range(s) \cup Range(t)
    BY RangeConcatenation
  <1>3. ASSUME IsInjective(s), IsInjective(t), Range(s) \cap Range(t) = {}
        PROVE  IsInjective(s \o t)
    <2> DEFINE r == s \o t
    <2>1. SUFFICES ASSUME NEW i \in 1 .. Len(s) + Len(t), NEW j \in 1 .. Len(s) + Len(t), r[i] = r[j]
                   PROVE  i = j
      BY <1>1 DEF IsInjective
    <2>2. DOMAIN s = 1 .. Len(s) /\ DOMAIN t = 1 .. Len(t) /\ Len(s) \in Nat /\ Len(t) \in Nat
      OBVIOUS
    <2>3. CASE i <= Len(s) /\ j <= Len(s)
      <3>1. s[i] = s[j] /\ i \in DOMAIN s /\ j \in DOMAIN s
        BY <1>1, <2>1, <2>2, <2>3
      <3> QED BY <1>3, <3>1 DEF IsInjective
    <2>4. CASE i > Len(s) /\ j > Len(s)
      <3>1. t[i - Len(s)] = t[j - Len(s)] /\ i - Len(s) \in DOMAIN t /\ j - Len(s) \in DOMAIN t
        BY <1>1, <2>1, <2>2, <2>4
      <3>2. i - Len(s) = j - Len(s)
        BY <1>3, <3>1 DEF IsInjective
      <3> QED BY <2>2, <3>2
    <2>5. CASE i <= Len(s) /\ j > Len(s)
      <3>1. s[i] = t[j - Len(s)] /\ i \in DOMAIN s /\ j - Len(s) \in DOMAIN t
        BY <1>1, <2>1, <2>2, <2>5
      <3> QED BY <1>3, <3>1 DEF Range
    <2>6. CASE i > Len(s) /\ j <= Len(s)
      <3>1. s[j] = t[i - Len(s)] /\ j \in DOMAIN s /\ i - Len(s) \in DOMAIN t
        BY <1>1, <2>1, <2>2, <2>6
      <3> QED BY <1>3, <3>1 DEF Range
    <2> QED BY <2>2, <2>3, <2>4, <2>5, <2>6
  <1> QED BY <1>1, <1>2, <1>3

Apart(seqs) ==
    /\ \A i \in 1 .. Len(seqs) : IsInjective(seqs[i])
    /\ \A i, j \in 1 .. Len(seqs) : i # j => Range(seqs[i]) \cap Range(seqs[j]) = {}

LEMMA FlattenIsAPass ==
  ASSUME NEW X, NEW seqs \in Seq(Seq(X)), Len(seqs) # 0
  PROVE  \E f : /\ f[1] = seqs[1]
                /\ \A k \in 1 .. Len(seqs) : k # 1 => f[k] = f[k - 1] \o seqs[k]
                /\ FlattenSeq(seqs) = f[Len(seqs)]
  <1> DEFINE N == Len(seqs)
             Pass(f, m) == f = [i \in 1 .. m |-> IF i = 1 THEN seqs[i] ELSE f[i - 1] \o seqs[i]]
             Passed == {m \in Nat : \E f : Pass(f, m)}
  <1>1. 0 \in Passed
    <2>1. Pass([i \in 1 .. 0 |-> 0], 0)
      OBVIOUS
    <2> QED BY <2>1
  <1>2. ASSUME NEW m \in Passed
        PROVE  m + 1 \in Passed
    <2>1. PICK f : Pass(f, m)
      OBVIOUS
    <2>0. m \in Nat /\ m + 1 \in Nat
      OBVIOUS
    <2> DEFINE g == [i \in 1 .. m + 1 |-> IF i = m + 1
                        THEN (IF i = 1 THEN seqs[i] ELSE f[i - 1] \o seqs[i]) ELSE f[i]]
    <2>2. \A i \in 1 .. m : g[i] = f[i]
      OBVIOUS
    <2>3. \A i \in 1 .. m : f[i] = IF i = 1 THEN seqs[i] ELSE f[i - 1] \o seqs[i]
      BY <2>1
    <2>4. \A i \in 1 .. m + 1 : g[i] = IF i = 1 THEN seqs[i] ELSE g[i - 1] \o seqs[i]
      <3>1. TAKE i \in 1 .. m + 1
      <3>2. CASE i = m + 1
        <4>1. i # 1 => i - 1 \in 1 .. m
          BY <3>2
        <4>2. g[i] = IF i = 1 THEN seqs[i] ELSE f[i - 1] \o seqs[i]
          BY <3>2
        <4> QED BY <2>2, <4>1, <4>2
      <3>3. CASE i \in 1 .. m
        <4>1. i # 1 => i - 1 \in 1 .. m
          BY <3>3
        <4> QED BY <2>2, <2>3, <3>3, <4>1
      <3> QED BY <3>2, <3>3
    <2>5. g = [i \in 1 .. m + 1 |-> g[i]]
      OBVIOUS
    <2> HIDE DEF g
    <2>6. Pass(g, m + 1)
      BY <2>4, <2>5
    <2> QED BY <2>0, <2>6
  <1>3. Passed \in SUBSET Nat
    OBVIOUS
  <1> HIDE DEF Passed
  <1>4. Passed = Nat /\ N \in Nat
    <2>1. N \in Nat
      OBVIOUS
    <2> HIDE DEF N, Pass
    <2>2. Passed = Nat
      BY <1>1, <1>2, <1>3, Counting
    <2> QED BY <2>1, <2>2
  <1> DEFINE after == CHOOSE f : Pass(f, N)
  <1>5. Pass(after, N)
    <2>1. \E f : Pass(f, N)
      BY <1>4 DEF Passed
    <2> QED BY <2>1
  <1>6. FlattenSeq(seqs) = after[N]
    BY DEF FlattenSeq
  <1> HIDE DEF after
  <1>7. \A i \in 1 .. N : after[i] = IF i = 1 THEN seqs[i] ELSE after[i - 1] \o seqs[i]
    BY <1>5
  <1>8. 1 \in 1 .. N
    BY <1>4
  <1> QED BY <1>6, <1>7, <1>8

LEMMA Flattened ==
  ASSUME NEW X, NEW seqs \in Seq(Seq(X))
  PROVE  /\ FlattenSeq(seqs) \in Seq(X)
         /\ \A x : x \in Range(FlattenSeq(seqs)) <=> \E i \in 1 .. Len(seqs) : x \in Range(seqs[i])
         /\ Apart(seqs) => IsInjective(FlattenSeq(seqs))
  <1>1. CASE Len(seqs) = 0
    <2>1. FlattenSeq(seqs) = <<>>
      BY <1>1 DEF FlattenSeq
    <2> QED BY <1>1, <2>1 DEF Range, IsInjective
  <1>2. CASE Len(seqs) # 0
    <2>1. PICK f : /\ f[1] = seqs[1]
                   /\ \A k \in 1 .. Len(seqs) : k # 1 => f[k] = f[k - 1] \o seqs[k]
                   /\ FlattenSeq(seqs) = f[Len(seqs)]
      BY <1>2, FlattenIsAPass
    <2> DEFINE N == Len(seqs)
               Good(k) == /\ f[k] \in Seq(X)
                          /\ \A x : x \in Range(f[k]) <=> \E i \in 1 .. k : x \in Range(seqs[i])
                          /\ Apart(seqs) => IsInjective(f[k])
               Done1 == {k \in Nat : k \in 1 .. N => Good(k)}
    <2>2. N \in Nat /\ N # 0 /\ \A k \in 1 .. N : seqs[k] \in Seq(X)
      BY <1>2
    <2>3. 0 \in Done1 /\ Done1 \in SUBSET Nat
      OBVIOUS
    <2>4. ASSUME NEW k \in Done1
          PROVE  k + 1 \in Done1
      <3>1. SUFFICES ASSUME k + 1 \in 1 .. N
                     PROVE  Good(k + 1)
        OBVIOUS
      <3>2. CASE k = 0
        <4>1. f[k + 1] = seqs[1] /\ 1 .. k + 1 = {1} /\ 1 \in 1 .. N
          BY <2>1, <3>2, <2>2
        <4> QED BY <2>2, <4>1 DEF Apart
      <3>3. CASE k # 0
        <4>1. k \in 1 .. N /\ k + 1 # 1 /\ (k + 1) - 1 = k
          BY <3>1, <3>3
        <4>2. Good(k)
          BY <4>1
        <4>3. f[k + 1] = f[k] \o seqs[k + 1]
          BY <2>1, <3>1, <4>1
        <4>4. 1 .. k + 1 = (1 .. k) \cup {k + 1}
          OBVIOUS
        <4>5. Apart(seqs) => Range(f[k]) \cap Range(seqs[k + 1]) = {}
          <5>1. \A i \in 1 .. k : i \in 1 .. N /\ i # k + 1
            BY <4>1
          <5>2. ASSUME Apart(seqs), NEW x \in Range(f[k])
                PROVE  x \notin Range(seqs[k + 1])
            <6>1. PICK i \in 1 .. k : x \in Range(seqs[i])
              BY <4>2, <5>2
            <6>2. Range(seqs[i]) \cap Range(seqs[k + 1]) = {}
              BY <3>1, <5>1, <5>2, <6>1 DEF Apart
            <6> QED BY <6>1, <6>2
          <5> QED BY <5>2
        <4>6. Apart(seqs) => IsInjective(seqs[k + 1])
          BY <3>1 DEF Apart
        <4> DEFINE s == f[k]
                   t == seqs[k + 1]
        <4>7. s \in Seq(X) /\ t \in Seq(X)
          BY <2>2, <3>1, <4>2
        <4> HIDE DEF s, t
        <4>8. /\ s \o t \in Seq(X) /\ Range(s \o t) = Range(s) \cup Range(t)
              /\ IsInjective(s) /\ IsInjective(t) /\ Range(s) \cap Range(t) = {} => IsInjective(s \o t)
          BY ONLY <4>7, Concatenated
        <4>9. \A x : (\E i \in 1 .. k + 1 : x \in Range(seqs[i]))
                        <=> (\E i \in 1 .. k : x \in Range(seqs[i])) \/ x \in Range(seqs[k + 1])
          BY ONLY <4>4
        <4> QED BY <4>2, <4>3, <4>5, <4>6, <4>8, <4>9 DEF s, t
      <3> QED BY <3>2, <3>3
    <2> HIDE DEF Done1
    <2>5. Done1 = Nat
      BY <2>3, <2>4, Counting
    <2>6. N \in Done1 /\ N \in 1 .. N
      BY <2>2, <2>5
    <2>7. Good(N)
      BY <2>6 DEF Done1
    <2> QED BY <2>1, <2>7
  <1> QED BY <1>1, <1>2

----------------------------------------------------------------------------
(* Sums. The sum the community modules fold over a set does not depend on  *)
(* the order, nor on what its terms are indexed by: the server adds up over *)
(* traces what a suite added up over trials.                               *)

SumOf(values) == MapThenSumSet(LAMBDA t : values[t], DOMAIN values)

Sums(f, S, v) ==
    /\ f[{}] = 0
    /\ \A s \in SUBSET S : f[s] \in Int /\ \A x \in s : f[s] = v[x] + f[s \ {x}]

LEMMA SmallerByOne ==
  ASSUME NEW S, IsFiniteSet(S), NEW s \in SUBSET S, NEW x \in s
  PROVE  /\ IsFiniteSet(s) /\ s \ {x} \in SUBSET S
         /\ Cardinality(s) \in Nat /\ Cardinality(s \ {x}) = Cardinality(s) - 1
  BY FS_Subset, FS_RemoveElement, FS_CardinalityType

LEMMA HasAMember ==
  ASSUME NEW s, NEW n \in Nat, Cardinality(s) = n + 1
  PROVE  s # {}
  <1>1. 0 # n + 1
    OBVIOUS
  <1> QED BY <1>1, FS_EmptySet

LEMMA SumIsAPass ==
  ASSUME NEW S, IsFiniteSet(S), NEW v \in [S -> Int]
  PROVE  \E f : /\ f[{}] = 0
                /\ \A s \in SUBSET S : s # {} => \E x \in s : f[s] = v[x] + f[s \ {x}]
                /\ \A s \in SUBSET S : s # {} =>
                        f[s] = v[CHOOSE x \in s : TRUE] + f[s \ {CHOOSE x \in s : TRUE}]
                /\ SumOf(v) = f[S]
  <1> DEFINE Of(x) == CHOOSE y \in x : TRUE
             Small(m) == {x \in SUBSET S : Cardinality(x) <= m}
             Pass(f, m) == f = [s \in Small(m) |-> IF s = {} THEN 0 ELSE v[Of(s)] + f[s \ {Of(s)}]]
             Passed == {m \in Nat : \E f : Pass(f, m)}
             N == Cardinality(S)
  <1>1. \A s \in SUBSET S : s # {} =>
            /\ Of(s) \in s /\ s \ {Of(s)} \in SUBSET S
            /\ Cardinality(s) \in Nat /\ Cardinality(s \ {Of(s)}) = Cardinality(s) - 1
    BY SmallerByOne
  <1>2. Cardinality({}) = 0 /\ \A s \in SUBSET S : Cardinality(s) = 0 => s = {}
    <2>1. ASSUME NEW s \in SUBSET S, Cardinality(s) = 0
          PROVE  s = {}
      BY <2>1, FS_Subset, FS_EmptySet
    <2> QED BY <2>1, FS_EmptySet
  <1>3. 0 \in Passed
    <2> DEFINE g == [s \in Small(0) |-> 0]
    <2>1. \A s \in Small(0) : s = {}
      BY <1>1, <1>2
    <2>2. Pass(g, 0)
      BY <2>1
    <2> QED BY <2>2
  <1>4. ASSUME NEW m \in Passed
        PROVE  m + 1 \in Passed
    <2>0. m \in Nat /\ m + 1 \in Nat
      OBVIOUS
    <2>1. PICK f : Pass(f, m)
      OBVIOUS
    <2> DEFINE g == [s \in Small(m + 1) |-> IF Cardinality(s) = m + 1
                        THEN v[Of(s)] + f[s \ {Of(s)}] ELSE f[s]]
    <2>2. \A s \in Small(m) : s \in Small(m + 1) /\ g[s] = f[s]
      <3>1. \A s \in SUBSET S : Cardinality(s) \in Nat
        BY FS_Subset, FS_CardinalityType
      <3>2. ASSUME NEW s \in Small(m)
            PROVE  s \in Small(m + 1) /\ Cardinality(s) # m + 1
        <4>1. Cardinality(s) \in Nat /\ Cardinality(s) <= m /\ s \in SUBSET S
          BY <3>1
        <4> QED BY <2>0, <4>1
      <3> QED BY <3>2
    <2>3. \A s \in Small(m) : f[s] = IF s = {} THEN 0 ELSE v[Of(s)] + f[s \ {Of(s)}]
      BY <2>1
    <2>4. ASSUME NEW s \in Small(m + 1)
          PROVE  g[s] = IF s = {} THEN 0 ELSE v[Of(s)] + g[s \ {Of(s)}]
      <3>0. s \in SUBSET S /\ Cardinality(s) \in Nat
        BY FS_Subset, FS_CardinalityType
      <3>1. s # {} => s \ {Of(s)} \in Small(m)
        BY <1>1, <2>0, <2>4
      <3>2. CASE Cardinality(s) = m + 1
        <4>1. s # {}
          <5>1. 0 # m + 1
            BY <2>0
          <5> QED BY <1>2, <3>2, <5>1
        <4>2. g[s] = v[Of(s)] + f[s \ {Of(s)}]
          BY <3>2
        <4> HIDE DEF g, Small, Of
        <4> QED BY <2>2, <3>1, <4>1, <4>2
      <3>3. CASE Cardinality(s) # m + 1
        <4>1. s \in Small(m)
          BY <2>0, <3>0, <3>3
        <4> HIDE DEF g, Small, Of
        <4> QED BY <2>2, <2>3, <3>1, <4>1
      <3> QED BY <3>2, <3>3
    <2>5. g = [s \in Small(m + 1) |-> g[s]]
      OBVIOUS
    <2> HIDE DEF g, Small, Of
    <2>6. Pass(g, m + 1)
      BY <2>4, <2>5
    <2> QED BY <2>0, <2>6
  <1>5. Passed \in SUBSET Nat
    OBVIOUS
  <1> HIDE DEF Passed
  <1>6. Passed = Nat /\ N \in Nat
    BY <1>3, <1>4, <1>5, Counting, FS_CardinalityType
  <1>7. Small(N) = SUBSET S
    BY FS_Subset
  <1> DEFINE Whole(f) == f = [s \in SUBSET S |-> IF s = {} THEN 0 ELSE v[Of(s)] + f[s \ {Of(s)}]]
             after == CHOOSE f : Whole(f)
  <1>8. Whole(after)
    <2>1. \E f : Pass(f, N)
      BY <1>6 DEF Passed
    <2> HIDE DEF Small, Of
    <2>2. \E f : Whole(f)
      BY <1>7, <2>1
    <2> QED BY <2>2
  <1>9. SumOf(v) = after[S]
    <2>1. DOMAIN v = S
      OBVIOUS
    <2> QED BY <2>1 DEF SumOf, MapThenSumSet, MapThenFoldSet
  <1> HIDE DEF after, Of
  <1>10. \A s \in SUBSET S : after[s] = IF s = {} THEN 0 ELSE v[Of(s)] + after[s \ {Of(s)}]
    BY <1>8
  <1>11. {} \in SUBSET S
    OBVIOUS
  <1>12. \A s \in SUBSET S : s # {} => Of(s) \in s
    BY <1>1
  <1>13. after[{}] = 0 /\ \A s \in SUBSET S : s # {} =>
            Of(s) \in s /\ after[s] = v[Of(s)] + after[s \ {Of(s)}]
    BY <1>10, <1>11, <1>12
  <1> QED BY <1>9, <1>13 DEF Of

LEMMA Summed ==
  ASSUME NEW S, IsFiniteSet(S), NEW v \in [S -> Int]
  PROVE  \E f : Sums(f, S, v) /\ SumOf(v) = f[S]
  <1>1. PICK f : /\ f[{}] = 0
                 /\ \A s \in SUBSET S : s # {} => \E x \in s : f[s] = v[x] + f[s \ {x}]
                 /\ \A s \in SUBSET S : s # {} =>
                        f[s] = v[CHOOSE x \in s : TRUE] + f[s \ {CHOOSE x \in s : TRUE}]
                 /\ SumOf(v) = f[S]
    BY SumIsAPass, Zenon
  <1>2. \A s \in SUBSET S : \A x \in s : v[x] \in Int
    OBVIOUS
  <1> DEFINE Fine(s) == f[s] \in Int /\ \A x \in s : f[s] = v[x] + f[s \ {x}]
             Fit == {n \in Nat : \A s \in SUBSET S : Cardinality(s) <= n => Fine(s)}
  <1>3. 0 \in Fit
    <2>1. ASSUME NEW s \in SUBSET S, Cardinality(s) <= 0
          PROVE  s = {}
      <3>1. IsFiniteSet(s) /\ Cardinality(s) \in Nat
        BY FS_Subset, FS_CardinalityType
      <3>2. Cardinality(s) = 0
        BY <2>1, <3>1
      <3> QED BY <3>1, <3>2, FS_EmptySet
    <2>2. Fine({})
      BY <1>1
    <2> QED BY <2>1, <2>2
  <1>4. ASSUME NEW n \in Fit
        PROVE  n + 1 \in Fit
    <2>0. n \in Nat /\ n + 1 \in Nat
      OBVIOUS
    <2>1. SUFFICES ASSUME NEW s \in SUBSET S, Cardinality(s) = n + 1
                   PROVE  Fine(s)
      <3>1. \A s \in SUBSET S : Cardinality(s) \in Nat
        BY FS_Subset, FS_CardinalityType
      <3>2. ASSUME NEW s \in SUBSET S, Cardinality(s) <= n + 1, Cardinality(s) # n + 1
            PROVE  Fine(s)
        <4>1. Cardinality(s) <= n
          BY <2>0, <3>1, <3>2
        <4> QED BY <4>1
      <3> QED BY <2>0, <3>2
    <2>2. s # {}
      BY <2>0, <2>1, HasAMember
    <2>3. PICK x \in s : f[s] = v[x] + f[s \ {x}]
      BY <1>1, <2>2
    <2>4. ASSUME NEW z \in s
          PROVE  s \ {z} \in SUBSET S /\ Fine(s \ {z})
      <3>1. s \ {z} \in SUBSET S /\ Cardinality(s \ {z}) = n
        BY <2>0, <2>1, SmallerByOne
      <3>2. Cardinality(s \ {z}) <= n
        BY <2>0, <3>1
      <3> QED BY <3>1, <3>2
    <2>5. f[s] \in Int
      <3>1. v[x] \in Int /\ f[s \ {x}] \in Int
        BY <1>2, <2>4
      <3> QED BY ONLY <2>3, <3>1
    <2>6. ASSUME NEW y \in s, y # x
          PROVE  f[s] = v[y] + f[s \ {y}]
      <3>1. f[s \ {x}] = v[y] + f[(s \ {x}) \ {y}]
        BY <2>4, <2>6
      <3>2. f[s \ {y}] = v[x] + f[(s \ {y}) \ {x}]
        BY <2>4, <2>6
      <3>3. (s \ {x}) \ {y} = (s \ {y}) \ {x}
        OBVIOUS
      <3>4. f[(s \ {x}) \ {y}] \in Int
        <4>1. s \ {x} \in SUBSET S /\ Cardinality(s \ {x}) = n /\ y \in s \ {x}
          BY <2>0, <2>1, <2>6, SmallerByOne
        <4>2. f[s \ {x}] \in Int /\ v[y] \in Int
          BY <1>2, <2>4
        <4>3. (s \ {x}) \ {y} \in SUBSET S /\ Cardinality((s \ {x}) \ {y}) = n - 1
          BY <4>1, SmallerByOne
        <4>4. Cardinality((s \ {x}) \ {y}) <= n
          BY <2>0, <4>3
        <4> QED BY <4>3, <4>4
      <3>5. v[x] \in Int /\ v[y] \in Int
        BY <1>2
      <3>6. /\ f[s] = v[x] + (v[y] + f[(s \ {x}) \ {y}])
            /\ f[s \ {y}] = v[x] + f[(s \ {x}) \ {y}]
        BY ONLY <2>3, <3>1, <3>2, <3>3
      <3> HIDE DEF Fine, Fit
      <3> QED BY ONLY <3>4, <3>5, <3>6
    <2> QED BY <2>3, <2>5, <2>6
  <1>5. Fit \in SUBSET Nat
    OBVIOUS
  <1> HIDE DEF Fit
  <1>6. Fit = Nat
    BY <1>3, <1>4, <1>5, Counting
  <1>7. ASSUME NEW s \in SUBSET S
        PROVE  Fine(s)
    <2>1. Cardinality(s) \in Nat
      BY FS_Subset, FS_CardinalityType
    <2>2. Cardinality(s) \in Fit /\ Cardinality(s) <= Cardinality(s)
      BY <1>6, <2>1
    <2> QED BY <2>2 DEF Fit
  <1> QED BY <1>1, <1>7 DEF Sums

(* one sum, over whatever its terms are indexed by *)
LEMMA SumUnderBijection ==
  ASSUME NEW S, NEW T, IsFiniteSet(S), NEW v \in [S -> Int], NEW w \in [T -> Int],
         NEW h \in Bijection(S, T), \A x \in S : v[x] = w[h[x]]
  PROVE  SumOf(v) = SumOf(w)
  <1>1. IsFiniteSet(T)
    BY SameSize
  <1>2. PICK f : Sums(f, S, v) /\ SumOf(v) = f[S]
    BY Summed
  <1>3. PICK g : Sums(g, T, w) /\ SumOf(w) = g[T]
    BY <1>1, Summed
  <1> DEFINE On(A, B) == /\ \A x \in A : h[x] \in B
                         /\ \A y \in B : \E x \in A : h[x] = y
             Same == {n \in Nat : \A A \in SUBSET S, B \in SUBSET T :
                            Cardinality(A) = n /\ On(A, B) => f[A] = g[B]}
  <1>4. /\ h \in [S -> T] /\ \A a, b \in S : h[a] = h[b] => a = b
        /\ \A t \in T : \E s \in S : h[s] = t
    BY Fun_BijectionProperties
  <1>5. 0 \in Same
    <2>1. \A A \in SUBSET S : Cardinality(A) = 0 => A = {}
      BY FS_Subset, FS_EmptySet
    <2>2. \A B : On({}, B) => B = {}
      OBVIOUS
    <2> QED BY <1>2, <1>3, <2>1, <2>2 DEF Sums
  <1>6. ASSUME NEW n \in Same
        PROVE  n + 1 \in Same
    <2>0. n \in Nat /\ n + 1 \in Nat
      OBVIOUS
    <2>1. SUFFICES ASSUME NEW A \in SUBSET S, NEW B \in SUBSET T, Cardinality(A) = n + 1, On(A, B)
                   PROVE  f[A] = g[B]
      BY <2>0
    <2>2. A # {}
      BY <2>0, <2>1, HasAMember
    <2>3. PICK x \in A : TRUE
      BY <2>2
    <2>4. A \ {x} \in SUBSET S /\ Cardinality(A \ {x}) = n
      BY <2>0, <2>1, SmallerByOne
    <2>5. B \ {h[x]} \in SUBSET T /\ h[x] \in B
      BY <2>1
    <2>6. On(A \ {x}, B \ {h[x]})
      BY <1>4, <2>1
    <2>7. f[A \ {x}] = g[B \ {h[x]}]
      BY <2>4, <2>5, <2>6
    <2>8. f[A] = v[x] + f[A \ {x}] /\ g[B] = w[h[x]] + g[B \ {h[x]}]
      BY <1>2, <1>3, <2>5 DEF Sums
    <2> QED BY <2>3, <2>7, <2>8
  <1>7. Same \in SUBSET Nat
    OBVIOUS
  <1>8. On(S, T)
    BY <1>4
  <1> HIDE DEF Same, On
  <1>9. Same = Nat
    BY <1>5, <1>6, <1>7, Counting
  <1>10. Cardinality(S) \in Same
    BY <1>9, FS_CardinalityType
  <1> QED BY <1>2, <1>3, <1>8, <1>10 DEF Same

----------------------------------------------------------------------------
(* The plan (plan_suite, build_assignment, run_suite): a row of units for  *)
(* each scenario, in each lane's order.                                    *)

Submitted == \E s \in Submissions : manifest = s[1] /\ lane = s[2]

Units(scenarios, conditions) ==
    {Unit(s, c, i) : s \in scenarios, c \in conditions, i \in Nat}

LEMMA SubmittedFacts ==
  ASSUME Submitted
  PROVE  /\ resolved.scenarios \in Seq(Range(resolved.scenarios))
         /\ arms \in Seq(Range(arms)) /\ resolved.repeats \in Nat
         /\ lane \in {"suite", "experiment", "remote"}
  <1>1. /\ lane \in {"suite", "experiment", "remote"} /\ manifest.repeats \in Nat
        /\ manifest.scenarios \in Seq(Range(manifest.scenarios))
        /\ manifest.refs \in Seq(Range(manifest.refs))
        /\ manifest.conditions \in Seq(Range(manifest.conditions))
    BY SubmissionAssumption DEF Submitted
  <1>2. /\ resolved.scenarios = AllScenarios(manifest) /\ resolved.repeats = manifest.repeats
        /\ resolved.conditions = [i \in DOMAIN manifest.conditions |-> Stamped(manifest.conditions[i])]
    BY DEF resolved, Resolved
  <1>3. resolved.scenarios \in Seq(Range(resolved.scenarios))
    <2> DEFINE named == [i \in 1 .. Len(manifest.refs) |-> Registry[manifest.refs[i]]]
               X == Range(manifest.scenarios) \cup Range(named)
    <2>1. Len(manifest.refs) \in Nat
      BY <1>1
    <2>2. named \in [1 .. Len(manifest.refs) -> X]
      BY DEF Range
    <2>3. manifest.scenarios \in Seq(X)
      BY <1>1, SeqMonotonic
    <2> HIDE DEF named, X
    <2>4. named \in Seq(X)
      BY <2>1, <2>2, ListedInOrder
    <2>5. manifest.scenarios \o named \in Seq(X)
      BY <2>3, <2>4
    <2>6. resolved.scenarios = manifest.scenarios \o named
      BY <1>2 DEF AllScenarios, named
    <2> QED BY <2>5, <2>6, SeqOfRange
  <1>4. arms \in Seq(Range(arms))
    <2>1. ASSUME NEW c
          PROVE  <<c>> \in Seq(Range(<<c>>))
      <3>1. <<c>> \in Seq({c})
        OBVIOUS
      <3> QED BY <3>1, SeqOfRange
    <2>2. CASE resolved.conditions # <<>>
      <3> DEFINE stamped == [i \in DOMAIN manifest.conditions |-> Stamped(manifest.conditions[i])]
                 n == Len(manifest.conditions)
      <3>1. n \in Nat /\ stamped \in [1 .. n -> Range(stamped)]
        <4>1. n \in Nat /\ DOMAIN manifest.conditions = 1 .. n
          BY <1>1
        <4>2. DOMAIN stamped = 1 .. n
          BY <4>1
        <4>3. stamped \in [DOMAIN stamped -> Range(stamped)]
          BY DEF Range
        <4> QED BY <4>1, <4>2, <4>3
      <3>2. arms = stamped
        BY <1>2, <2>2 DEF arms, Arms
      <3> HIDE DEF stamped, n
      <3> QED BY <3>1, <3>2, ListedInOrder
    <2>3. CASE resolved.conditions = <<>>
      BY <2>1, <2>3 DEF arms, Arms
    <2> QED BY <2>2, <2>3
  <1> QED BY <1>1, <1>2, <1>3, <1>4

(* the units of one scenario, in the order of each lane *)
Repeats == [i \in 1 .. resolved.repeats |-> i - 1]
Cell(s, c) == [i \in DOMAIN Repeats |-> Unit(s, c, Repeats[i])]
Order(i) == IF lane = "experiment" /\ i % 2 = 1 THEN Reverse(arms) ELSE arms
Turn(s, i) == [k \in DOMAIN Order(i) |-> Unit(s, Order(i)[k], i)]
RowOf(s) ==
    IF lane = "remote" THEN FlattenSeq([k \in DOMAIN arms |-> Cell(s, arms[k])])
    ELSE FlattenSeq([i \in DOMAIN Repeats |-> Turn(s, Repeats[i])])

LEMMA PlanIsRows ==
  Plan = FlattenSeq([j \in DOMAIN resolved.scenarios |-> RowOf(resolved.scenarios[j])])
  BY Zenon DEF Plan, PlanOf, RowOf, Cell, Turn, Order, Repeats, arms

LEMMA UnitFacts ==
  ASSUME NEW s, NEW c, NEW i
  PROVE  /\ Unit(s, c, i).scenario = s.name /\ Unit(s, c, i).condition = c.id
         /\ Unit(s, c, i).repeat = i
  BY DEF Unit

LEMMA OrderFacts ==
  ASSUME Submitted, NEW i
  PROVE  /\ Order(i) \in Seq(Range(arms))
         /\ NamedOnce => \A j, k \in DOMAIN Order(i) : Order(i)[j].id = Order(i)[k].id => j = k
  <1>1. arms \in Seq(Range(arms))
    BY SubmittedFacts
  <1>2. NamedOnce => \A j, k \in DOMAIN arms : arms[j].id = arms[k].id => j = k
    BY DEF NamedOnce, IsInjective
  <1> DEFINE n == Len(arms)
             back == [j \in 1 .. n |-> arms[(n - j) + 1]]
  <1>3. n \in Nat /\ DOMAIN arms = 1 .. n
    BY <1>1
  <1>4. \A j \in 1 .. n : (n - j) + 1 \in 1 .. n
    BY <1>3
  <1>5. back \in [1 .. n -> Range(arms)]
    BY <1>3, <1>4 DEF Range
  <1>6. back \in Seq(Range(arms)) /\ DOMAIN back = 1 .. n
    <2> HIDE DEF back, n
    <2> QED BY <1>3, <1>5, ListedInOrder
  <1>7. NamedOnce => \A j, k \in 1 .. n : back[j].id = back[k].id => j = k
    <2>1. SUFFICES ASSUME NamedOnce, NEW j \in 1 .. n, NEW k \in 1 .. n,
                          arms[(n - j) + 1].id = arms[(n - k) + 1].id
                   PROVE  j = k
      OBVIOUS
    <2>2. (n - j) + 1 = (n - k) + 1
      BY <1>2, <1>3, <1>4, <2>1
    <2> QED BY <1>3, <2>2
  <1>8. Order(i) = back \/ Order(i) = arms
    BY DEF Order, Reverse
  <1> HIDE DEF back, n
  <1> QED BY <1>1, <1>2, <1>3, <1>6, <1>7, <1>8

LEMMA CellFacts ==
  ASSUME Submitted, NEW s, NEW c \in Range(arms)
  PROVE  /\ Cell(s, c) \in Seq(Units({s}, Range(arms))) /\ IsInjective(Cell(s, c))
         /\ \A u \in Range(Cell(s, c)) : u.condition = c.id
  <1> DEFINE n == resolved.repeats
  <1>1. n \in Nat
    BY SubmittedFacts
  <1>2. DOMAIN Repeats = 1 .. n /\ \A i \in 1 .. n : Repeats[i] = i - 1
    BY DEF Repeats
  <1>3. Cell(s, c) = [i \in 1 .. n |-> Unit(s, c, i - 1)]
    BY <1>2 DEF Cell
  <1>4. Cell(s, c) \in [1 .. n -> Units({s}, Range(arms))]
    <2>1. \A i \in 1 .. n : i - 1 \in Nat
      BY <1>1
    <2> QED BY <1>3, <2>1 DEF Units
  <1>5. Cell(s, c) \in Seq(Units({s}, Range(arms)))
    BY <1>1, <1>4, ListedInOrder
  <1>6. \A i \in 1 .. n : Cell(s, c)[i].repeat = i - 1 /\ Cell(s, c)[i].condition = c.id
    BY <1>3, UnitFacts
  <1>7. IsInjective(Cell(s, c))
    <2>1. DOMAIN Cell(s, c) = 1 .. n
      BY <1>3
    <2>2. \A i, j \in 1 .. n : i - 1 = j - 1 => i = j
      BY <1>1
    <2> QED BY <1>6, <2>1, <2>2 DEF IsInjective
  <1>8. \A u \in Range(Cell(s, c)) : u.condition = c.id
    BY <1>3, <1>6 DEF Range
  <1> QED BY <1>5, <1>7, <1>8

LEMMA TurnFacts ==
  ASSUME Submitted, NEW s, NEW i \in Nat
  PROVE  /\ Turn(s, i) \in Seq(Units({s}, Range(arms)))
         /\ NamedOnce => IsInjective(Turn(s, i))
         /\ \A u \in Range(Turn(s, i)) : u.repeat = i
  <1> DEFINE n == Len(Order(i))
  <1>1. n \in Nat /\ DOMAIN Order(i) = 1 .. n /\ \A k \in 1 .. n : Order(i)[k] \in Range(arms)
    BY OrderFacts
  <1>2. Turn(s, i) = [k \in 1 .. n |-> Unit(s, Order(i)[k], i)]
    BY <1>1 DEF Turn
  <1>3. Turn(s, i) \in [1 .. n -> Units({s}, Range(arms))]
    BY <1>1, <1>2 DEF Units
  <1>4. Turn(s, i) \in Seq(Units({s}, Range(arms)))
    BY <1>1, <1>3, ListedInOrder
  <1>5. \A k \in 1 .. n : Turn(s, i)[k].repeat = i /\ Turn(s, i)[k].condition = Order(i)[k].id
    BY <1>2, UnitFacts
  <1>6. DOMAIN Turn(s, i) = 1 .. n
    BY <1>2
  <1>7. NamedOnce => IsInjective(Turn(s, i))
    BY <1>1, <1>5, <1>6, OrderFacts DEF IsInjective
  <1>8. \A u \in Range(Turn(s, i)) : u.repeat = i
    BY <1>5, <1>6 DEF Range
  <1> QED BY <1>4, <1>7, <1>8

LEMMA RowFacts ==
  ASSUME Submitted, NEW s
  PROVE  RowOf(s) \in Seq(Units({s}, Range(arms))) /\ (NamedOnce => IsInjective(RowOf(s)))
  <1> DEFINE X == Units({s}, Range(arms))
  <1>1. CASE lane = "remote"
    <2> DEFINE n == Len(arms)
               cells == [k \in DOMAIN arms |-> Cell(s, arms[k])]
    <2>1. n \in Nat /\ DOMAIN arms = 1 .. n
      BY SubmittedFacts
    <2>2. \A k \in 1 .. n : arms[k] \in Range(arms)
      BY <2>1 DEF Range
    <2>3. cells \in [1 .. n -> Seq(X)]
      BY <2>1, <2>2, CellFacts
    <2>4. NamedOnce => Apart(cells)
      <3>1. Len(cells) = n
        <4> HIDE DEF cells, n, X
        <4> QED BY <2>1, <2>3, ListedInOrder
      <3>2. \A k \in 1 .. n : cells[k] = Cell(s, arms[k])
        BY <2>1
      <3>3. NamedOnce => \A j, k \in 1 .. n : arms[j].id = arms[k].id => j = k
        BY <2>1 DEF NamedOnce, IsInjective
      <3>4. ASSUME NamedOnce, NEW j \in 1 .. n, NEW k \in 1 .. n, j # k
            PROVE  Range(cells[j]) \cap Range(cells[k]) = {}
        <4>1. /\ \A u \in Range(cells[j]) : u.condition = arms[j].id
              /\ \A u \in Range(cells[k]) : u.condition = arms[k].id
          <5>1. arms[j] \in Range(arms) /\ arms[k] \in Range(arms)
            BY <2>2
          <5>2. cells[j] = Cell(s, arms[j]) /\ cells[k] = Cell(s, arms[k])
            BY <3>2
          <5>3. /\ \A u \in Range(Cell(s, arms[j])) : u.condition = arms[j].id
                /\ \A u \in Range(Cell(s, arms[k])) : u.condition = arms[k].id
            BY <5>1, CellFacts
          <5> HIDE DEF cells
          <5> QED BY <5>2, <5>3
        <4> QED BY <3>3, <3>4, <4>1
      <3>5. \A k \in 1 .. n : IsInjective(cells[k])
        BY <2>2, <3>2, CellFacts
      <3> HIDE DEF cells, n
      <3> QED BY <3>1, <3>4, <3>5 DEF Apart
    <2>5. RowOf(s) = FlattenSeq(cells)
      BY <1>1 DEF RowOf
    <2> HIDE DEF cells, n, X
    <2>6. cells \in Seq(Seq(X))
      BY <2>1, <2>3, ListedInOrder
    <2>7. FlattenSeq(cells) \in Seq(X) /\ (Apart(cells) => IsInjective(FlattenSeq(cells)))
      BY <2>6, Flattened
    <2> QED BY <2>4, <2>5, <2>7 DEF X
  <1>2. CASE lane # "remote"
    <2> DEFINE n == resolved.repeats
               turns == [i \in DOMAIN Repeats |-> Turn(s, Repeats[i])]
    <2>1. n \in Nat
      BY SubmittedFacts
    <2>2. DOMAIN Repeats = 1 .. n /\ \A i \in 1 .. n : Repeats[i] = i - 1 /\ i - 1 \in Nat
      BY <2>1 DEF Repeats
    <2>3. \A i \in 1 .. n : turns[i] = Turn(s, i - 1)
      BY <2>2
    <2>4. turns \in [1 .. n -> Seq(X)]
      <3>1. turns = [i \in 1 .. n |-> turns[i]]
        BY <2>2
      <3>2. ASSUME NEW i \in 1 .. n
            PROVE  turns[i] \in Seq(X)
        <4>1. i - 1 \in Nat /\ turns[i] = Turn(s, i - 1)
          BY <2>1, <2>3
        <4> HIDE DEF turns, n
        <4> QED BY <4>1, TurnFacts
      <3> HIDE DEF turns, X, n
      <3> QED BY <3>1, <3>2
    <2>5. NamedOnce => Apart(turns)
      <3>1. Len(turns) = n
        <4> HIDE DEF turns, n, X
        <4> QED BY <2>1, <2>4, ListedInOrder
      <3>2. ASSUME NEW j \in 1 .. n, NEW k \in 1 .. n, j # k
            PROVE  Range(turns[j]) \cap Range(turns[k]) = {}
        <4>1. /\ \A u \in Range(turns[j]) : u.repeat = j - 1
              /\ \A u \in Range(turns[k]) : u.repeat = k - 1
          BY <2>2, <2>3, TurnFacts
        <4>2. j - 1 # k - 1
          BY <2>1, <3>2
        <4> QED BY <4>1, <4>2
      <3>3. NamedOnce => \A k \in 1 .. n : IsInjective(turns[k])
        <4>1. SUFFICES ASSUME NamedOnce, NEW k \in 1 .. n
                       PROVE  IsInjective(turns[k])
          OBVIOUS
        <4> DEFINE i == k - 1
        <4>2. i \in Nat /\ turns[k] = Turn(s, i)
          BY <2>1, <2>3
        <4> HIDE DEF turns, n, i
        <4>3. NamedOnce => IsInjective(Turn(s, i))
          BY <4>2, TurnFacts
        <4> QED BY <4>1, <4>2, <4>3
      <3> HIDE DEF turns, n
      <3> QED BY <3>1, <3>2, <3>3 DEF Apart
    <2>6. RowOf(s) = FlattenSeq(turns)
      BY <1>2 DEF RowOf
    <2> HIDE DEF turns, n, X
    <2>7. turns \in Seq(Seq(X))
      BY <2>1, <2>4, ListedInOrder
    <2>8. FlattenSeq(turns) \in Seq(X) /\ (Apart(turns) => IsInjective(FlattenSeq(turns)))
      BY <2>7, Flattened
    <2> QED BY <2>5, <2>6, <2>8 DEF X
  <1> QED BY <1>1, <1>2

(* The plan is a list of units of the suite's scenarios and arms, and names *)
(* none twice when names are given once.                                    *)
LEMMA PlanFacts ==
  ASSUME Submitted
  PROVE  /\ Plan \in Seq(Units(Range(resolved.scenarios), Range(arms)))
         /\ NamedOnce => IsInjective(Plan)
  <1> DEFINE X == Units(Range(resolved.scenarios), Range(arms))
             n == Len(resolved.scenarios)
             rows == [j \in DOMAIN resolved.scenarios |-> RowOf(resolved.scenarios[j])]
  <1>1. n \in Nat /\ DOMAIN resolved.scenarios = 1 .. n
    BY SubmittedFacts
  <1>2. ASSUME NEW j \in 1 .. n
        PROVE  rows[j] \in Seq(X) /\ (NamedOnce => IsInjective(rows[j]))
               /\ \A u \in Range(rows[j]) : u.scenario = resolved.scenarios[j].name
    <2> DEFINE s == resolved.scenarios[j]
    <2>1. s \in Range(resolved.scenarios) /\ rows[j] = RowOf(s)
      BY <1>1 DEF Range
    <2>2. RowOf(s) \in Seq(Units({s}, Range(arms))) /\ (NamedOnce => IsInjective(RowOf(s)))
      BY RowFacts
    <2>3. Units({s}, Range(arms)) \subseteq X
      BY <2>1 DEF Units
    <2>4. \A u \in Units({s}, Range(arms)) : u.scenario = s.name
      BY UnitFacts DEF Units
    <2> HIDE DEF X, s, rows
    <2>5. Range(RowOf(s)) \subseteq Units({s}, Range(arms))
      BY <2>2, RangeOfSeq
    <2>6. RowOf(s) \in Seq(X)
      BY <2>2, <2>3, SeqMonotonic
    <2> QED BY <2>1, <2>2, <2>4, <2>5, <2>6 DEF s
  <1>3. rows \in [1 .. n -> Seq(X)]
    <2>1. rows = [j \in 1 .. n |-> rows[j]]
      BY <1>1
    <2> HIDE DEF rows, X
    <2> QED BY <1>2, <2>1
  <1>4. Plan = FlattenSeq(rows)
    BY PlanIsRows
  <1>5. NamedOnce => \A i, j \in 1 .. n : resolved.scenarios[i].name = resolved.scenarios[j].name => i = j
    BY <1>1 DEF NamedOnce, IsInjective
  <1> HIDE DEF rows, X, n
  <1>6. rows \in Seq(Seq(X)) /\ Len(rows) = n
    BY <1>1, <1>3, ListedInOrder
  <1>7. NamedOnce => Apart(rows)
    <2>1. ASSUME NamedOnce, NEW i \in 1 .. n, NEW j \in 1 .. n, i # j
          PROVE  Range(rows[i]) \cap Range(rows[j]) = {}
      <3>1. resolved.scenarios[i].name # resolved.scenarios[j].name
        BY <1>5, <2>1
      <3>2. /\ \A u \in Range(rows[i]) : u.scenario = resolved.scenarios[i].name
            /\ \A u \in Range(rows[j]) : u.scenario = resolved.scenarios[j].name
        BY <1>2
      <3> QED BY <3>1, <3>2
    <2> QED BY <1>2, <1>6, <2>1 DEF Apart
  <1>8. FlattenSeq(rows) \in Seq(X) /\ (Apart(rows) => IsInjective(FlattenSeq(rows)))
    BY <1>6, Flattened
  <1> QED BY <1>4, <1>7, <1>8 DEF X

LEMMA UnitsOfPlan ==
  ASSUME Submitted, NEW u \in Range(Plan)
  PROVE  /\ \E s \in Range(resolved.scenarios) : s.name = u.scenario
         /\ \E c \in Range(arms) : c.id = u.condition
         /\ u = [scenario |-> u.scenario, condition |-> u.condition, repeat |-> u.repeat]
  <1>1. u \in Units(Range(resolved.scenarios), Range(arms))
    BY PlanFacts, RangeOfSeq
  <1> QED BY <1>1, UnitFacts DEF Units, Unit

----------------------------------------------------------------------------
(* Verification and the server's numbers.                                  *)

(* Verification makes the evidence graph a bijection: for any part of the   *)
(* traces, as many completed trials stand on it as it has traces.           *)
StandingOn(b, some) == {t \in Completed(b) : t.ref \in some}

LEMMA OneTrialToATrace ==
  ASSUME NEW b, NEW traces, Unique(b, traces), TrialTraceGraph(b, traces)
  PROVE  /\ \A t, u \in Completed(b) : t.ref = u.ref => t = u
         /\ \A trace \in traces : \E t \in Completed(b) : t.ref = trace
         /\ \A t \in Completed(b) : t.ref \in traces /\ t.ref.trial = Coordinate(t)
  <1>1. \A t \in Completed(b) : t.ref \in traces /\ Coordinate(t) = t.ref.trial
    BY DEF TrialTraceGraph
  <1>2. ASSUME NEW t \in Completed(b), NEW u \in Completed(b), t.ref = u.ref
        PROVE  t = u
    <2>1. PICK i \in DOMAIN b.trials, j \in DOMAIN b.trials : b.trials[i] = t /\ b.trials[j] = u
      BY DEF Completed, Range
    <2>2. Coordinate(b.trials[i]) = Coordinate(b.trials[j])
      BY <1>1, <1>2, <2>1
    <2>3. i = j
      BY <2>2 DEF Unique, Distinct
    <2> QED BY <2>1, <2>3
  <1>3. ASSUME NEW trace \in traces
        PROVE  \E t \in Completed(b) : t.ref = trace
    <2> DEFINE citing == {i \in DOMAIN b.trials :
                            b.trials[i].status = "completed" /\ b.trials[i].ref = trace}
    <2>1. Cardinality(citing) = 1
      BY DEF TrialTraceGraph
    <2>2. citing # {}
      BY <2>1, FS_EmptySet
    <2>3. PICK i \in DOMAIN b.trials : b.trials[i].status = "completed" /\ b.trials[i].ref = trace
      BY <2>2
    <2> QED BY <2>3 DEF Completed, Range
  <1> QED BY <1>1, <1>2, <1>3

LEMMA CountedOnTraces ==
  ASSUME NEW b, NEW traces, IsFiniteSet(traces), Unique(b, traces), TrialTraceGraph(b, traces),
         NEW some \in SUBSET traces
  PROVE  /\ IsFiniteSet(StandingOn(b, some))
         /\ Cardinality(StandingOn(b, some)) = Cardinality(some)
  <1> DEFINE of == [trace \in some |-> CHOOSE t \in Completed(b) : t.ref = trace]
  <1>1. IsFiniteSet(some)
    BY FS_Subset
  <1>2. \A trace \in some : of[trace] \in Completed(b) /\ of[trace].ref = trace
    BY OneTrialToATrace
  <1>3. of \in Injection(some, StandingOn(b, some))
    <2>1. of \in [some -> StandingOn(b, some)]
      BY <1>2 DEF StandingOn
    <2> QED BY <1>2, <2>1 DEF Injection, IsInjective
  <1>4. of \in Surjection(some, StandingOn(b, some))
    <2>1. ASSUME NEW t \in StandingOn(b, some)
          PROVE  \E trace \in some : of[trace] = t
      <3>1. t \in Completed(b) /\ t.ref \in some
        BY DEF StandingOn
      <3>2. of[t.ref] = t
        BY <1>2, <3>1, OneTrialToATrace
      <3> QED BY <3>1, <3>2
    <2>2. of \in [some -> StandingOn(b, some)]
      BY <1>2 DEF StandingOn
    <2> QED BY <2>1, <2>2 DEF Surjection
  <1>5. ExistsBijection(some, StandingOn(b, some))
    BY <1>3, <1>4 DEF ExistsBijection, Bijection
  <1> QED BY <1>1, <1>5, FS_Bijection

-----------------------------------------------------------------------------
(* What a reader of an accepted bundle may rely on, whoever made it: every  *)
(* derived number is a count over the traces by the coordinates their       *)
(* producers recorded, one completed trial to a trace, and a bundle that    *)
(* says its configuration was recorded at execution has that of every       *)
(* governed trial.                                                          *)
OfArm(b, traces, agg) ==
    {t \in traces :
        /\ t.trial[3] = agg.condition
        /\ Derived(agg.metric) = "violation" =>
                \E s \in b.scenarios : s.name = t.trial[2] /\ s.violation}

LEMMA RowsAreTraces ==
  ASSUME NEW b, NEW traces, Unique(b, traces), TrialTraceGraph(b, traces), NEW agg
  PROVE  LET arm == Arm(Rows(b, traces, Derived(agg.metric)), agg.condition)
             of == OfArm(b, traces, agg)
         IN  /\ arm = StandingOn(b, of)
             /\ \A field : {t \in arm : Evaluate(field, t.ref)}
                            = StandingOn(b, {t \in of : field \in t.facts})
  <1> DEFINE arm == Arm(Rows(b, traces, Derived(agg.metric)), agg.condition)
             of == OfArm(b, traces, agg)
  <1>1. \A t \in Completed(b) : /\ t.ref \in traces
                               /\ t.ref.trial[3] = t.condition /\ t.ref.trial[2] = t.scenario
    BY OneTrialToATrace DEF Coordinate
  <1>2. \A t \in Completed(b) : t \in arm <=> t.ref \in of
    BY <1>1 DEF Arm, Rows, OfArm, ScenariosOf
  <1>3. arm \subseteq Completed(b)
    BY DEF Arm, Rows
  <1>4. arm = StandingOn(b, of)
    BY <1>2, <1>3 DEF StandingOn
  <1>5. ASSUME NEW field
        PROVE  {t \in arm : Evaluate(field, t.ref)} = StandingOn(b, {t \in of : field \in t.facts})
    <2> HIDE DEF arm, of
    <2> QED BY <1>2, <1>3 DEF StandingOn, Evaluate
  <1> QED BY <1>4, <1>5

LEMMA CountsFollow ==
  ASSUME NEW b, NEW traces, IsFiniteSet(traces), Unique(b, traces), TrialTraceGraph(b, traces),
         AggregatesHold(b, traces), NEW agg \in b.aggregates, Derived(agg.metric) # None
  PROVE  agg.estimate = <<Cardinality({t \in OfArm(b, traces, agg) : Derived(agg.metric) \in t.facts}),
                          Cardinality(OfArm(b, traces, agg))>>
  <1> DEFINE arm == Arm(Rows(b, traces, Derived(agg.metric)), agg.condition)
             of == OfArm(b, traces, agg)
             succeeded == {t \in of : Derived(agg.metric) \in t.facts}
  <1>1. agg.estimate = RecomputeAggregate(b, traces, agg).estimate
    BY DEF AggregatesHold
  <1>2. agg.estimate = <<Cardinality({t \in arm : Evaluate(Derived(agg.metric), t.ref)}),
                         Cardinality(arm)>>
    BY <1>1 DEF RecomputeAggregate, BinaryAggregate, Successes
  <1>3. /\ arm = StandingOn(b, of)
        /\ {t \in arm : Evaluate(Derived(agg.metric), t.ref)} = StandingOn(b, succeeded)
    BY RowsAreTraces
  <1>4. of \in SUBSET traces /\ succeeded \in SUBSET traces
    BY DEF OfArm
  <1> HIDE DEF arm, of, succeeded
  <1>5. /\ Cardinality(arm) = Cardinality(of)
        /\ Cardinality({t \in arm : Evaluate(Derived(agg.metric), t.ref)}) = Cardinality(succeeded)
    BY <1>3, <1>4, CountedOnTraces
  <1> QED BY <1>2, <1>5 DEF of, succeeded

LEMMA ProvenanceFollows ==
  ASSUME NEW b, ProvenanceHolds(b), b.environment.provenance # None,
         b.environment.provenance.status = "recorded_at_execution",
         NEW t \in Governed(b)
  PROVE  t.marker = "recorded_at_execution"
  <1> DEFINE markers == {MarkerOf(u) : u \in Governed(b)}
  <1>1. markers \subseteq {"recorded_at_execution", "reconstructed_incident", "reconstructed_legacy"}
    BY DEF MarkerOf
  <1>2. IsFiniteSet(markers)
    <2>1. IsFiniteSet({"recorded_at_execution", "reconstructed_incident", "reconstructed_legacy"})
      <3>1. IsFiniteSet({"recorded_at_execution"})
        BY FS_Singleton
      <3>2. IsFiniteSet({"recorded_at_execution"} \cup {"reconstructed_incident"})
        BY <3>1, FS_AddElement
      <3>3. IsFiniteSet({"recorded_at_execution"} \cup {"reconstructed_incident"}
                            \cup {"reconstructed_legacy"})
        BY <3>2, FS_AddElement
      <3>4. {"recorded_at_execution", "reconstructed_incident", "reconstructed_legacy"}
                = {"recorded_at_execution"} \cup {"reconstructed_incident"} \cup {"reconstructed_legacy"}
        OBVIOUS
      <3> QED BY <3>3, <3>4
    <2> QED BY <1>1, <2>1, FS_Subset
  <1>3. b.environment.provenance = ConfigProvenance(b)
    BY DEF ProvenanceHolds
  <1>4. markers # {}
    OBVIOUS
  <1> DEFINE status == IF Cardinality(markers) = 1 THEN CHOOSE m \in markers : TRUE
                       ELSE "reconstructed_legacy"
  <1>5. ConfigProvenance(b).status = status
    BY <1>4 DEF ConfigProvenance
  <1>6. Cardinality(markers) = 1 /\ "recorded_at_execution" \in markers
    BY <1>3, <1>4, <1>5
  <1>7. PICK x : markers = {x}
    BY <1>2, <1>6, FS_Singleton
  <1>8. MarkerOf(t) = "recorded_at_execution"
    BY <1>6, <1>7
  <1> QED BY <1>8 DEF MarkerOf

(* The same, of any bundle and any finite set of traces: verify_bundle and  *)
(* check_aggregates are sound for what the catalog says of a publication.   *)
THEOREM VerifiedIsCounted ==
  ASSUME NEW b, NEW traces, IsFiniteSet(traces), VerifyBundle(b, traces), AggregatesHold(b, traces)
  PROVE  /\ \A agg \in {a \in b.aggregates : Derived(a.metric) # None} :
                agg.estimate =
                    <<Cardinality({t \in OfArm(b, traces, agg) : Derived(agg.metric) \in t.facts}),
                      Cardinality(OfArm(b, traces, agg))>>
         /\ Cardinality(Completed(b)) = Cardinality(traces)
         /\ b.environment.provenance # None
              /\ b.environment.provenance.status = "recorded_at_execution" =>
                \A t \in Governed(b) : t.marker = "recorded_at_execution"
  <1>1. Unique(b, traces) /\ TrialTraceGraph(b, traces) /\ ProvenanceHolds(b)
    BY DEF VerifyBundle
  <1>2. Completed(b) = StandingOn(b, traces)
    BY <1>1, OneTrialToATrace DEF StandingOn
  <1>3. Cardinality(Completed(b)) = Cardinality(traces)
    BY <1>1, <1>2, CountedOnTraces
  <1> QED BY <1>1, <1>3, CountsFollow, ProvenanceFollows
-----------------------------------------------------------------------------
(* Along a behaviour the traces of a run and of a package are finite: one   *)
(* of a unit that ran, of the reports of a runtime, or what an uploader     *)
(* made of those.                                                           *)
IsPackage(p) == {"bundle", "traces"} \subseteq DOMAIN p
IsResult(r) == {"trials", "traces", "aggregates", "invariants", "conditions"} \subseteq DOMAIN r

FiniteEvidence ==
    /\ IsFiniteSet(DOMAIN reports)
    /\ IsResult(result) /\ IsFiniteSet(result.traces)
    /\ phase = "packaged" => IsPackage(package) /\ IsFiniteSet(package.traces)

LEMMA NoRunFacts == IsResult(NoRun) /\ NoRun.traces = {}
  BY DEF NoRun, IsResult

(* q is p with another bundle *)
Rebundled(p, q) == DOMAIN q = DOMAIN p /\ ("traces" \in DOMAIN p => q.traces = p.traces)

LEMMA RebundledFacts ==
  ASSUME NEW p, NEW v
  PROVE  /\ Rebundled(p, [p EXCEPT !.bundle.trials = v])
         /\ Rebundled(p, [p EXCEPT !.bundle.aggregates = v])
         /\ Rebundled(p, [p EXCEPT !.bundle.environment.provider = v])
         /\ Rebundled(p, [p EXCEPT !.bundle.environment.provenance = v])
  BY DEF Rebundled

LEMMA DoctoredIsFinite ==
  ASSUME NEW p, IsPackage(p), IsFiniteSet(p.traces), NEW q \in Doctored(p)
  PROVE  IsPackage(q) /\ IsFiniteSet(q.traces)
  <1>1. \A t : IsFiniteSet(p.traces \ {t})
    BY FS_RemoveElement
  <1>2. \A t, u : IsFiniteSet((p.traces \ {t}) \cup {u})
    BY <1>1, FS_AddElement
  <1> DEFINE Good(x) == IsPackage(x) /\ IsFiniteSet(x.traces)
  <1>3. \A x : Rebundled(p, x) => Good(x)
    BY DEF Rebundled, IsPackage
  <1>4. ASSUME NEW v, IsFiniteSet(v)
        PROVE  Good([p EXCEPT !.traces = v])
    BY <1>4 DEF IsPackage
  <1>5. CASE q \in TrialLost(p) \cup TrialFaked(p) \cup MarkerRaised(p)
    <2>1. \E seq : q = WithTrials(p, seq)
      <3>1. CASE q \in TrialLost(p)
        BY <3>1 DEF TrialLost
      <3>2. CASE q \in TrialFaked(p)
        BY <3>2 DEF TrialFaked
      <3>3. CASE q \in MarkerRaised(p)
        BY <3>3 DEF MarkerRaised
      <3> QED BY <1>5, <3>1, <3>2, <3>3
    <2> QED BY <1>3, <2>1, RebundledFacts DEF WithTrials
  <1>6. CASE q \in ArmsSwapped(p)
    <2>1. PICK i \in CompletedAt(p.bundle), j \in CompletedAt(p.bundle) :
            q = [WithTrials(p, Exchanged(p.bundle.trials, i, j)) EXCEPT !.bundle.aggregates =
                    Relabelled(@, p.bundle.trials[i].condition, p.bundle.trials[j].condition)]
      BY <1>6 DEF ArmsSwapped
    <2> DEFINE r == WithTrials(p, Exchanged(p.bundle.trials, i, j))
               w == Relabelled(r.bundle.aggregates, p.bundle.trials[i].condition,
                               p.bundle.trials[j].condition)
    <2>2. q = [r EXCEPT !.bundle.aggregates = w]
      BY <2>1
    <2>3. Good(r)
      BY <1>3, RebundledFacts DEF WithTrials
    <2> HIDE DEF r, w
    <2>4. Rebundled(r, q)
      BY <2>2, RebundledFacts
    <2> QED BY <2>3, <2>4 DEF Rebundled, IsPackage
  <1>7. CASE q \in TraceLost(p)
    BY <1>1, <1>4, <1>7 DEF TraceLost
  <1>8. CASE q \in TraceForged(p)
    BY <1>2, <1>4, <1>8 DEF TraceForged
  <1>9. CASE q \in CountRaised(p) \cup RateCleared(p)
    BY <1>3, <1>9, RebundledFacts DEF CountRaised, RateCleared
  <1>10. CASE q \in ProviderClaimed(p) \cup ProvenanceClaimed(p)
    BY <1>3, <1>10, RebundledFacts DEF ProviderClaimed, ProvenanceClaimed
  <1> QED BY <1>5, <1>6, <1>7, <1>8, <1>9, <1>10 DEF Doctored
-----------------------------------------------------------------------------
LEMMA EvidenceStart == Init => FiniteEvidence
  <1>1. DOMAIN <<>> = {}
    OBVIOUS
  <1> QED BY <1>1, NoRunFacts, FS_EmptySet DEF Init, FiniteEvidence

LEMMA ReportedIsFinite ==
  ASSUME FiniteEvidence, Runtime
  PROVE  IsFiniteSet(DOMAIN reports)'
  <1>1. PICK u \in Range(Plan) :
            \/ Restart(u)
            \/ \E status \in {"completed", "failed"}, trace \in Sendable(u) \cup {None},
                  metrics \in Measurements, hash \in {None, ExpectedHash(u), <<"governs", "other">>} :
                    CompleteTrial(u, status, trace, metrics, hash)
    BY DEF Runtime
  <1>2. CASE Restart(u)
    BY <1>2 DEF Restart, FiniteEvidence
  <1>3. ASSUME NEW status, NEW trace, NEW metrics, NEW hash,
               CompleteTrial(u, status, trace, metrics, hash)
        PROVE  IsFiniteSet(DOMAIN reports)'
    <2>1. DOMAIN reports' = {u} \cup DOMAIN reports
      BY <1>3 DEF CompleteTrial
    <2> QED BY <2>1, FS_AddElement DEF FiniteEvidence
  <1> QED BY <1>1, <1>2, <1>3

LEMMA CollectedIsFinite ==
  ASSUME FiniteEvidence, Collect
  PROVE  (IsResult(result) /\ IsFiniteSet(result.traces))'
  <1>1. IsFiniteSet(Sent)
    <2>1. IsFiniteSet({reports[u].trace : u \in DOMAIN reports})
      <3> DEFINE of == [u \in DOMAIN reports |-> reports[u].trace]
                 all == {reports[u].trace : u \in DOMAIN reports}
      <3>1. of \in Surjection(DOMAIN reports, all)
        BY DEF Surjection
      <3> HIDE DEF all, of
      <3>3. IsFiniteSet(all)
        BY <3>1, FS_Surjection DEF FiniteEvidence
      <3> QED BY <3>3 DEF all
    <2> QED BY <2>1, FS_RemoveElement DEF Sent
  <1>2. CASE UNCHANGED result
    BY <1>2 DEF FiniteEvidence
  <1>3. CASE Collectable
    <2>1. PICK kept \in [Range(Plan) -> Sent \cup {None}] :
            result' = [result EXCEPT
                    !.trials = [i \in DOMAIN Plan |-> CollectedTrial(Plan[i], kept[Plan[i]])],
                    !.traces = {kept[u] : u \in Range(Plan)} \ {None}]
      BY <1>3 DEF Collect
    <2> DEFINE traces == {kept[u] : u \in Range(Plan)} \ {None}
    <2>2. traces \in SUBSET Sent
      OBVIOUS
    <2>3. IsFiniteSet(traces)
      BY <1>1, <2>2, FS_Subset
    <2> DEFINE trials == [i \in DOMAIN Plan |-> CollectedTrial(Plan[i], kept[Plan[i]])]
    <2>4. result' = [result EXCEPT !.trials = trials, !.traces = traces]
      BY <2>1
    <2> HIDE DEF traces, trials
    <2>5. IsResult(result)
      BY DEF FiniteEvidence
    <2>6. IsResult(result') /\ result'.traces = traces
      BY <2>4, <2>5 DEF IsResult
    <2> QED BY <2>3, <2>6
  <1> QED BY <1>2, <1>3 DEF Collect

LEMMA EvidenceStep == FiniteEvidence /\ [Next]_vars => FiniteEvidence'
  <1> SUFFICES ASSUME FiniteEvidence, [Next]_vars
               PROVE  FiniteEvidence'
    OBVIOUS
  <1>1. CASE Submit
    <2>1. \/ UNCHANGED result
          \/ result' = [NoRun EXCEPT !.conditions = arms]
      BY <1>1 DEF Submit
    <2>2. (IsResult(result) /\ IsFiniteSet(result.traces))'
      BY <2>1, NoRunFacts, FS_EmptySet DEF FiniteEvidence, IsResult
    <2> QED BY <1>1, <2>2 DEF Submit, FiniteEvidence
  <1>2. CASE RunUnit
    <2>1. /\ UNCHANGED <<reports, phase, package>>
          /\ \E trials, trace : \/ result' = [result EXCEPT !.trials = trials]
                                \/ result' = [result EXCEPT !.trials = trials, !.traces = @ \cup {trace}]
      BY <1>2, ZenonT(30) DEF RunUnit
    <2>2. PICK trials, trace :
            \/ result' = [result EXCEPT !.trials = trials]
            \/ result' = [result EXCEPT !.trials = trials, !.traces = @ \cup {trace}]
      BY <2>1
    <2>3. IsFiniteSet(result.traces \cup {trace})
      BY FS_AddElement DEF FiniteEvidence
    <2>4. (IsResult(result) /\ IsFiniteSet(result.traces))'
      BY <2>2, <2>3 DEF FiniteEvidence, IsResult
    <2> QED BY <2>1, <2>4 DEF FiniteEvidence
  <1>3. CASE Runtime
    <2>1. UNCHANGED <<phase, result, package>>
      BY <1>3 DEF Runtime, Restart, CompleteTrial
    <2> QED BY <1>3, <2>1, ReportedIsFinite DEF FiniteEvidence
  <1>4. CASE Collect
    <2>1. UNCHANGED <<reports, package>> /\ phase' # "packaged"
      BY <1>4 DEF Collect
    <2> QED BY <1>4, <2>1, CollectedIsFinite DEF FiniteEvidence
  <1>5. CASE Conclude
    <2>1. /\ UNCHANGED reports /\ phase' # "packaged"
          /\ \E aggregates, invariants :
                result' = [result EXCEPT !.aggregates = aggregates, !.invariants = invariants]
      BY <1>5, Zenon DEF Conclude
    <2> QED BY <2>1 DEF FiniteEvidence, IsResult
  <1>6. CASE MakeBundle
    BY <1>6 DEF MakeBundle, FiniteEvidence, IsPackage
  <1>7. CASE Change
    <2>1. PICK p \in Doctored(package) : package' = [p EXCEPT !.changed = TRUE]
      BY <1>7 DEF Change
    <2>2. IsPackage(p) /\ IsFiniteSet(p.traces)
      BY <1>7, DoctoredIsFinite DEF Change, FiniteEvidence
    <2>3. IsPackage(package') /\ IsFiniteSet(package'.traces)
      BY <2>1, <2>2 DEF IsPackage
    <2> QED BY <1>7, <2>3 DEF Change, FiniteEvidence
  <1>8. CASE SealAgain
    <2>1. \E v : package' = [package EXCEPT !.bundle = v]
      BY <1>8 DEF SealAgain
    <2> QED BY <1>8, <2>1 DEF SealAgain, FiniteEvidence, IsPackage
  <1>9. CASE RunRaises \/ UNCHANGED vars
    BY <1>9 DEF RunRaises, vars, FiniteEvidence
  <1> QED BY <1>1, <1>2, <1>3, <1>4, <1>5, <1>6, <1>7, <1>8, <1>9 DEF Next

(* Whatever an uploader did to a package, sealed again or not: accepted, it *)
(* says what its traces say (verify_bundle, check_aggregates).              *)
THEOREM AcceptanceIsEarned == Spec => []AcceptedFollowsEvidence
  <1>1. FiniteEvidence => AcceptedFollowsEvidence
    <2> SUFFICES ASSUME FiniteEvidence, Accepted
                 PROVE  AcceptedFollowsEvidence
      BY DEF AcceptedFollowsEvidence
    <2> DEFINE b == package.bundle
               traces == package.traces
    <2>1. IsFiniteSet(traces) /\ VerifyBundle(b, traces) /\ AggregatesHold(b, traces)
      BY DEF Accepted, FiniteEvidence
    <2> HIDE DEF b, traces
    <2>2. /\ \A agg \in {a \in b.aggregates : Derived(a.metric) # None} :
                agg.estimate =
                    <<Cardinality({t \in OfArm(b, traces, agg) : Derived(agg.metric) \in t.facts}),
                      Cardinality(OfArm(b, traces, agg))>>
          /\ Cardinality(Completed(b)) = Cardinality(traces)
          /\ b.environment.provenance # None
              /\ b.environment.provenance.status = "recorded_at_execution" =>
                \A t \in Governed(b) : t.marker = "recorded_at_execution"
      BY <2>1, VerifiedIsCounted
    <2> QED BY <2>2, Zenon DEF b, traces, OfArm, AcceptedFollowsEvidence
  <1> QED BY <1>1, EvidenceStart, EvidenceStep, PTL DEF Spec
-----------------------------------------------------------------------------
(* The outcomes of a suite that ran are those of its rules on its trials.   *)
RulesAreChecked ==
    /\ IsResult(result)
    /\ Ran /\ lane # "experiment" =>
        result.invariants =
            [r \in resolved.regressions |->
                CheckInvariant(r, Range(result.trials), result.traces, resolved.evaluators)]

(* what a rule that passed on a number of trials was evaluated on *)
EvaluatedOn(r, scoped, checked, evaluators) ==
    /\ scoped # {}
    /\ checked = Cardinality(scoped)
    /\ r.kind = "metric_threshold" =>
            \A t \in scoped : r.metric \in DOMAIN t.metrics /\ IsNum(t.metrics[r.metric])
    /\ r.kind = "predicate" => \A t \in scoped : t.ref.acted
    /\ r.kind = "evaluator_outcome" => \E e \in evaluators : e.id = r.evaluator

LEMMA OnlyMeasuredPass ==
  ASSUME NEW r, NEW trials, NEW traces, NEW evaluators,
         CheckInvariant(r, trials, traces, evaluators).status = "passed"
  PROVE  EvaluatedOn(r, {t \in Done(trials) : InScope(r, t)},
                     CheckInvariant(r, trials, traces, evaluators).checked, evaluators)
  <1> DEFINE scoped == {t \in Done(trials) : InScope(r, t)}
             outcome == CheckInvariant(r, trials, traces, evaluators)
  <1>1. scoped = {t \in trials : t.status = "completed" /\ InScope(r, t)}
    BY DEF Done
  <1>2. Unevaluable.status # "passed"
    BY DEF Unevaluable, Outcome
  <1>3. /\ scoped # {}
        /\ \/ r.kind = "metric_threshold" /\ outcome = CheckMetricThreshold(r, scoped)
           \/ r.kind = "evaluator_outcome" /\ outcome = CheckEvaluatorOutcome(r, scoped, traces, evaluators)
           \/ r.kind = "verdict_sequence" /\ outcome = CheckVerdictSequence(r, scoped, traces)
           \/ r.kind = "predicate" /\ outcome = CheckPredicate(r, scoped, traces)
    BY <1>1, <1>2 DEF CheckInvariant
  <1>4. ASSUME NEW holds, DOMAIN holds = scoped
        PROVE  Verdict(r, holds).checked = Cardinality(scoped)
    BY <1>4 DEF Verdict, Outcome
  <1> HIDE DEF scoped, outcome
  <1>0. outcome.status = "passed"
    BY DEF outcome
  <1>5. CASE r.kind = "metric_threshold"
    <2>1. outcome = CheckMetricThreshold(r, scoped)
      BY <1>3, <1>5
    <2> DEFINE measured == {t \in scoped : r.metric \in DOMAIN t.metrics /\ IsNum(t.metrics[r.metric])}
               values == [t \in scoped |-> t.metrics[r.metric].v]
               compared == [t \in scoped |-> Compare(r.op, values[t], r.value)]
    <2>2. measured = scoped
      BY <1>0, <1>2, <2>1 DEF CheckMetricThreshold
    <2>3. \/ outcome = Verdict(r, compared)
          \/ outcome.checked = Cardinality(scoped)
      BY <1>0, <1>2, <2>1 DEF CheckMetricThreshold, Outcome
    <2>4. outcome.checked = Cardinality(scoped)
      BY <1>4, <2>3
    <2> QED BY <1>3, <1>5, <2>2, <2>4 DEF outcome, scoped, EvaluatedOn
  <1>6. CASE r.kind = "evaluator_outcome"
    <2>1. outcome = CheckEvaluatorOutcome(r, scoped, traces, evaluators)
      BY <1>3, <1>6
    <2>2. /\ \E e \in evaluators : e.id = r.evaluator
          /\ \E holds : DOMAIN holds = scoped /\ outcome = Verdict(r, holds)
      BY <1>0, <1>2, <2>1 DEF CheckEvaluatorOutcome
    <2> QED BY <1>3, <1>4, <1>6, <2>2 DEF outcome, scoped, EvaluatedOn
  <1>7. CASE r.kind = "verdict_sequence"
    <2>1. outcome = CheckVerdictSequence(r, scoped, traces)
      BY <1>3, <1>7
    <2>2. \E holds : DOMAIN holds = scoped /\ outcome = Verdict(r, holds)
      BY <1>0, <1>2, <2>1 DEF CheckVerdictSequence
    <2> QED BY <1>3, <1>4, <1>7, <2>2 DEF outcome, scoped, EvaluatedOn
  <1>8. CASE r.kind = "predicate"
    <2>1. outcome = CheckPredicate(r, scoped, traces)
      BY <1>3, <1>8
    <2>2. /\ \A t \in scoped : t.ref.acted
          /\ \E holds : DOMAIN holds = scoped /\ outcome = Verdict(r, holds)
      BY <1>0, <1>2, <2>1 DEF CheckPredicate
    <2> QED BY <1>3, <1>4, <1>8, <2>2 DEF outcome, scoped, EvaluatedOn
  <1> QED BY <1>3, <1>5, <1>6, <1>7, <1>8

LEMMA RulesStart == Init => RulesAreChecked
  BY NoRunFacts DEF Init, RulesAreChecked, Ran

LEMMA RulesStep == RulesAreChecked /\ FiniteEvidence /\ FiniteEvidence' /\ [Next]_vars => RulesAreChecked'
  <1> SUFFICES ASSUME RulesAreChecked, FiniteEvidence, FiniteEvidence', [Next]_vars
               PROVE  RulesAreChecked'
    OBVIOUS
  <1>1. IsResult(result')
    BY DEF FiniteEvidence
  <1>2. CASE Submit \/ RunUnit \/ Runtime \/ Collect \/ RunRaises
    <2>1. phase' \notin {"ran", "packaged"}
      <3>1. CASE RunUnit
        <4>1. phase = "running" /\ UNCHANGED phase
          BY <3>1, Zenon DEF RunUnit
        <4> QED BY <4>1
      <3>2. CASE Runtime
        BY <3>2 DEF Runtime, Restart, CompleteTrial
      <3>3. CASE Submit
        BY <3>3 DEF Submit
      <3>4. CASE Collect \/ RunRaises
        BY <3>4 DEF Collect, RunRaises
      <3> QED BY <1>2, <3>1, <3>2, <3>3, <3>4
    <2> QED BY <1>1, <2>1 DEF RulesAreChecked, Ran
  <1>3. CASE Conclude
    <2> DEFINE checked == [r \in resolved.regressions |->
                             CheckInvariant(r, Range(result.trials), result.traces, resolved.evaluators)]
    <2>1. PICK aggregates : result' = [result EXCEPT !.aggregates = aggregates,
                        !.invariants = IF lane = "experiment" THEN <<>> ELSE checked]
      BY <1>3, Zenon DEF Conclude
    <2>2. /\ result'.trials = result.trials /\ result'.traces = result.traces
          /\ lane # "experiment" => result'.invariants = checked
      BY <2>1 DEF RulesAreChecked, IsResult
    <2>3. resolved' = resolved /\ lane' = lane
      BY <1>3 DEF Conclude, resolved
    <2> QED BY <1>1, <2>2, <2>3 DEF RulesAreChecked
  <1>4. CASE MakeBundle \/ Change \/ SealAgain \/ UNCHANGED vars
    <2>1. /\ UNCHANGED <<manifest, lane, result>> /\ Ran' = Ran
      BY <1>4 DEF MakeBundle, Change, SealAgain, vars, Ran
    <2>2. resolved' = resolved
      BY <2>1 DEF resolved
    <2> QED BY <2>1, <2>2 DEF RulesAreChecked
  <1> QED BY <1>2, <1>3, <1>4 DEF Next

(* No rule of a suite passes on trials it was not evaluated on (invariants.py). *)
THEOREM PassedIsMeasured == Spec => []UnevaluableNeverPasses
  <1>1. RulesAreChecked => UnevaluableNeverPasses
    <2> SUFFICES ASSUME RulesAreChecked, Ran, lane # "experiment",
                        NEW r \in DOMAIN result.invariants, result.invariants[r].status = "passed"
                 PROVE  EvaluatedOn(r, {t \in Done(Trials) : InScope(r, t)},
                                    result.invariants[r].checked, resolved.evaluators)
      BY Zenon DEF UnevaluableNeverPasses, EvaluatedOn
    <2>1. result.invariants[r] = CheckInvariant(r, Trials, result.traces, resolved.evaluators)
      BY DEF RulesAreChecked, Trials
    <2> QED BY <2>1, OnlyMeasuredPass
  <1>2. Spec => []FiniteEvidence
    BY EvidenceStart, EvidenceStep, PTL DEF Spec
  <1> QED BY <1>1, <1>2, RulesStart, RulesStep, PTL DEF Spec

----------------------------------------------------------------------------
(* The run. In every lane its trials follow the plan from the first unit   *)
(* on, whatever a behaviour or a runtime does, and what is later refused   *)
(* has none.                                                               *)

TrialFits(t, u, seed) ==
    /\ t.id = <<"run", u.scenario, u.condition, seed, u.repeat>>
    /\ t.scenario = u.scenario /\ t.condition = u.condition /\ t.seed = seed
    /\ t.repeat = u.repeat /\ t.execution = "run"
    /\ t.status \in {"completed", "failed"} /\ (t.status = "failed" => t.metrics = <<>>)

RunInv ==
    /\ Submitted /\ IsResult(result)
    /\ phase = "submitted" => result.trials = <<>>
    /\ phase \notin {"submitted", "refused"} => Resolvable(manifest) /\ result.conditions = arms
    /\ (\E S : result.trials \in Seq(S)) /\ Len(result.trials) <= Len(Plan)
    /\ Ran => Len(result.trials) = Len(Plan)
    /\ \A i \in 1 .. Len(result.trials) :
            TrialFits(result.trials[i], Plan[i], SeedFor(resolved, lane, Plan[i].repeat))

LEMMA SameSubmission ==
  ASSUME UNCHANGED <<manifest, lane>>
  PROVE  /\ resolved' = resolved /\ Plan' = Plan /\ arms' = arms /\ Submitted' = Submitted
         /\ \A u : ScenarioOf(u)' = ScenarioOf(u) /\ ConditionOf(u)' = ConditionOf(u)
         /\ Environment' = Environment
  <1>1. resolved' = resolved
    BY DEF resolved
  <1>2. arms' = arms /\ Plan' = Plan
    BY <1>1 DEF arms, Plan
  <1> QED BY <1>1, <1>2 DEF Submitted, ScenarioOf, ConditionOf, Environment

LEMMA RecordFits ==
  ASSUME NEW u, NEW seed
  PROVE  TrialFits(Record(u, seed), u, seed)
  BY DEF Record, TrialFits

LEMMA RunStart == Init => RunInv
  <1> SUFFICES ASSUME Init
               PROVE  RunInv
    OBVIOUS
  <1>1. Submitted /\ phase = "submitted" /\ result = NoRun
    BY DEF Init, Submitted
  <1>2. IsResult(NoRun) /\ NoRun.trials = <<>>
    BY DEF NoRun, IsResult
  <1>3. <<>> \in Seq({}) /\ Len(<<>>) = 0
    OBVIOUS
  <1>4. Len(Plan) \in Nat
    BY <1>1, PlanFacts
  <1> QED BY <1>1, <1>2, <1>3, <1>4 DEF RunInv, Ran

(* what _run_one makes of the next unit *)
NextUnit == Plan[Len(result.trials) + 1]
NextSeed == SeedFor(resolved, lane, NextUnit.repeat)
NextTrace(did) == TraceOf(NextUnit, NextSeed, ConditionOf(NextUnit).kernel, did)
NextTrial(did) ==
    [Record(NextUnit, NextSeed) EXCEPT
        !.status = "completed", !.ref = NextTrace(did),
        !.metrics = IF lane = "suite" THEN Merged(Verdicts(ScenarioOf(NextUnit), NextTrace(did)), HookMetrics(NextTrace(did)))
                    ELSE [tool_calls |-> Num(NextTrace(did).reads)],
        !.hash = IF ConditionOf(NextUnit).kernel # None
                 THEN RuntimeConfigHash(ConditionOf(NextUnit), ScenarioOf(NextUnit)) ELSE None,
        !.marker = IF ConditionOf(NextUnit).kernel # None THEN "recorded_at_execution" ELSE None]

LEMMA RunUnitIs ==
  ASSUME RunUnit
  PROVE  /\ UNCHANGED <<manifest, lane, phase, reports, package>>
         /\ phase = "running" /\ lane # "remote" /\ Len(result.trials) < Len(Plan)
         /\ \/ result' = [result EXCEPT !.trials = Append(@, Record(NextUnit, NextSeed))]
            \/ \E did \in Behaviours :
                    result' = [result EXCEPT !.trials = Append(@, NextTrial(did)),
                                             !.traces = @ \cup {NextTrace(did)}]
  BY Zenon DEF RunUnit, NextUnit, NextSeed, NextTrace, NextTrial

LEMMA RunUnitKeeps ==
  ASSUME RunInv, RunUnit
  PROVE  RunInv'
  <1> DEFINE n == Len(result.trials)
             u == NextUnit
             seed == NextSeed
  <1>1. /\ UNCHANGED <<manifest, lane, phase>> /\ phase = "running" /\ n < Len(Plan)
        /\ \E t, traces : /\ result' = [result EXCEPT !.trials = Append(result.trials, t), !.traces = traces]
                          /\ TrialFits(t, u, seed)
    <2>1. IsResult(result)
      BY DEF RunInv
    <2>2. TrialFits(Record(u, seed), u, seed)
      BY RecordFits
    <2>3. \A trials : [result EXCEPT !.trials = trials] = [result EXCEPT !.trials = trials, !.traces = result.traces]
      BY <2>1 DEF IsResult
    <2>4. \A did : TrialFits(NextTrial(did), u, seed)
      BY DEF NextTrial, Record, TrialFits
    <2> DEFINE Kept(t, traces) ==
                  /\ result' = [result EXCEPT !.trials = Append(result.trials, t), !.traces = traces]
                  /\ TrialFits(t, u, seed)
    <2>5. ASSUME result' = [result EXCEPT !.trials = Append(@, Record(NextUnit, NextSeed))]
          PROVE  \E t, traces : Kept(t, traces)
      <3>1. Kept(Record(u, seed), result.traces)
        BY <2>2, <2>3, <2>5
      <3> QED BY <3>1
    <2>6. ASSUME \E did \in Behaviours :
                    result' = [result EXCEPT !.trials = Append(@, NextTrial(did)),
                                             !.traces = @ \cup {NextTrace(did)}]
          PROVE  \E t, traces : Kept(t, traces)
      <3>1. PICK did \in Behaviours :
                    result' = [result EXCEPT !.trials = Append(result.trials, NextTrial(did)),
                                             !.traces = result.traces \cup {NextTrace(did)}]
        BY <2>6
      <3>2. Kept(NextTrial(did), result.traces \cup {NextTrace(did)})
        BY <2>4, <3>1
      <3> QED BY <3>2
    <2>7. \E t, traces : Kept(t, traces)
      <3> HIDE DEF Kept
      <3> QED BY <2>5, <2>6, RunUnitIs
    <2> QED BY <2>7, RunUnitIs
  <1>2. PICK t, traces : /\ result' = [result EXCEPT !.trials = Append(result.trials, t), !.traces = traces]
                         /\ TrialFits(t, u, seed)
    BY <1>1
  <1>3. /\ result'.trials = Append(result.trials, t) /\ IsResult(result')
        /\ result'.conditions = result.conditions
    BY <1>2 DEF RunInv, IsResult
  <1>4. /\ resolved' = resolved /\ Plan' = Plan /\ arms' = arms /\ Submitted'
    BY <1>1, SameSubmission DEF RunInv
  <1>5. PICK S : result.trials \in Seq(S)
    BY DEF RunInv
  <1>6. result.trials \in Seq(S \cup {t}) /\ t \in S \cup {t}
    BY <1>5, SeqMonotonic
  <1>7. /\ result'.trials \in Seq(S \cup {t}) /\ Len(result'.trials) = n + 1 /\ n \in Nat
        /\ \A i \in 1 .. n : result'.trials[i] = result.trials[i]
        /\ result'.trials[n + 1] = t
    BY <1>3, <1>6, AppendProperties
  <1>8. \A i \in 1 .. n + 1 :
            TrialFits(result'.trials[i], Plan[i], SeedFor(resolved, lane, Plan[i].repeat))
    <2> SUFFICES ASSUME NEW i \in 1 .. n + 1
                 PROVE  TrialFits(result'.trials[i], Plan[i], SeedFor(resolved, lane, Plan[i].repeat))
      OBVIOUS
    <2>1. CASE i \in 1 .. n
      BY <1>7, <2>1 DEF RunInv
    <2>2. CASE i = n + 1
      BY <1>2, <1>7, <2>2 DEF NextUnit, NextSeed
    <2> QED BY <1>7, <2>1, <2>2
  <1>9. Len(Plan) \in Nat
    BY PlanFacts DEF RunInv
  <1>10. n + 1 <= Len(Plan)
    BY <1>1, <1>7, <1>9
  <1>11. ~Ran' /\ phase' = "running" /\ Resolvable(manifest)' /\ (result.conditions = arms)'
    BY <1>1, <1>3, <1>4 DEF RunInv, Ran
  <1> HIDE DEF n, u, seed
  <1> QED BY <1>1, <1>3, <1>4, <1>7, <1>8, <1>10, <1>11 DEF RunInv

(* what a collection keeps of what was sent for each unit *)
KeptFrom(kept) ==
    /\ kept \in [Range(Plan) -> Sent \cup {None}]
    /\ \A u \in Range(Plan) : IF SentFor(u) = {} THEN kept[u] = None ELSE kept[u] \in SentFor(u)

LEMMA CollectIs ==
  ASSUME Collect
  PROVE  /\ UNCHANGED <<manifest, lane, reports, package>>
         /\ phase = "running" /\ lane = "remote" /\ Len(result.trials) = 0
         /\ \/ phase' = "refused" /\ UNCHANGED result
            \/ /\ UNCHANGED phase /\ Collectable
               /\ \E kept : /\ KeptFrom(kept)
                            /\ result' = [result EXCEPT
                                    !.trials = [i \in DOMAIN Plan |-> CollectedTrial(Plan[i], kept[Plan[i]])],
                                    !.traces = {kept[u] : u \in Range(Plan)} \ {None}]
  <1>1. CASE Collectable
    <2>1. \E kept \in {f \in [Range(Plan) -> Sent \cup {None}] :
                    \A u \in Range(Plan) : IF SentFor(u) = {} THEN f[u] = None ELSE f[u] \in SentFor(u)} :
            /\ result' = [result EXCEPT
                    !.trials = [i \in DOMAIN Plan |-> CollectedTrial(Plan[i], kept[Plan[i]])],
                    !.traces = {kept[u] : u \in Range(Plan)} \ {None}]
            /\ UNCHANGED phase
      BY <1>1 DEF Collect
    <2>2. PICK kept \in {f \in [Range(Plan) -> Sent \cup {None}] :
                    \A u \in Range(Plan) : IF SentFor(u) = {} THEN f[u] = None ELSE f[u] \in SentFor(u)} :
            /\ result' = [result EXCEPT
                    !.trials = [i \in DOMAIN Plan |-> CollectedTrial(Plan[i], kept[Plan[i]])],
                    !.traces = {kept[u] : u \in Range(Plan)} \ {None}]
            /\ UNCHANGED phase
      BY <2>1
    <2>3. KeptFrom(kept)
      BY ONLY <2>2 DEF KeptFrom
    <2>4. \E f : /\ KeptFrom(f)
                /\ result' = [result EXCEPT
                        !.trials = [i \in DOMAIN Plan |-> CollectedTrial(Plan[i], f[Plan[i]])],
                        !.traces = {f[u] : u \in Range(Plan)} \ {None}]
      BY <2>2, <2>3
    <2>5. UNCHANGED phase
      BY <2>2
    <2>6. /\ UNCHANGED <<manifest, lane, reports, package>>
          /\ phase = "running" /\ lane = "remote" /\ Len(result.trials) = 0
      BY DEF Collect
    <2> QED BY <1>1, <2>4, <2>5, <2>6
  <1>2. CASE ~Collectable
    BY <1>2 DEF Collect
  <1> QED BY <1>1, <1>2

(* which steps leave what alone *)
LEMMA SubmissionIsKept ==
  ASSUME [Next]_vars
  PROVE  UNCHANGED <<manifest, lane>>
  <1>1. CASE RunUnit \/ Collect
    BY <1>1, RunUnitIs, CollectIs
  <1>2. CASE Submit \/ Conclude
    <2>1. CASE Submit
      BY <2>1 DEF Submit
    <2>2. CASE Conclude
      BY <2>2, Zenon DEF Conclude
    <2> QED BY <1>2, <2>1, <2>2
  <1>3. CASE Runtime \/ RunRaises
    BY <1>3 DEF Runtime, Restart, CompleteTrial, RunRaises
  <1>4. CASE MakeBundle
    BY <1>4 DEF MakeBundle
  <1>5. CASE Change \/ SealAgain
    BY <1>5 DEF Change, SealAgain
  <1>6. CASE UNCHANGED vars
    BY <1>6 DEF vars
  <1> QED BY <1>1, <1>2, <1>3, <1>4, <1>5, <1>6 DEF Next

LEMMA RunIsKept ==
  ASSUME Runtime \/ RunRaises \/ MakeBundle \/ Change \/ SealAgain \/ UNCHANGED vars
  PROVE  UNCHANGED result /\ (UNCHANGED phase \/ phase' = "refused" \/ (phase = "ran" /\ phase' = "packaged"))
  <1>1. CASE Runtime
    BY <1>1 DEF Runtime, Restart, CompleteTrial
  <1>2. CASE MakeBundle
    BY <1>2 DEF MakeBundle
  <1>3. CASE Change \/ SealAgain
    BY <1>3 DEF Change, SealAgain
  <1>4. CASE UNCHANGED vars
    BY <1>4 DEF vars
  <1>5. CASE RunRaises
    BY <1>5 DEF RunRaises
  <1> QED BY <1>1, <1>2, <1>3, <1>4, <1>5

LEMMA CollectKeeps ==
  ASSUME RunInv, Collect
  PROVE  RunInv'
  <1>1. /\ UNCHANGED <<manifest, lane>> /\ phase = "running" /\ lane = "remote"
        /\ Len(result.trials) = 0 /\ IsResult(result)
    BY CollectIs DEF RunInv
  <1>2. /\ resolved' = resolved /\ Plan' = Plan /\ arms' = arms /\ Submitted'
    BY <1>1, SameSubmission DEF RunInv
  <1>3. CASE phase' = "refused" /\ UNCHANGED result
    BY <1>1, <1>2, <1>3 DEF RunInv, Ran
  <1>4. CASE phase' = phase /\ ~UNCHANGED result
    <2>1. PICK kept : result' = [result EXCEPT
                            !.trials = [i \in DOMAIN Plan |-> CollectedTrial(Plan[i], kept[Plan[i]])],
                            !.traces = {kept[u] : u \in Range(Plan)} \ {None}]
      BY <1>4, CollectIs, Zenon
    <2> DEFINE trials == [i \in DOMAIN Plan |-> CollectedTrial(Plan[i], kept[Plan[i]])]
               n == Len(Plan)
    <2>2. n \in Nat /\ DOMAIN Plan = 1 .. n
      BY PlanFacts DEF RunInv
    <2>3. trials \in [1 .. n -> Range(trials)]
      BY <2>2 DEF Range
    <2>4. \A u, trace : TrialFits(CollectedTrial(u, trace), u, <<"s", u.repeat>>)
      BY DEF CollectedTrial, Record, TrialFits
    <2>5. \A i \in 1 .. n : trials[i] = CollectedTrial(Plan[i], kept[Plan[i]])
      BY <2>2
    <2>6. \A i : SeedFor(resolved, lane, i) = <<"s", i>>
      BY <1>1 DEF SeedFor
    <2> HIDE DEF trials, n
    <2>7. trials \in Seq(Range(trials)) /\ Len(trials) = n
      BY <2>2, <2>3, ListedInOrder
    <2>8. result'.trials = trials /\ IsResult(result') /\ result'.conditions = result.conditions
      BY <1>1, <2>1 DEF IsResult, trials
    <2>9. \A i \in 1 .. n : TrialFits(trials[i], Plan[i], SeedFor(resolved, lane, Plan[i].repeat))
      BY <2>4, <2>5, <2>6
    <2>10. Resolvable(manifest) /\ result.conditions = arms /\ lane' = lane /\ manifest' = manifest
      BY <1>1 DEF RunInv
    <2> QED BY <1>1, <1>2, <1>4, <2>2, <2>7, <2>8, <2>9, <2>10 DEF RunInv, Ran, n
  <1>5. CASE phase' = phase /\ UNCHANGED result
    BY <1>1, <1>2, <1>5 DEF RunInv, Ran
  <1> QED BY <1>3, <1>4, <1>5, CollectIs

LEMMA RunStep == RunInv /\ [Next]_vars => RunInv'
  <1> SUFFICES ASSUME RunInv, [Next]_vars
               PROVE  RunInv'
    OBVIOUS
  <1>1. UNCHANGED <<manifest, lane>>
    BY SubmissionIsKept
  <1>2. /\ resolved' = resolved /\ Plan' = Plan /\ arms' = arms /\ Submitted' /\ Submitted
    BY <1>1, SameSubmission DEF RunInv
  <1>3. CASE Submit
    <2>1. CASE phase' = "running" /\ Resolvable(manifest) /\ result' = [NoRun EXCEPT !.conditions = arms]
      <3>1. IsResult(result') /\ result'.trials = <<>> /\ result'.conditions = arms
        BY <2>1 DEF NoRun, IsResult
      <3>2. <<>> \in Seq({}) /\ Len(<<>>) = 0
        OBVIOUS
      <3>3. Len(Plan) \in Nat
        BY <1>2, PlanFacts
      <3>4. (\E S : result'.trials \in Seq(S)) /\ Len(result'.trials) = 0
        BY <3>1, <3>2
      <3>5. /\ Len(result'.trials) <= Len(Plan')
            /\ \A i \in 1 .. Len(result'.trials) :
                    TrialFits(result'.trials[i], Plan'[i], SeedFor(resolved', lane', Plan'[i].repeat))
        BY <1>2, <3>3, <3>4
      <3>6. Resolvable(manifest') /\ result'.conditions = arms'
        BY <1>1, <1>2, <2>1, <3>1
      <3> QED BY <1>1, <1>2, <2>1, <3>1, <3>4, <3>5, <3>6 DEF RunInv, Ran
    <2>2. CASE phase' = "refused" /\ UNCHANGED result
      BY <1>1, <1>2, <2>2 DEF RunInv, Ran
    <2> QED BY <1>3, <2>1, <2>2 DEF Submit
  <1>4. CASE RunUnit
    BY <1>4, RunUnitKeeps
  <1>5. CASE Collect
    BY <1>5, CollectKeeps
  <1>6. CASE Conclude
    <2>1. /\ phase = "running" /\ phase' = "ran" /\ Len(result.trials) = Len(Plan)
          /\ \E aggregates, invariants :
                result' = [result EXCEPT !.aggregates = aggregates, !.invariants = invariants]
      BY <1>6, Zenon DEF Conclude
    <2>2. IsResult(result') /\ result'.trials = result.trials /\ result'.conditions = result.conditions
      BY <2>1 DEF RunInv, IsResult
    <2> QED BY <1>1, <1>2, <2>1, <2>2 DEF RunInv, Ran
  <1>7. CASE Runtime \/ RunRaises \/ MakeBundle \/ Change \/ SealAgain \/ UNCHANGED vars
    <2>1. UNCHANGED result /\ (UNCHANGED phase \/ phase' = "refused" \/ (phase = "ran" /\ phase' = "packaged"))
      BY <1>7, RunIsKept
    <2> QED BY <1>1, <1>2, <2>1 DEF RunInv, Ran
  <1> QED BY <1>3, <1>4, <1>5, <1>6, <1>7 DEF Next

----------------------------------------------------------------------------
(* What a runtime's reports can hold.                                      *)

(* What a runtime's reports can hold, whatever it sends. *)
SentFits(trace) ==
    /\ trace.digest = WorldDigest(ScenarioOf(UnitOf(trace)))
    /\ trace.kernel = None => trace.verdicts = <<>>
    /\ trace.reads \in Int

Numbers(metrics) == \A k \in DOMAIN metrics : IsNum(metrics[k]) => metrics[k].v \in Int
Unjudged(metrics) == {"task_success", "ASR"} \cap DOMAIN metrics = {} /\ Numbers(metrics)

ReportFits(r) ==
    /\ {"status", "trace", "metrics", "hash", "attempts"} \subseteq DOMAIN r
    /\ Unjudged(r.metrics) /\ (r.trace # None => SentFits(r.trace))

ReportsFit == \A u \in DOMAIN reports : ReportFits(reports[u])

LEMMA TraceOfFits ==
  ASSUME NEW u, NEW seed, NEW kernel, NEW did \in Behaviours
  PROVE  LET trace == TraceOf(u, seed, kernel, did)
         IN  /\ SentFits(trace) /\ trace.kernel = kernel
             /\ trace.trial = <<"run", u.scenario, u.condition, seed, u.repeat>>
             /\ UnitOf(trace) = [scenario |-> u.scenario, condition |-> u.condition, repeat |-> u.repeat]
  <1> DEFINE trace == TraceOf(u, seed, kernel, did)
  <1>1. /\ trace.trial = <<"run", u.scenario, u.condition, seed, u.repeat>>
        /\ trace.digest = WorldDigest(ScenarioOf(u)) /\ trace.kernel = kernel
        /\ trace.kernel = None => trace.verdicts = <<>>
        /\ trace.reads = did.reads
    BY DEF TraceOf
  <1> HIDE DEF trace
  <1>2. UnitOf(trace) = [scenario |-> u.scenario, condition |-> u.condition, repeat |-> u.repeat]
    BY <1>1 DEF UnitOf
  <1>3. ScenarioOf(UnitOf(trace)) = ScenarioOf(u)
    BY <1>2 DEF ScenarioOf
  <1>4. SentFits(trace)
    BY <1>1, <1>3, MeasurementAssumption DEF SentFits
  <1> QED BY <1>1, <1>2, <1>4 DEF trace

LEMMA SendableFits ==
  ASSUME NEW u, NEW trace \in Sendable(u)
  PROVE  SentFits(trace)
  <1> DEFINE seed == SeedFor(resolved, lane, u.repeat)
             kernel == ConditionOf(u).kernel
             did == CHOOSE d \in Behaviours : "task_success" \in d.facts
             own == TraceOf(u, seed, kernel, did)
  <1>1. did \in Behaviours
    BY MeasurementAssumption
  <1>2. \/ \E d \in Behaviours : \E other, k : trace = TraceOf(u, other, k, d)
        \/ \E c : trace = [own EXCEPT !.trial[3] = c]
    <2>1. CASE trace \in {TraceOf(u, seed, kernel, d) :
                d \in {x \in Behaviours : "violation" \in x.facts => ScenarioOf(u).violation}}
      BY <2>1
    <2>2. CASE trace \in {TraceOf(u, other, kernel, did) : other \in Seeds}
      BY <1>1, <2>2
    <2>3. CASE trace \in {TraceOf(u, seed, other, did) : other \in Kernels}
      BY <1>1, <2>3
    <2>4. CASE trace \in {[own EXCEPT !.trial[3] = c] : c \in {"unplanned"} \cup {v.condition : v \in Range(Plan)}}
      BY <2>4
    <2> QED BY <2>1, <2>2, <2>3, <2>4, Zenon DEF Sendable
  <1>3. CASE \E d \in Behaviours : \E other, k : trace = TraceOf(u, other, k, d)
    BY <1>3, TraceOfFits
  <1>4. CASE \E c : trace = [own EXCEPT !.trial[3] = c]
    <2>1. PICK c : trace = [own EXCEPT !.trial[3] = c]
      BY <1>4
    <2>2. /\ SentFits(own) /\ own.trial = <<"run", u.scenario, u.condition, seed, u.repeat>>
          /\ UnitOf(own) = [scenario |-> u.scenario, condition |-> u.condition, repeat |-> u.repeat]
      <3> HIDE DEF did, seed, kernel
      <3> QED BY <1>1, TraceOfFits
    <2>3. /\ trace.digest = own.digest /\ trace.kernel = own.kernel /\ trace.verdicts = own.verdicts
          /\ trace.reads = own.reads /\ trace.trial = [own.trial EXCEPT ![3] = c]
      BY <2>1 DEF TraceOf
    <2> HIDE DEF own, seed, kernel, did
    <2>4. UnitOf(trace) = [scenario |-> u.scenario, condition |-> c, repeat |-> u.repeat]
      BY <2>2, <2>3 DEF UnitOf
    <2>5. ScenarioOf(UnitOf(trace)) = ScenarioOf(UnitOf(own))
      BY <2>2, <2>4 DEF ScenarioOf
    <2> QED BY <2>2, <2>3, <2>5 DEF SentFits
  <1> QED BY <1>2, <1>3, <1>4

LEMMA ReportsStart == Init => ReportsFit
  BY DEF Init, ReportsFit

LEMMA ReportedFits ==
  ASSUME ReportsFit, NEW u
  PROVE  ReportFits(Reported(u))
  <1>1. ReportFits(Silent)
    BY DEF Silent, ReportFits, Unjudged, Numbers
  <1> QED BY <1>1 DEF Reported, ReportsFit

LEMMA ReportsStep == ReportsFit /\ [Next]_vars => ReportsFit'
  <1> SUFFICES ASSUME ReportsFit, [Next]_vars
               PROVE  ReportsFit'
    OBVIOUS
  <1>0. \A r : ReportFits(r)' <=> ({"status", "trace", "metrics", "hash", "attempts"} \subseteq DOMAIN r
                        /\ Unjudged(r.metrics) /\ (r.trace # None => SentFits(r.trace)'))
    BY DEF ReportFits
  <1>1. CASE UNCHANGED <<manifest, reports>>
    <2>1. resolved' = resolved
      BY <1>1 DEF resolved
    <2>2. \A r : ReportFits(r)' = ReportFits(r)
      BY <2>1 DEF ReportFits, SentFits, ScenarioOf
    <2> QED BY <1>1, <2>2 DEF ReportsFit
  <1>2. CASE Runtime
    <2>1. UNCHANGED manifest
      BY <1>2 DEF Runtime, Restart, CompleteTrial
    <2>2. resolved' = resolved
      BY <2>1 DEF resolved
    <2>3. \A r : ReportFits(r)' = ReportFits(r)
      BY <2>2 DEF ReportFits, SentFits, ScenarioOf
    <2>4. SUFFICES \A u \in DOMAIN reports' : ReportFits(reports'[u])
      BY <2>3 DEF ReportsFit
    <2>5. PICK u \in Range(Plan) :
            \/ Restart(u)
            \/ \E status \in {"completed", "failed"}, trace \in Sendable(u) \cup {None},
                  metrics \in Measurements, hash \in {None, ExpectedHash(u), <<"governs", "other">>} :
                    CompleteTrial(u, status, trace, metrics, hash)
      BY <1>2 DEF Runtime
    <2>6. CASE Restart(u)
      <3>1. u \in DOMAIN reports
        BY <2>6 DEF Restart, Reported, Silent
      <3>2. reports' = [reports EXCEPT ![u] = [reports[u] EXCEPT !.status = "pending", !.trace = None]]
        BY <2>6 DEF Restart
      <3>3. ReportFits([reports[u] EXCEPT !.status = "pending", !.trace = None])
        BY <3>1 DEF ReportsFit, ReportFits
      <3> QED BY <3>2, <3>3 DEF ReportsFit
    <2>7. ASSUME NEW status, NEW trace \in Sendable(u) \cup {None}, NEW metrics \in Measurements, NEW hash,
                 CompleteTrial(u, status, trace, metrics, hash)
          PROVE  \A v \in DOMAIN reports' : ReportFits(reports'[v])
      <3> DEFINE old == Reported(u)
                 report == [status |-> status, trace |-> trace,
                    metrics |-> IF metrics = <<>> THEN old.metrics ELSE Sanitize(metrics),
                    hash |-> IF hash = None THEN old.hash ELSE hash, attempts |-> old.attempts + 1]
      <3>1. reports' = [v \in DOMAIN reports \cup {u} |-> IF v = u THEN report ELSE reports[v]]
        BY <2>7 DEF CompleteTrial
      <3>2. trace # None => SentFits(trace)
        BY SendableFits
      <3>3. Unjudged(Sanitize(metrics))
        BY MeasurementAssumption DEF Sanitize, Unjudged, Numbers
      <3>4. Unjudged(old.metrics)
        BY ReportedFits DEF ReportFits
      <3>5. ReportFits(report)
        BY <3>2, <3>3, <3>4 DEF ReportFits
      <3> HIDE DEF report
      <3> QED BY <3>1, <3>5 DEF ReportsFit
    <2> QED BY <2>5, <2>6, <2>7
  <1>3. CASE ~Runtime
    <2>1. UNCHANGED <<manifest, reports>>
      BY <1>3, RunUnitIs, CollectIs DEF Next, Submit, RunRaises, Conclude, MakeBundle, Change, SealAgain, vars
    <2> QED BY <1>1, <2>1
  <1> QED BY <1>2, <1>3

----------------------------------------------------------------------------
(* The evidence. A trial that completed has a trace of its own unit, under *)
(* its arm's kernel, with the verdicts and the configuration hash Lab      *)
(* computes.                                                               *)

(* What the trials that completed stand on. *)
Judged(metrics, s, trace) ==
    /\ {"task_success", "ASR"} \cap DOMAIN metrics = DOMAIN Verdicts(s, trace)
    /\ \A m \in {"task_success", "ASR"} \cap DOMAIN metrics :
            metrics[m] = Flag(Evaluate(Derived(m), trace))
    /\ Numbers(metrics)

Evidenced(t, u, s, c) ==
    /\ t.ref.digest = WorldDigest(s) /\ t.ref.kernel = c.kernel
    /\ c.kernel = None => t.ref.verdicts = <<>>
    /\ UnitOf(t.ref) = u /\ (t.ref = None => t.ref.trial = t.id)
    /\ t.hash = IF c.kernel = None THEN None ELSE RuntimeConfigHash(c, s)
    /\ Judged(t.metrics, s, t.ref)

(* every completed trial has its own evidence, and no trace is of nothing *)
Stands(trials, traces) ==
    /\ \A i \in 1 .. Len(trials) :
            trials[i].status = "completed" =>
                /\ trials[i].ref \in traces
                /\ Evidenced(trials[i], Plan[i], ScenarioOf(Plan[i]), ConditionOf(Plan[i]))
    /\ \A trace \in traces : \E i \in 1 .. Len(trials) :
            trials[i].ref = trace /\ (trials[i].status = "completed" \/ trace # None)

EvidenceFits == lane # "experiment" => Stands(result.trials, result.traces)

LEMMA VerdictsDecide ==
  ASSUME NEW s, NEW trace
  PROVE  /\ Judged(Verdicts(s, trace), s, trace)
         /\ DOMAIN Verdicts(s, trace) = {"task_success"} \cup (IF s.violation THEN {"ASR"} ELSE {})
  <1> DEFINE v == Verdicts(s, trace)
  <1>1. /\ DOMAIN v = {"task_success"} \cup (IF s.violation THEN {"ASR"} ELSE {})
        /\ \A m \in DOMAIN v : v[m] = Flag(Evaluate(IF m = "ASR" THEN "violation" ELSE "task_success", trace))
    BY DEF Verdicts
  <1> HIDE DEF v
  <1>2. Derived("task_success") = "task_success" /\ Derived("ASR") = "violation"
    BY DEF Derived
  <1>3. \A m \in DOMAIN v : v[m] = Flag(Evaluate(Derived(m), trace))
    BY <1>1, <1>2
  <1>4. \A m \in DOMAIN v : ~IsNum(v[m])
    <2>1. \A x : ~IsNum(Flag(x))
      BY DEF Flag, IsNum
    <2> QED BY <1>1, <2>1
  <1> QED BY <1>1, <1>3, <1>4 DEF Judged, Numbers, v

LEMMA JudgedWith ==
  ASSUME NEW metrics, NEW s, NEW trace, Judged(metrics, s, trace), NEW more, Unjudged(more)
  PROVE  Judged(Merged(metrics, more), s, trace)
  <1> DEFINE m == Merged(metrics, more)
  <1>1. /\ DOMAIN m = DOMAIN metrics \cup DOMAIN more
        /\ \A x \in DOMAIN m : m[x] = IF x \in DOMAIN metrics THEN metrics[x] ELSE more[x]
    BY DEF Merged
  <1> HIDE DEF m
  <1>2. {"task_success", "ASR"} \cap DOMAIN m = {"task_success", "ASR"} \cap DOMAIN metrics
    BY <1>1 DEF Unjudged
  <1>3. Numbers(m)
    BY <1>1 DEF Judged, Unjudged, Numbers
  <1> QED BY <1>1, <1>2, <1>3 DEF Judged, m

LEMMA MergedIsUnjudged ==
  ASSUME NEW metrics, Unjudged(metrics), NEW more, Unjudged(more)
  PROVE  Unjudged(Merged(metrics, more))
  BY DEF Unjudged, Numbers, Merged

LEMMA HookIsUnjudged ==
  ASSUME NEW trace, trace.reads \in Int
  PROVE  Unjudged(HookMetrics(trace))
  BY DEF HookMetrics, Unjudged, Numbers, Num

LEMMA RunIsEvidenced ==
  ASSUME RunInv, lane = "suite", NEW did \in Behaviours, Len(result.trials) < Len(Plan)
  PROVE  /\ Evidenced(NextTrial(did), NextUnit, ScenarioOf(NextUnit), ConditionOf(NextUnit))
         /\ NextTrial(did).ref = NextTrace(did) /\ NextTrial(did).status = "completed"
  <1> DEFINE trace == NextTrace(did)
             u == NextUnit
             t == NextTrial(did)
  <1>1. /\ SentFits(trace) /\ trace.kernel = ConditionOf(u).kernel
        /\ trace.trial = <<"run", u.scenario, u.condition, NextSeed, u.repeat>>
        /\ UnitOf(trace) = [scenario |-> u.scenario, condition |-> u.condition, repeat |-> u.repeat]
    BY TraceOfFits DEF NextTrace
  <1>2. u \in Range(Plan)
    <2>1. Len(Plan) \in Nat /\ DOMAIN Plan = 1 .. Len(Plan) /\ Len(result.trials) \in Nat
      BY PlanFacts DEF RunInv
    <2> QED BY <2>1 DEF NextUnit, Range
  <1>3. UnitOf(trace) = u
    BY <1>1, <1>2, UnitsOfPlan DEF RunInv
  <1>4. /\ t.ref = trace /\ t.status = "completed"
        /\ t.id = <<"run", u.scenario, u.condition, NextSeed, u.repeat>>
        /\ t.metrics = Merged(Verdicts(ScenarioOf(u), trace), HookMetrics(trace))
        /\ t.hash = IF ConditionOf(u).kernel = None THEN None
                    ELSE RuntimeConfigHash(ConditionOf(u), ScenarioOf(u))
    BY DEF NextTrial, Record
  <1> HIDE DEF trace, t, u
  <1>5. Judged(t.metrics, ScenarioOf(u), trace)
    BY <1>1, <1>4, VerdictsDecide, HookIsUnjudged, JudgedWith DEF SentFits
  <1> QED BY <1>1, <1>3, <1>4, <1>5 DEF Evidenced, SentFits, t, u, trace

LEMMA CollectedIsEvidenced ==
  ASSUME RunInv, ReportsFit, lane = "remote", Collectable, NEW kept, KeptFrom(kept), NEW u \in Range(Plan)
  PROVE  LET t == CollectedTrial(u, kept[u])
         IN  /\ t.ref = kept[u]
             /\ t.status = "completed" =>
                    /\ kept[u] # None
                    /\ Evidenced(t, u, ScenarioOf(u), ConditionOf(u))
  <1> DEFINE trace == kept[u]
             t == CollectedTrial(u, trace)
             metrics == CollectedMetrics(u, trace)
  <1>1. t.ref = trace
    BY DEF CollectedTrial, Record
  <1>2. SUFFICES ASSUME t.status = "completed"
                 PROVE  trace # None /\ Evidenced(t, u, ScenarioOf(u), ConditionOf(u))
    BY <1>1
  <1>3. trace # None
    BY <1>2 DEF CollectedTrial, Record
  <1>4. t.metrics = metrics /\ t.hash = ExpectedHash(u)
    BY <1>2, <1>3 DEF CollectedTrial, Record
  <1>5. trace \in Sent /\ UnitOf(trace) = u
    <2>1. SentFor(u) # {}
      BY <1>3 DEF KeptFrom
    <2>2. trace \in SentFor(u)
      BY <2>1 DEF KeptFrom
    <2> QED BY <2>2 DEF SentFor
  <1>6. SentFits(trace)
    <2>1. PICK v \in DOMAIN reports : reports[v].trace = trace
      BY <1>5 DEF Sent
    <2> QED BY <1>3, <2>1 DEF ReportsFit, ReportFits
  <1>7. trace.kernel = ConditionOf(u).kernel
    BY <1>5 DEF Collectable, Wrapped
  <1>8. Judged(metrics, ScenarioOf(u), trace)
    <2>1. Judged(Verdicts(ScenarioOf(u), trace), ScenarioOf(u), trace)
      BY VerdictsDecide
    <2>2. Unjudged(Reported(u).metrics)
      BY ReportedFits DEF ReportFits
    <2>3. Unjudged(HookMetrics(trace))
      BY <1>6, HookIsUnjudged DEF SentFits
    <2>4. Unjudged(Merged(Reported(u).metrics, HookMetrics(trace)))
      BY <2>2, <2>3, MergedIsUnjudged
    <2> HIDE DEF trace
    <2> QED BY <2>1, <2>4, JudgedWith DEF metrics, CollectedMetrics
  <1> HIDE DEF trace, t, metrics
  <1> QED BY <1>1, <1>3, <1>4, <1>5, <1>6, <1>7, <1>8 DEF Evidenced, SentFits, ExpectedHash

LEMMA EvidenceFitsStart == Init => EvidenceFits
  <1> SUFFICES ASSUME Init
               PROVE  EvidenceFits
    OBVIOUS
  <1>1. Stands(<<>>, {})
    BY DEF Stands
  <1>2. NoRun.trials = <<>> /\ NoRun.traces = {}
    BY DEF NoRun
  <1> QED BY <1>1, <1>2 DEF Init, EvidenceFits

LEMMA StandsAgain ==
  ASSUME UNCHANGED <<manifest, lane>>
  PROVE  EvidenceFits' <=> (lane # "experiment" => Stands(result'.trials, result'.traces))
  <1>1. Plan' = Plan /\ (\A u : ScenarioOf(u)' = ScenarioOf(u) /\ ConditionOf(u)' = ConditionOf(u))
    BY SameSubmission
  <1>2. lane' = lane
    OBVIOUS
  <1>3. \A trials, traces : Stands(trials, traces)' <=> Stands(trials, traces)
    BY <1>1 DEF Stands
  <1> QED BY <1>2, <1>3 DEF EvidenceFits

LEMMA OneMoreStands ==
  ASSUME NEW S, NEW trials \in Seq(S), NEW traces, Stands(trials, traces), NEW t, NEW more,
         t.status = "completed" => t.ref \in traces \cup more
             /\ Evidenced(t, Plan[Len(trials) + 1], ScenarioOf(Plan[Len(trials) + 1]), ConditionOf(Plan[Len(trials) + 1])),
         \A trace \in more : t.ref = trace /\ t.status = "completed"
  PROVE  Stands(Append(trials, t), traces \cup more)
  <1> DEFINE n == Len(trials)
             longer == Append(trials, t)
  <1>1. trials \in Seq(S \cup {t}) /\ t \in S \cup {t}
    BY SeqMonotonic
  <1>2. /\ Len(longer) = n + 1 /\ n \in Nat /\ longer[n + 1] = t
        /\ \A i \in 1 .. n : longer[i] = trials[i]
    BY <1>1, AppendProperties
  <1> HIDE DEF longer, n
  <1>3. ASSUME NEW i \in 1 .. n + 1, longer[i].status = "completed"
        PROVE  longer[i].ref \in traces \cup more
                   /\ Evidenced(longer[i], Plan[i], ScenarioOf(Plan[i]), ConditionOf(Plan[i]))
    <2>1. CASE i \in 1 .. n
      BY <1>2, <1>3, <2>1 DEF Stands, n
    <2>2. CASE i = n + 1
      BY <1>2, <1>3, <2>2 DEF n
    <2> QED BY <1>2, <2>1, <2>2
  <1>4. ASSUME NEW trace \in traces \cup more
        PROVE  \E i \in 1 .. n + 1 : longer[i].ref = trace /\ (longer[i].status = "completed" \/ trace # None)
    <2>1. CASE trace \in traces
      <3>1. PICK i \in 1 .. n : trials[i].ref = trace /\ (trials[i].status = "completed" \/ trace # None)
        BY <2>1 DEF Stands, n
      <3> QED BY <1>2, <3>1
    <2>2. CASE trace \in more
      <3>1. n + 1 \in 1 .. n + 1
        BY <1>2
      <3> QED BY <1>2, <2>2, <3>1
    <2> QED BY <2>1, <2>2
  <1> QED BY <1>2, <1>3, <1>4 DEF Stands, longer

LEMMA RunUnitStands ==
  ASSUME RunInv, EvidenceFits, RunUnit
  PROVE  lane # "experiment" => Stands(result'.trials, result'.traces)
  <1> SUFFICES ASSUME lane # "experiment"
               PROVE  Stands(result'.trials, result'.traces)
    OBVIOUS
  <1>1. /\ lane = "suite" /\ Len(result.trials) < Len(Plan) /\ IsResult(result)
        /\ Stands(result.trials, result.traces)
    <2>1. lane # "remote" /\ Len(result.trials) < Len(Plan)
      BY RunUnitIs
    <2>2. lane \in {"suite", "experiment", "remote"}
      BY SubmittedFacts DEF RunInv
    <2> QED BY <2>1, <2>2 DEF RunInv, EvidenceFits
  <1>2. PICK S : result.trials \in Seq(S)
    BY DEF RunInv
  <1>3. CASE result' = [result EXCEPT !.trials = Append(@, Record(NextUnit, NextSeed))]
    <2> DEFINE t == Record(NextUnit, NextSeed)
    <2>1. t.status # "completed"
      BY DEF Record
    <2>2. result'.trials = Append(result.trials, t) /\ result'.traces = result.traces \cup {}
      BY <1>1, <1>3 DEF IsResult
    <2> HIDE DEF t
    <2>3. Stands(Append(result.trials, t), result.traces \cup {})
      BY <1>1, <1>2, <2>1, OneMoreStands
    <2> QED BY <2>2, <2>3
  <1>4. CASE \E did \in Behaviours :
                 result' = [result EXCEPT !.trials = Append(@, NextTrial(did)),
                                          !.traces = @ \cup {NextTrace(did)}]
    <2>1. PICK did \in Behaviours :
                 result' = [result EXCEPT !.trials = Append(@, NextTrial(did)),
                                          !.traces = @ \cup {NextTrace(did)}]
      BY <1>4
    <2> DEFINE t == NextTrial(did)
               trace == NextTrace(did)
    <2>2. /\ Evidenced(t, NextUnit, ScenarioOf(NextUnit), ConditionOf(NextUnit))
          /\ t.ref = trace /\ t.status = "completed"
      BY <1>1, RunIsEvidenced
    <2>3. result'.trials = Append(result.trials, t) /\ result'.traces = result.traces \cup {trace}
      BY <1>1, <2>1 DEF IsResult
    <2> HIDE DEF t, trace
    <2>4. Stands(Append(result.trials, t), result.traces \cup {trace})
      BY <1>1, <1>2, <2>2, OneMoreStands DEF NextUnit
    <2> QED BY <2>3, <2>4
  <1> QED BY <1>3, <1>4, RunUnitIs

LEMMA CollectStands ==
  ASSUME RunInv, ReportsFit, EvidenceFits, Collect
  PROVE  Stands(result'.trials, result'.traces)
  <1>1. /\ lane = "remote" /\ IsResult(result)
        /\ Stands(result.trials, result.traces)
    BY CollectIs DEF RunInv, EvidenceFits
  <1>2. CASE UNCHANGED result
    BY <1>1, <1>2
  <1>3. CASE Collectable /\ ~UNCHANGED result
    <2>1. PICK kept : /\ KeptFrom(kept)
                      /\ result' = [result EXCEPT
                            !.trials = [i \in DOMAIN Plan |-> CollectedTrial(Plan[i], kept[Plan[i]])],
                            !.traces = {kept[u] : u \in Range(Plan)} \ {None}]
      BY <1>3, CollectIs
    <2> DEFINE trials == [i \in DOMAIN Plan |-> CollectedTrial(Plan[i], kept[Plan[i]])]
               traces == {kept[u] : u \in Range(Plan)} \ {None}
               n == Len(Plan)
    <2>2. result'.trials = trials /\ result'.traces = traces
      BY <1>1, <2>1 DEF IsResult
    <2>3. n \in Nat /\ DOMAIN Plan = 1 .. n
      BY PlanFacts DEF RunInv
    <2>4. /\ \A i \in 1 .. n : Plan[i] \in Range(Plan) /\ trials[i] = CollectedTrial(Plan[i], kept[Plan[i]])
          /\ \A u \in Range(Plan) : \E i \in 1 .. n : Plan[i] = u
      BY <2>3 DEF Range
    <2>5. trials \in Seq(Range(trials)) /\ Len(trials) = n
      <3>1. trials \in [1 .. n -> Range(trials)]
        BY <2>3 DEF Range
      <3> HIDE DEF trials, n
      <3> QED BY <2>3, <3>1, ListedInOrder
    <2>6. \A i \in 1 .. n : /\ trials[i].ref = kept[Plan[i]]
                            /\ trials[i].status = "completed" =>
                                  /\ kept[Plan[i]] # None
                                  /\ Evidenced(trials[i], Plan[i], ScenarioOf(Plan[i]), ConditionOf(Plan[i]))
      BY <1>1, <1>3, <2>1, <2>4, CollectedIsEvidenced
    <2>7. \A trace : trace \in traces <=> trace # None /\ \E i \in 1 .. n : kept[Plan[i]] = trace
      <3> HIDE DEF trials, n
      <3>1. \A trace : trace \in traces <=> trace # None /\ \E u \in Range(Plan) : trace = kept[u]
        OBVIOUS
      <3> QED BY <2>4, <3>1
    <2> HIDE DEF trials, traces, n
    <2> QED BY <2>2, <2>5, <2>6, <2>7 DEF Stands
  <1> QED BY <1>2, <1>3, CollectIs

LEMMA EvidenceFitsStep ==
  ASSUME RunInv, ReportsFit, EvidenceFits, [Next]_vars
  PROVE  EvidenceFits'
  <1>1. UNCHANGED <<manifest, lane>>
    BY SubmissionIsKept
  <1>0. SUFFICES lane # "experiment" => Stands(result'.trials, result'.traces)
    BY <1>1, StandsAgain
  <1>2. SUFFICES ASSUME lane # "experiment"
                 PROVE  Stands(result'.trials, result'.traces)
    OBVIOUS
  <1>3. Stands(result.trials, result.traces) /\ IsResult(result)
    BY <1>2 DEF EvidenceFits, RunInv
  <1>4. CASE Submit
    <2>1. CASE UNCHANGED result
      BY <1>3, <2>1
    <2>2. CASE result' = [NoRun EXCEPT !.conditions = arms]
      <3>1. result'.trials = <<>> /\ result'.traces = {}
        BY <2>2 DEF NoRun
      <3> QED BY <3>1 DEF Stands
    <2> QED BY <1>4, <2>1, <2>2 DEF Submit
  <1>5. CASE RunUnit
    BY <1>2, <1>5, RunUnitStands
  <1>6. CASE Collect
    BY <1>6, CollectStands
  <1>7. CASE Conclude
    <2>1. \E aggregates, invariants :
                result' = [result EXCEPT !.aggregates = aggregates, !.invariants = invariants]
      BY <1>7, Zenon DEF Conclude
    <2>2. result'.trials = result.trials /\ result'.traces = result.traces
      BY <1>3, <2>1 DEF IsResult
    <2> QED BY <1>3, <2>2
  <1>8. CASE Runtime \/ RunRaises \/ MakeBundle \/ Change \/ SealAgain \/ UNCHANGED vars
    <2>1. UNCHANGED result
      BY <1>8, RunIsKept
    <2> QED BY <1>3, <2>1
  <1> QED BY <1>4, <1>5, <1>6, <1>7, <1>8 DEF Next

----------------------------------------------------------------------------
(* The numbers of a run that ended are made of its trials, and each of them *)
(* counts trials that completed.                                           *)

LEMMA FiniteRange ==
  ASSUME NEW S, NEW s \in Seq(S)
  PROVE  IsFiniteSet(Range(s)) /\ IsFiniteSet(DOMAIN s)
  <1>1. Len(s) \in Nat /\ DOMAIN s = 1 .. Len(s)
    OBVIOUS
  <1>2. s \in Surjection(DOMAIN s, Range(s))
    BY DEF Surjection, Range
  <1>3. IsFiniteSet(DOMAIN s)
    BY <1>1, FS_Interval
  <1> QED BY <1>2, <1>3, FS_Surjection

Totals(run) == IF lane = "experiment" THEN ComputeAggregates(run) ELSE Aggregate(run)
TotalsAreOfTheRun == Ran => result.aggregates = Totals(result)

(* what the numbers are made of *)
SuiteTotals(aggregations, trials, conditions) ==
    UNION {AggregateOf(spec, c, Done(Range(trials)), Baseline(conditions)) :
              spec \in aggregations, c \in Range(conditions)}
Sampled(metric, c, done, design, tests) ==
    BinaryAggregate(metric, c, Cardinality({t \in Arm(done, c) : Evaluate(Derived(metric), t.ref)}),
                    Cardinality(Arm(done, c)), {design}, tests)
Tested(c, done, baseline, design) ==
    IF baseline \in {None, c} \/ Arm(done, baseline) = {} THEN {}
    ELSE {RecomputeTest(done, "violation", baseline, c, design)}
ExperimentTotals(design, trials, conditions) ==
    LET done == Done(Range(trials))
        arm == {c.id : c \in Range(conditions)} \cap {t.condition : t \in done}
    IN  {Sampled("ASR", c, done, design, Tested(c, done, Baseline(conditions), design)) : c \in arm}
            \cup {Sampled("utility", c, done, design, {}) : c \in arm}

LEMMA TotalsAre ==
  ASSUME NEW r
  PROVE  Totals(r) = IF lane = "experiment" THEN ExperimentTotals(Design, r.trials, r.conditions)
                     ELSE SuiteTotals(resolved.aggregations, r.trials, r.conditions)
  <1>1. Aggregate(r) = SuiteTotals(resolved.aggregations, r.trials, r.conditions)
    BY DEF Aggregate, SuiteTotals
  <1>2. ComputeAggregates(r) = ExperimentTotals(Design, r.trials, r.conditions)
    BY Zenon DEF ComputeAggregates, ExperimentTotals, Sampled, Tested
  <1> QED BY <1>1, <1>2 DEF Totals

LEMMA SameTotals ==
  ASSUME NEW r, NEW q, q.trials = r.trials, q.conditions = r.conditions
  PROVE  Totals(q) = Totals(r)
  BY TotalsAre

LEMMA TotalsAgain ==
  ASSUME UNCHANGED <<manifest, lane>>
  PROVE  TotalsAreOfTheRun' <=> (Ran' => result'.aggregates = Totals(result'))
  <1>1. resolved' = resolved /\ lane' = lane
    BY SameSubmission
  <1>2. Design' = Design
    BY <1>1 DEF Design
  <1>3. \A r : Totals(r)' = IF lane' = "experiment" THEN ExperimentTotals(Design', r.trials, r.conditions)
                            ELSE SuiteTotals(resolved'.aggregations, r.trials, r.conditions)
    <2>1. \A r : Aggregate(r)' = SuiteTotals(resolved'.aggregations, r.trials, r.conditions)
      BY DEF Aggregate, SuiteTotals
    <2>2. \A r : ComputeAggregates(r)' = ExperimentTotals(Design', r.trials, r.conditions)
      BY Zenon DEF ComputeAggregates, ExperimentTotals, Sampled, Tested
    <2> QED BY <2>1, <2>2 DEF Totals
  <1>4. \A r : Totals(r)' = Totals(r)
    BY <1>1, <1>2, <1>3, TotalsAre
  <1> QED BY <1>4 DEF TotalsAreOfTheRun

LEMMA TotalsStart == Init => TotalsAreOfTheRun
  BY DEF Init, TotalsAreOfTheRun, Ran

LEMMA TotalsStep ==
  ASSUME RunInv, TotalsAreOfTheRun, [Next]_vars
  PROVE  TotalsAreOfTheRun'
  <1>1. UNCHANGED <<manifest, lane>>
    BY SubmissionIsKept
  <1> SUFFICES Ran' => result'.aggregates = Totals(result')
    BY <1>1, TotalsAgain
  <1>2. CASE Conclude
    <2>1. \E invariants : result' = [result EXCEPT !.aggregates = Totals(result), !.invariants = invariants]
      BY <1>2, Zenon DEF Conclude, Totals
    <2> DEFINE totals == Totals(result)
    <2>2. /\ result'.aggregates = totals /\ result'.trials = result.trials
          /\ result'.conditions = result.conditions
      <3> HIDE DEF totals
      <3>1. \E invariants : result' = [result EXCEPT !.aggregates = totals, !.invariants = invariants]
        BY <2>1 DEF totals
      <3> QED BY <3>1 DEF RunInv, IsResult
    <2> QED BY <2>2, SameTotals
  <1>3. CASE RunUnit \/ Collect \/ Submit
    BY <1>3, RunUnitIs, CollectIs DEF Ran, Submit
  <1>4. CASE Runtime \/ RunRaises \/ MakeBundle \/ Change \/ SealAgain \/ UNCHANGED vars
    <2>1. UNCHANGED result /\ (Ran' => Ran)
      BY <1>4, RunIsKept DEF Ran
    <2> QED BY <2>1 DEF TotalsAreOfTheRun
  <1> QED BY <1>2, <1>3, <1>4 DEF Next

(* What a number counts: trials of its arm that completed, at least one. *)
LEMMA CountedTrials ==
  ASSUME NEW run, NEW agg \in Totals(run)
  PROVE  \E S \in SUBSET {t \in Done(Range(run.trials)) : t.condition = agg.condition} :
            S # {} /\ agg.n = Cardinality(S)
  <1> DEFINE done == Done(Range(run.trials))
  <1>1. CASE lane = "experiment"
    <2>1. PICK c, tests, s, m, d : /\ agg = BinaryAggregate(m, c, s, Cardinality(Arm(done, c)), d, tests)
                                /\ c \in {t.condition : t \in done}
      BY <1>1 DEF Totals, ComputeAggregates
    <2>2. agg.condition = c /\ agg.n = Cardinality(Arm(done, c))
      BY <2>1 DEF BinaryAggregate
    <2> QED BY <2>1, <2>2 DEF Arm
  <1>2. CASE lane # "experiment"
    <2>1. PICK spec, c, baseline : agg \in AggregateOf(spec, c, done, baseline)
      BY <1>2 DEF Totals, Aggregate
    <2> DEFINE flags == FlagsOf(spec.metric, c.id, done)
               at == {t \in done : /\ t.condition = c.id /\ spec.metric \in DOMAIN t.metrics
                                   /\ IsNum(t.metrics[spec.metric])}
    <2>2. \/ /\ flags # {}
             /\ \E s, tests : agg = BinaryAggregate(spec.metric, c.id, s, Cardinality(flags), {}, tests)
          \/ /\ at # {}
             /\ agg = NumericAggregate(spec.metric, c.id, [t \in at |-> t.metrics[spec.metric].v], spec.fn)
      BY <2>1 DEF AggregateOf
    <2>3. /\ \A s, tests : LET a == BinaryAggregate(spec.metric, c.id, s, Cardinality(flags), {}, tests)
                           IN  a.condition = c.id /\ a.n = Cardinality(flags)
          /\ LET a == NumericAggregate(spec.metric, c.id, [t \in at |-> t.metrics[spec.metric].v], spec.fn)
             IN  a.condition = c.id /\ a.n = Cardinality(at)
      BY DEF BinaryAggregate, NumericAggregate
    <2>4. flags \subseteq {t \in done : t.condition = c.id} /\ at \subseteq {t \in done : t.condition = c.id}
      BY DEF FlagsOf
    <2> HIDE DEF flags, at, done
    <2> QED BY <2>2, <2>3, <2>4 DEF done
  <1> QED BY <1>1, <1>2

----------------------------------------------------------------------------
(* The run is the plan.                                                    *)

LEMMA IdsArePlanned ==
  ASSUME RunInv, NEW i \in 1 .. Len(result.trials)
  PROVE  /\ UnitOf([trial |-> result.trials[i].id]) = Plan[i] /\ Plan[i] \in Range(Plan)
         /\ result.trials[i].condition = Plan[i].condition
         /\ result.trials[i].scenario = Plan[i].scenario
         /\ result.trials[i].repeat = Plan[i].repeat
  <1> DEFINE t == result.trials[i]
             u == Plan[i]
  <1>1. TrialFits(t, u, SeedFor(resolved, lane, u.repeat))
    BY DEF RunInv
  <1>2. u \in Range(Plan)
    <2>1. /\ Len(Plan) \in Nat /\ DOMAIN Plan = 1 .. Len(Plan)
          /\ Len(result.trials) \in Nat /\ Len(result.trials) <= Len(Plan)
      BY PlanFacts DEF RunInv
    <2> QED BY <2>1 DEF Range
  <1>3. u = [scenario |-> u.scenario, condition |-> u.condition, repeat |-> u.repeat]
    BY <1>2, UnitsOfPlan DEF RunInv
  <1> HIDE DEF t, u
  <1>4. UnitOf([trial |-> t.id]) = u
    BY <1>1, <1>3 DEF TrialFits, UnitOf
  <1> QED BY <1>1, <1>2, <1>4 DEF TrialFits, t, u

(* the trials of a run, as a set and in order *)
LEMMA TrialsAre ==
  ASSUME RunInv
  PROVE  /\ Len(result.trials) \in Nat /\ DOMAIN result.trials = 1 .. Len(result.trials)
         /\ \A t : t \in Trials <=> \E i \in 1 .. Len(result.trials) : t = result.trials[i]
         /\ IsFiniteSet(Trials)
         /\ Len(Plan) \in Nat /\ DOMAIN Plan = 1 .. Len(Plan)
         /\ \A u : u \in Range(Plan) <=> \E i \in 1 .. Len(Plan) : u = Plan[i]
  <1>1. PICK S : result.trials \in Seq(S)
    BY DEF RunInv
  <1>2. IsFiniteSet(Trials)
    BY <1>1, FiniteRange DEF Trials
  <1>3. Len(result.trials) \in Nat /\ DOMAIN result.trials = 1 .. Len(result.trials)
    BY <1>1
  <1>4. Len(Plan) \in Nat /\ DOMAIN Plan = 1 .. Len(Plan)
    BY PlanFacts DEF RunInv
  <1> QED BY <1>2, <1>3, <1>4 DEF Trials, Range

LEMMA ArmsAreWhole ==
  ASSUME RunInv, Ran, NamedOnce, NEW c
  PROVE  Cardinality({t \in Trials : t.condition = c}) = Cardinality({u \in Range(Plan) : u.condition = c})
  <1> DEFINE A == {t \in Trials : t.condition = c}
             B == {u \in Range(Plan) : u.condition = c}
             n == Len(Plan)
             f == [t \in A |-> UnitOf([trial |-> t.id])]
  <1>1. n = Len(result.trials)
    BY DEF RunInv
  <1>2. /\ \A t : t \in Trials <=> \E i \in 1 .. n : t = result.trials[i]
        /\ \A u : u \in Range(Plan) <=> \E i \in 1 .. n : u = Plan[i]
        /\ IsFiniteSet(Trials) /\ DOMAIN Plan = 1 .. n
    BY <1>1, TrialsAre
  <1>3. \A i \in 1 .. n : /\ UnitOf([trial |-> result.trials[i].id]) = Plan[i]
                          /\ result.trials[i].condition = Plan[i].condition
    BY <1>1, IdsArePlanned
  <1>4. \A i, j \in 1 .. n : Plan[i] = Plan[j] => i = j
    BY <1>2, PlanFacts DEF RunInv, IsInjective
  <1> HIDE DEF n
  <1>5. f \in [A -> B]
    BY <1>2, <1>3
  <1>6. \A t, u \in A : f[t] = f[u] => t = u
    BY <1>2, <1>3, <1>4
  <1>7. ASSUME NEW u \in B
        PROVE  \E t \in A : f[t] = u
    <2>1. PICK i \in 1 .. n : u = Plan[i]
      BY <1>2
    <2>2. result.trials[i] \in A
      BY <1>2, <1>3, <2>1
    <2>3. f[result.trials[i]] = u
      BY <1>3, <2>1, <2>2
    <2> QED BY <2>2, <2>3
  <1>8. IsFiniteSet(A)
    BY <1>2, FS_Subset
  <1> HIDE DEF A, B, f
  <1>9. f \in Bijection(A, B)
    BY <1>5, <1>6, <1>7 DEF Bijection, Injection, Surjection, IsInjective
  <1>10. Cardinality(B) = Cardinality(A)
    BY <1>8, <1>9, SameSize
  <1> QED BY <1>10 DEF A, B

LEMMA PlannedUnitsAreKept ==
  ASSUME RunInv, TotalsAreOfTheRun
  PROVE  DenominatorKept
  <1> SUFFICES ASSUME Ran
               PROVE  /\ [i \in DOMAIN result.trials |-> UnitOf([trial |-> result.trials[i].id])] = Plan
                      /\ \A agg \in result.aggregates :
                            LET arm == Missingness(Trials).by_condition[agg.condition]
                            IN  /\ agg.n <= arm[1]
                                /\ NamedOnce => arm[2] = Cardinality({u \in Range(Plan) : u.condition = agg.condition})
                      /\ \A t \in Missing(Trials) : t.metrics = <<>>
    BY DEF DenominatorKept
  <1>1. Len(result.trials) = Len(Plan)
    BY DEF RunInv
  <1>2. [i \in DOMAIN result.trials |-> UnitOf([trial |-> result.trials[i].id])] = Plan
    <2>1. Plan \in Seq(Units(Range(resolved.scenarios), Range(arms)))
      BY PlanFacts DEF RunInv
    <2>2. Plan = [i \in 1 .. Len(Plan) |-> Plan[i]]
      BY <2>1
    <2>3. \A i \in 1 .. Len(Plan) : UnitOf([trial |-> result.trials[i].id]) = Plan[i]
      BY <1>1, IdsArePlanned
    <2>4. DOMAIN result.trials = 1 .. Len(Plan)
      BY <1>1, TrialsAre
    <2> QED BY <2>2, <2>3, <2>4
  <1>3. ASSUME NEW agg \in result.aggregates
        PROVE  LET arm == Missingness(Trials).by_condition[agg.condition]
               IN  /\ agg.n <= arm[1]
                   /\ NamedOnce => arm[2] = Cardinality({u \in Range(Plan) : u.condition = agg.condition})
    <2> DEFINE c == agg.condition
               completed == {t \in Trials \ Missing(Trials) : t.condition = c}
               all == {t \in Trials : t.condition = c}
               arm == Missingness(Trials).by_condition[c]
    <2>1. agg \in Totals(result)
      BY DEF TotalsAreOfTheRun
    <2>2. PICK S \in SUBSET {t \in Done(Range(result.trials)) : t.condition = agg.condition} :
                S # {} /\ agg.n = Cardinality(S)
      BY <2>1, CountedTrials
    <2>3. S \subseteq completed
      BY <2>2 DEF Done, Trials, Missing
    <2>4. c \in {t.condition : t \in Trials}
      BY <2>2, <2>3
    <2>5. arm = <<Cardinality(completed), Cardinality(all)>>
      BY <2>4 DEF Missingness
    <2>6. IsFiniteSet(completed)
      <3>1. completed \in SUBSET Trials
        OBVIOUS
      <3> QED BY <3>1, TrialsAre, FS_Subset
    <2> HIDE DEF completed, all, arm, c
    <2>7. Cardinality(S) <= Cardinality(completed)
      BY <2>3, <2>6, FS_Subset
    <2>8. NamedOnce => Cardinality(all) = Cardinality({u \in Range(Plan) : u.condition = c})
      BY ArmsAreWhole DEF all
    <2>9. arm[1] = Cardinality(completed) /\ arm[2] = Cardinality(all)
      BY <2>5
    <2> QED BY <2>2, <2>7, <2>8, <2>9 DEF arm, c
  <1>4. \A t \in Missing(Trials) : t.metrics = <<>>
    BY TrialsAre DEF Missing, RunInv, TrialFits
  <1> QED BY <1>2, <1>3, <1>4

LEMMA CollectedAreAssigned ==
  ASSUME RunInv, EvidenceFits
  PROVE  CollectedIsAssigned
  <1> SUFFICES ASSUME Ran, lane = "remote", NEW t \in Done(Trials)
               PROVE  LET u == UnitOf([trial |-> t.id])
                      IN  /\ UnitOf(t.ref) = u /\ t.ref.kernel = ConditionOf(u).kernel
                          /\ t.hash = ExpectedHash(u)
                          /\ {"task_success", "ASR"} \cap DOMAIN t.metrics = DOMAIN Verdicts(ScenarioOf(u), t.ref)
                          /\ \A m \in {"task_success", "ASR"} \cap DOMAIN t.metrics :
                                t.metrics[m] = Flag(Evaluate(Derived(m), t.ref))
    BY DEF CollectedIsAssigned
  <1>1. PICK i \in 1 .. Len(result.trials) : t = result.trials[i] /\ t.status = "completed"
    BY TrialsAre DEF Done
  <1> DEFINE u == UnitOf([trial |-> t.id])
  <1>2. u = Plan[i]
    BY <1>1, IdsArePlanned
  <1>3. Evidenced(t, u, ScenarioOf(u), ConditionOf(u))
    BY <1>1, <1>2 DEF EvidenceFits, Stands
  <1> HIDE DEF u
  <1>4. /\ UnitOf(t.ref) = u /\ t.ref.kernel = ConditionOf(u).kernel
        /\ t.hash = ExpectedHash(u)
    BY <1>3 DEF Evidenced, ExpectedHash
  <1>5. Judged(t.metrics, ScenarioOf(u), t.ref)
    BY <1>3 DEF Evidenced
  <1> QED BY <1>4, <1>5 DEF Judged, u

(* The run that is published is the plan: every unit once, whatever became *)
(* of it, each completed one on the evidence of the trial it was planned to *)
(* be, and each number over completed trials only -- for any submission,   *)
(* behaviour, measurement and number of attempts, in all three lanes       *)
(* (dispatch.py collect_suite_run, execute.py, stats.py missingness).      *)
THEOREM RunIsAlwaysThePlan == Spec => []RunIsThePlan
  <1> DEFINE Inv == RunInv /\ ReportsFit /\ EvidenceFits /\ TotalsAreOfTheRun
  <1>1. Init => Inv
    BY RunStart, ReportsStart, EvidenceFitsStart, TotalsStart
  <1>2. Inv /\ [Next]_vars => Inv'
    BY RunStep, ReportsStep, EvidenceFitsStep, TotalsStep
  <1>3. Inv => RunIsThePlan
    BY PlannedUnitsAreKept, CollectedAreAssigned DEF RunIsThePlan
  <1> HIDE DEF Inv
  <1> QED BY <1>1, <1>2, <1>3, PTL DEF Spec

----------------------------------------------------------------------------
(* An untouched bundle is accepted. First what a publishable run is: its   *)
(* trials are apart, and so are the names they were planned with.          *)

(* A run that ended and may be published, in a lane Lab compares. *)
HonestRun ==
    /\ RunInv /\ EvidenceFits /\ TotalsAreOfTheRun
    /\ Ran /\ lane # "experiment" /\ Publishable
HonestBundle == BuildBundle(result, resolved, Environment)

LEMMA NamesFindTheirOwn ==
  ASSUME Submitted, NamedOnce, NEW u \in Range(Plan)
  PROVE  /\ ScenarioOf(u) \in Range(resolved.scenarios) /\ ScenarioOf(u).name = u.scenario
         /\ \A s \in Range(resolved.scenarios) : s.name = u.scenario => s = ScenarioOf(u)
         /\ ConditionOf(u) \in Range(arms) /\ ConditionOf(u).id = u.condition
         /\ \A c \in Range(arms) : c.id = u.condition => c = ConditionOf(u)
  <1>1. /\ \A s, r \in Range(resolved.scenarios) : s.name = r.name => s = r
        /\ \A c, d \in Range(arms) : c.id = d.id => c = d
    BY DEF NamedOnce, IsInjective, Range
  <1>2. ScenarioOf(u) \in Range(resolved.scenarios) /\ ScenarioOf(u).name = u.scenario
    BY UnitsOfPlan DEF ScenarioOf
  <1>3. ConditionOf(u) \in Range(arms) /\ ConditionOf(u).id = u.condition
    BY UnitsOfPlan DEF ConditionOf
  <1> QED BY <1>1, <1>2, <1>3

(* what each trial of such a run says *)
Planned(i) ==
    LET t == result.trials[i]
        u == Plan[i]
    IN  /\ u \in Range(Plan)
        /\ t.scenario = u.scenario /\ t.condition = u.condition /\ t.repeat = u.repeat
        /\ t.seed = SeedFor(resolved, lane, t.repeat) /\ t.execution = "run" /\ Coordinate(t) = t.id
        /\ t.id = <<"run", u.scenario, u.condition, t.seed, u.repeat>>
        /\ t.status = "completed" =>
                /\ t.ref \in result.traces /\ t.ref.trial = t.id
                /\ Evidenced(t, u, ScenarioOf(u), ConditionOf(u))

LEMMA TrialsArePlanned ==
  ASSUME HonestRun
  PROVE  /\ Submitted /\ NamedOnce /\ Resolvable(manifest) /\ result.conditions = arms
         /\ Len(Plan) \in Nat /\ DOMAIN result.trials = 1 .. Len(Plan)
         /\ \A t : t \in Trials <=> \E i \in 1 .. Len(Plan) : t = result.trials[i]
         /\ \A i \in 1 .. Len(Plan) : Planned(i)
         /\ \A i, j \in 1 .. Len(Plan) : Plan[i] = Plan[j] => i = j
         /\ \A trace \in result.traces : \E i \in 1 .. Len(Plan) :
                result.trials[i].status = "completed" /\ result.trials[i].ref = trace
  <1>1. /\ Submitted /\ NamedOnce /\ Resolvable(manifest) /\ result.conditions = arms
        /\ Len(result.trials) = Len(Plan) /\ Stands(result.trials, result.traces)
    BY DEF HonestRun, RunInv, EvidenceFits, Publishable, Ran
  <1>2. /\ Len(Plan) \in Nat /\ DOMAIN result.trials = 1 .. Len(Plan)
        /\ \A t : t \in Trials <=> \E i \in 1 .. Len(Plan) : t = result.trials[i]
    BY <1>1, TrialsAre DEF HonestRun
  <1>3. ASSUME NEW i \in 1 .. Len(Plan)
        PROVE  Planned(i)
    <2> DEFINE t == result.trials[i]
               u == Plan[i]
    <2>1. TrialFits(t, u, SeedFor(resolved, lane, u.repeat)) /\ u \in Range(Plan)
      BY <1>1, IdsArePlanned DEF HonestRun, RunInv
    <2>2. t.status = "completed" => t.ref \in result.traces /\ Evidenced(t, u, ScenarioOf(u), ConditionOf(u))
      BY <1>1 DEF Stands
    <2>3. t.status = "completed" => t.ref.trial = t.id
      BY <1>2, <2>2 DEF HonestRun, Publishable, Evidenced
    <2>4. Coordinate(t) = t.id
      BY <2>1 DEF TrialFits, Coordinate
    <2> HIDE DEF t, u
    <2>5. /\ t.scenario = u.scenario /\ t.condition = u.condition /\ t.repeat = u.repeat
          /\ t.seed = SeedFor(resolved, lane, t.repeat) /\ t.execution = "run"
          /\ t.id = <<"run", u.scenario, u.condition, t.seed, u.repeat>>
      BY <2>1 DEF TrialFits
    <2> QED BY <2>1, <2>2, <2>3, <2>4, <2>5 DEF Planned, t, u
  <1>4. \A i, j \in 1 .. Len(Plan) : Plan[i] = Plan[j] => i = j
    <2>1. IsInjective(Plan) /\ DOMAIN Plan = 1 .. Len(Plan)
      BY <1>1, PlanFacts
    <2> QED BY <2>1 DEF IsInjective
  <1>5. ASSUME NEW trace \in result.traces
        PROVE  \E i \in 1 .. Len(Plan) :
                    result.trials[i].status = "completed" /\ result.trials[i].ref = trace
    <2>1. PICK i \in 1 .. Len(Plan) :
            result.trials[i].ref = trace /\ (result.trials[i].status = "completed" \/ trace # None)
      BY <1>1 DEF Stands
    <2>2. result.trials[i] \in Trials
      BY <1>2
    <2>3. trace # None => result.trials[i].status = "completed"
      BY <2>1, <2>2 DEF HonestRun, Publishable
    <2> QED BY <2>1, <2>3
  <1> QED BY <1>1, <1>2, <1>3, <1>4, <1>5

LEMMA TrialsAreApart ==
  ASSUME HonestRun, NEW i \in 1 .. Len(Plan), NEW j \in 1 .. Len(Plan)
  PROVE  LET t == result.trials[i]
             r == result.trials[j]
         IN  /\ t.scenario = r.scenario /\ t.condition = r.condition /\ t.repeat = r.repeat => i = j
             /\ t.id = r.id => i = j
  <1> DEFINE t == result.trials[i]
             r == result.trials[j]
             u == Plan[i]
             v == Plan[j]
  <1>1. /\ u \in Range(Plan) /\ v \in Range(Plan) /\ Planned(i) /\ Planned(j) /\ Submitted
        /\ (u = v => i = j)
    BY TrialsArePlanned DEF Planned
  <1>2. /\ u = [scenario |-> u.scenario, condition |-> u.condition, repeat |-> u.repeat]
        /\ v = [scenario |-> v.scenario, condition |-> v.condition, repeat |-> v.repeat]
    BY <1>1, UnitsOfPlan
  <1>3. /\ t.scenario = u.scenario /\ t.condition = u.condition /\ t.repeat = u.repeat
        /\ r.scenario = v.scenario /\ r.condition = v.condition /\ r.repeat = v.repeat
        /\ t.id = <<"run", u.scenario, u.condition, t.seed, u.repeat>>
        /\ r.id = <<"run", v.scenario, v.condition, r.seed, v.repeat>>
    BY <1>1 DEF Planned
  <1> HIDE DEF t, r, u, v
  <1>4. t.scenario = r.scenario /\ t.condition = r.condition /\ t.repeat = r.repeat => i = j
    BY <1>1, <1>2, <1>3
  <1>5. t.id = r.id => i = j
    BY <1>3, <1>4
  <1> QED BY <1>4, <1>5 DEF t, r

----------------------------------------------------------------------------
(* Its bundle, and what the provenance of it reads (build_bundle).         *)

(* what verify_bundle and the provenance read of a bundle *)
SameBundle(b, c) ==
    /\ b.scenarios = c.scenarios /\ b.conditions = c.conditions /\ b.tools = c.tools
    /\ b.trials = c.trials /\ b.aggregates = c.aggregates

LEMMA SameProvenance ==
  ASSUME NEW b, NEW c, SameBundle(b, c)
  PROVE  ConfigProvenance(b) = ConfigProvenance(c)
  <1>1. Completed(b) = Completed(c)
    BY DEF SameBundle, Completed
  <1>2. \A t : ScenariosOf(b, t) = ScenariosOf(c, t) /\ ConditionsOf(b, t) = ConditionsOf(c, t)
    BY DEF SameBundle, ScenariosOf, ConditionsOf
  <1>3. Governed(b) = Governed(c)
    BY <1>1, <1>2 DEF Governed
  <1>4. \A t : HashOf(b, t) = HashOf(c, t)
    <2> SUFFICES ASSUME NEW t
                 PROVE  HashOf(b, t) = HashOf(c, t)
      OBVIOUS
    <2>1. ScenariosOf(b, t) = ScenariosOf(c, t) /\ ConditionsOf(b, t) = ConditionsOf(c, t)
      BY <1>2
    <2> DEFINE Of(conditions, scenarios) ==
                    {RuntimeConfigHash(d, s) : d \in conditions, s \in scenarios}
    <2>2. /\ HashOf(b, t) = IF t.hash # None THEN t.hash
                            ELSE CHOOSE h \in Of(ConditionsOf(b, t), ScenariosOf(b, t)) : TRUE
          /\ HashOf(c, t) = IF t.hash # None THEN t.hash
                            ELSE CHOOSE h \in Of(ConditionsOf(c, t), ScenariosOf(c, t)) : TRUE
      BY DEF HashOf
    <2> HIDE DEF Of
    <2> QED BY <2>1, <2>2
  <1> DEFINE all(d) == {<<t.scenario, t.condition, HashOf(d, t)>> : t \in Governed(d)}
             marks(d) == {MarkerOf(t) : t \in Governed(d)}
  <1>5. all(b) = all(c)
    BY <1>3, <1>4
  <1>6. marks(b) = marks(c)
    BY <1>3
  <1>7. \A d : ConfigProvenance(d) =
            IF marks(d) = {} THEN None
            ELSE [compiler |-> CompilerVersion,
                  status |-> IF Cardinality(marks(d)) = 1 THEN CHOOSE m \in marks(d) : TRUE
                             ELSE "reconstructed_legacy",
                  hashes |-> all(d)]
    BY Zenon DEF ConfigProvenance
  <1> HIDE DEF all, marks
  <1> QED BY <1>5, <1>6, <1>7

LEMMA SameContents ==
  ASSUME NEW b, NEW c, NEW traces, SameBundle(b, c), b.environment = c.environment
  PROVE  Contents(b, traces) = Contents(c, traces)
  BY Zenon DEF SameBundle, Contents

LEMMA BundleIs ==
  ASSUME HonestRun
  PROVE  /\ HonestBundle.scenarios = Range(resolved.scenarios) /\ HonestBundle.conditions = Range(arms)
         /\ HonestBundle.tools = resolved.tools /\ HonestBundle.trials = result.trials
         /\ HonestBundle.aggregates = result.aggregates
         /\ HonestBundle.environment.provider = Environment.provider
         /\ HonestBundle.environment.kernels = None
         /\ HonestBundle.environment.provenance = ConfigProvenance(HonestBundle)
         /\ HonestBundle.hashes = Contents(HonestBundle, result.traces)
  <1> DEFINE b == [scenarios |-> Range(resolved.scenarios), conditions |-> Range(result.conditions),
                   tools |-> resolved.tools, environment |-> Environment, trials |-> result.trials,
                   aggregates |-> result.aggregates, hashes |-> {}]
             c == [b EXCEPT !.environment = [@ EXCEPT !.provenance = ConfigProvenance(b)]]
             d == HonestBundle
  <1>1. d = [c EXCEPT !.hashes = Contents(c, result.traces)]
    BY DEF HonestBundle, BuildBundle, Seal
  <1>2. /\ b.scenarios = Range(resolved.scenarios) /\ b.conditions = Range(result.conditions)
        /\ b.tools = resolved.tools /\ b.trials = result.trials /\ b.aggregates = result.aggregates
        /\ b.environment = Environment
        /\ DOMAIN b = {"scenarios", "conditions", "tools", "environment", "trials", "aggregates", "hashes"}
    OBVIOUS
  <1>3. DOMAIN Environment = {"provider", "kernels", "provenance"} /\ Environment.kernels = None
    BY DEF Environment, HonestRun
  <1> HIDE DEF b
  <1>4. /\ SameBundle(b, c)
        /\ c.environment = [Environment EXCEPT !.provenance = ConfigProvenance(b)]
        /\ DOMAIN c = DOMAIN b
    BY <1>2 DEF SameBundle
  <1>5. ConfigProvenance(c) = ConfigProvenance(b)
    BY <1>4, SameProvenance
  <1> HIDE DEF c
  <1>6. /\ SameBundle(c, d) /\ c.environment = d.environment
        /\ d.hashes = Contents(c, result.traces)
    BY <1>1, <1>2, <1>4 DEF SameBundle
  <1>7. ConfigProvenance(d) = ConfigProvenance(c) /\ Contents(d, result.traces) = Contents(c, result.traces)
    <2>1. SameBundle(d, c) /\ d.environment = c.environment
      BY <1>6 DEF SameBundle
    <2> HIDE DEF d
    <2> QED BY <2>1, SameProvenance, SameContents
  <1>8. /\ d.environment.provider = Environment.provider /\ d.environment.kernels = None
        /\ d.environment.provenance = ConfigProvenance(b)
    BY <1>3, <1>4, <1>6
  <1>9. result.conditions = arms
    BY TrialsArePlanned
  <1> HIDE DEF d
  <1>10. /\ d.scenarios = Range(resolved.scenarios) /\ d.conditions = Range(arms)
         /\ d.tools = resolved.tools /\ d.trials = result.trials /\ d.aggregates = result.aggregates
    BY <1>2, <1>4, <1>6, <1>9 DEF SameBundle
  <1> QED BY <1>5, <1>6, <1>7, <1>8, <1>10 DEF d

LEMMA CompletedIs ==
  ASSUME HonestRun, NEW t
  PROVE  t \in Completed(HonestBundle) <=>
            \E i \in 1 .. Len(Plan) : t = result.trials[i] /\ t.status = "completed"
  BY BundleIs, TrialsArePlanned DEF Completed, Trials

(* the arm and the scenario of a trial are the ones it was planned with *)
LEMMA TheirScenarioAndArm ==
  ASSUME HonestRun, NEW i \in 1 .. Len(Plan)
  PROVE  /\ ScenariosOf(HonestBundle, result.trials[i]) = {ScenarioOf(Plan[i])}
         /\ ConditionsOf(HonestBundle, result.trials[i]) = {ConditionOf(Plan[i])}
  <1> DEFINE t == result.trials[i]
             u == Plan[i]
  <1>1. u \in Range(Plan) /\ t.scenario = u.scenario /\ t.condition = u.condition
    BY TrialsArePlanned DEF Planned
  <1>2. Submitted /\ NamedOnce
    BY TrialsArePlanned
  <1> HIDE DEF t, u
  <1> QED BY <1>1, <1>2, NamesFindTheirOwn, BundleIs DEF ScenariosOf, ConditionsOf, t, u

----------------------------------------------------------------------------
(* Each conjunct of verify_bundle, of such a bundle.                       *)

LEMMA HonestIsUnique ==
  ASSUME HonestRun
  PROVE  Unique(HonestBundle, result.traces)
  <1> DEFINE b == HonestBundle
             n == Len(Plan)
  <1>1. /\ b.scenarios = Range(resolved.scenarios) /\ b.conditions = Range(arms)
        /\ b.trials = result.trials
    BY BundleIs
  <1>2. /\ \A s, r \in Range(resolved.scenarios) : s.name = r.name => s = r
        /\ \A c, d \in Range(arms) : c.id = d.id => c = d
    <2>1. NamedOnce
      BY TrialsArePlanned
    <2> QED BY <2>1 DEF NamedOnce, IsInjective, Range
  <1>3. DOMAIN result.trials = 1 .. n
    BY TrialsArePlanned
  <1>4. \A i, j \in 1 .. n : result.trials[i].id = result.trials[j].id => i = j
    BY TrialsAreApart
  <1>5. \A i \in 1 .. n : Coordinate(result.trials[i]) = result.trials[i].id
    BY TrialsArePlanned DEF Planned
  <1>6. \A x, y \in result.traces : x.trial = y.trial => x = y
    <2> SUFFICES ASSUME NEW x \in result.traces, NEW y \in result.traces, x.trial = y.trial
                 PROVE  x = y
      OBVIOUS
    <2>1. PICK i \in 1 .. n : result.trials[i].status = "completed" /\ result.trials[i].ref = x
      BY TrialsArePlanned
    <2>2. PICK j \in 1 .. n : result.trials[j].status = "completed" /\ result.trials[j].ref = y
      BY TrialsArePlanned
    <2>3. x.trial = result.trials[i].id /\ y.trial = result.trials[j].id
      BY <2>1, <2>2, TrialsArePlanned DEF Planned
    <2> QED BY <1>4, <2>1, <2>2, <2>3
  <1> HIDE DEF b, n
  <1>7. Distinct(b.scenarios, LAMBDA s : s.name) /\ Distinct(b.conditions, LAMBDA c : c.id)
    BY <1>1, <1>2 DEF Distinct
  <1>8. /\ Distinct(DOMAIN b.trials, LAMBDA i : b.trials[i].id)
        /\ Distinct(DOMAIN b.trials, LAMBDA i : Coordinate(b.trials[i]))
    BY <1>1, <1>3, <1>4, <1>5 DEF Distinct
  <1>9. Distinct(result.traces, LAMBDA t : t.trial)
    BY <1>6 DEF Distinct
  <1> QED BY <1>7, <1>8, <1>9 DEF Unique, b

LEMMA HonestRefersToBundle ==
  ASSUME HonestRun
  PROVE  RefersToBundle(HonestBundle, result.traces)
  <1>1. \A t \in Range(HonestBundle.trials) :
            ScenariosOf(HonestBundle, t) # {} /\ ConditionsOf(HonestBundle, t) # {}
    <2> SUFFICES ASSUME NEW t \in Range(HonestBundle.trials)
                 PROVE  ScenariosOf(HonestBundle, t) # {} /\ ConditionsOf(HonestBundle, t) # {}
      OBVIOUS
    <2>1. PICK i \in 1 .. Len(Plan) : t = result.trials[i]
      BY BundleIs, TrialsArePlanned DEF Trials
    <2> QED BY <2>1, TheirScenarioAndArm
  <1>2. \A trace \in result.traces : trace.tools \subseteq HonestBundle.tools
    BY BundleIs DEF HonestRun, Publishable
  <1> QED BY <1>1, <1>2 DEF RefersToBundle

LEMMA HonestGraphHolds ==
  ASSUME HonestRun
  PROVE  TrialTraceGraph(HonestBundle, result.traces)
  <1> DEFINE n == Len(Plan)
  <1>1. \A t \in Completed(HonestBundle) : t.ref \in result.traces /\ Coordinate(t) = t.ref.trial
    BY CompletedIs, TrialsArePlanned DEF Planned
  <1>2. ASSUME NEW trace \in result.traces
        PROVE  Cardinality({i \in DOMAIN HonestBundle.trials :
                    HonestBundle.trials[i].status = "completed" /\ HonestBundle.trials[i].ref = trace}) = 1
    <2>1. PICK i \in 1 .. n : result.trials[i].status = "completed" /\ result.trials[i].ref = trace
      BY TrialsArePlanned
    <2>2. \A j \in 1 .. n : result.trials[j].status = "completed" /\ result.trials[j].ref = trace
                => result.trials[j].id = trace.trial
      BY TrialsArePlanned DEF Planned
    <2>3. \A j \in 1 .. n : result.trials[j].status = "completed" /\ result.trials[j].ref = trace => j = i
      BY <2>1, <2>2, TrialsAreApart
    <2>4. HonestBundle.trials = result.trials /\ DOMAIN result.trials = 1 .. n
      BY BundleIs, TrialsArePlanned
    <2> HIDE DEF n
    <2>5. {j \in DOMAIN HonestBundle.trials :
                HonestBundle.trials[j].status = "completed" /\ HonestBundle.trials[j].ref = trace} = {i}
      BY <2>1, <2>3, <2>4
    <2> QED BY <2>5, FS_Singleton
  <1> QED BY <1>1, <1>2 DEF TrialTraceGraph

(* None is no digest of what the run was planned with *)
LEMMA DigestsAreGiven ==
  ASSUME HonestRun, NEW u \in Range(Plan)
  PROVE  None \notin {WorldDigest(ScenarioOf(u)), RuntimeConfigHash(ConditionOf(u), ScenarioOf(u))}
  <1>1. ScenarioOf(u) \in Range(resolved.scenarios) /\ ConditionOf(u) \in Range(arms)
    BY TrialsArePlanned, NamesFindTheirOwn
  <1>2. PICK x \in Submissions : manifest = x[1] /\ lane = x[2]
    BY TrialsArePlanned DEF Submitted
  <1>3. x \in {y \in Submissions : Resolvable(y[1])}
    BY <1>2, TrialsArePlanned
  <1>4. \A scenario \in Range(Resolved(x[1]).scenarios), c \in Range(Arms(Resolved(x[1]), x[2])) :
            None \notin {WorldDigest(scenario), RuntimeConfigHash(c, scenario)}
    BY <1>3, NoneAssumption, Zenon
  <1>5. Resolved(x[1]) = resolved /\ Arms(Resolved(x[1]), x[2]) = arms
    BY <1>2 DEF resolved, arms
  <1> QED BY <1>1, <1>4, <1>5

LEMMA HonestMetadataHolds ==
  ASSUME HonestRun
  PROVE  MetadataHolds(HonestBundle, result.traces)
  <1>1. ASSUME NEW t \in Completed(HonestBundle)
        PROVE  /\ \A c \in ConditionsOf(HonestBundle, t) :
                        KernelBound(t.ref, c) /\ (c.kernel # None => t.hash # None)
               /\ \A s \in ScenariosOf(HonestBundle, t) :
                        IF t.ref.digest = None THEN t.ref.mode \notin {"wrapped_code", "instrumented_endpoint"}
                        ELSE t.ref.digest = WorldDigest(s)
    <2>1. PICK i \in 1 .. Len(Plan) : t = result.trials[i] /\ t.status = "completed"
      BY CompletedIs
    <2> DEFINE s == ScenarioOf(Plan[i])
               c == ConditionOf(Plan[i])
    <2>2. ScenariosOf(HonestBundle, t) = {s} /\ ConditionsOf(HonestBundle, t) = {c}
      BY <2>1, TheirScenarioAndArm
    <2>3. Evidenced(t, Plan[i], s, c) /\ Plan[i] \in Range(Plan)
      BY <2>1, TrialsArePlanned DEF Planned
    <2>4. None # WorldDigest(s) /\ None # RuntimeConfigHash(c, s)
      BY <2>3, DigestsAreGiven
    <2> HIDE DEF s, c
    <2>5. KernelBound(t.ref, c) /\ (c.kernel # None => t.hash # None)
      BY <2>3, <2>4 DEF Evidenced, KernelBound
    <2>6. t.ref.digest = WorldDigest(s) /\ t.ref.digest # None
      BY <2>3, <2>4 DEF Evidenced
    <2> QED BY <2>2, <2>5, <2>6
  <1>2. HonestBundle.environment.kernels = None
    BY BundleIs
  <1> QED BY <1>1, <1>2 DEF MetadataHolds

LEMMA HonestProvenanceHolds ==
  ASSUME HonestRun
  PROVE  ProvenanceHolds(HonestBundle)
  <1> DEFINE b == HonestBundle
  <1>1. ASSUME NEW t \in Governed(b), NEW r \in Governed(b),
               t.scenario = r.scenario, t.condition = r.condition
        PROVE  HashOf(b, t) = HashOf(b, r)
    <2>1. PICK i \in 1 .. Len(Plan) : t = result.trials[i] /\ t.status = "completed"
      BY CompletedIs DEF Governed
    <2>2. PICK j \in 1 .. Len(Plan) : r = result.trials[j] /\ r.status = "completed"
      BY CompletedIs DEF Governed
    <2>3. /\ Evidenced(t, Plan[i], ScenarioOf(Plan[i]), ConditionOf(Plan[i]))
          /\ Evidenced(r, Plan[j], ScenarioOf(Plan[j]), ConditionOf(Plan[j]))
          /\ t.scenario = Plan[i].scenario /\ t.condition = Plan[i].condition
          /\ r.scenario = Plan[j].scenario /\ r.condition = Plan[j].condition
      BY <2>1, <2>2, TrialsArePlanned DEF Planned
    <2>4. ScenarioOf(Plan[i]) = ScenarioOf(Plan[j]) /\ ConditionOf(Plan[i]) = ConditionOf(Plan[j])
      BY <1>1, <2>3 DEF ScenarioOf, ConditionOf
    <2>5. t.hash = r.hash
      BY <2>3, <2>4 DEF Evidenced
    <2>6. CASE t.hash # None
      BY <2>5, <2>6 DEF HashOf
    <2>7. CASE t.hash = None
      <3>1. ConditionOf(Plan[i]).kernel # None
        <4>1. ConditionsOf(b, t) = {ConditionOf(Plan[i])}
          BY <2>1, TheirScenarioAndArm
        <4> QED BY <4>1 DEF Governed
      <3>2. t.hash = RuntimeConfigHash(ConditionOf(Plan[i]), ScenarioOf(Plan[i])) /\ Plan[i] \in Range(Plan)
        BY <2>1, <2>3, <3>1, TrialsArePlanned DEF Evidenced, Planned
      <3> QED BY <2>7, <3>2, DigestsAreGiven
    <2> QED BY <2>6, <2>7
  <1>2. ~Diverges(b)
    BY <1>1 DEF Diverges
  <1>3. b.environment.provenance = ConfigProvenance(b)
    BY BundleIs
  <1> QED BY <1>2, <1>3 DEF ProvenanceHolds

LEMMA HonestIsVerified ==
  ASSUME HonestRun
  PROVE  VerifyBundle(HonestBundle, result.traces)
  <1>1. Hashed(HonestBundle, result.traces)
    BY BundleIs DEF Hashed
  <1> QED BY <1>1, HonestIsUnique, HonestRefersToBundle, HonestGraphHolds, HonestMetadataHolds,
             HonestProvenanceHolds DEF VerifyBundle

----------------------------------------------------------------------------
(* The server recounts each number. A count, a McNemar test and a sum are  *)
(* the same over traces as over the trials that stand on them; first the   *)
(* flags of an arm.                                                        *)

LEMMA CountUnderBijection ==
  ASSUME NEW S, NEW T, IsFiniteSet(S), NEW h \in Bijection(S, T), NEW A \in SUBSET S, NEW B \in SUBSET T,
         \A x \in S : x \in A <=> h[x] \in B
  PROVE  Cardinality(A) = Cardinality(B)
  <1> DEFINE g == [x \in A |-> h[x]]
  <1>1. /\ h \in [S -> T] /\ (\A x, y \in S : h[x] = h[y] => x = y)
        /\ \A y \in T : \E x \in S : h[x] = y
    BY DEF Bijection, Injection, Surjection, IsInjective
  <1>2. g \in [A -> B]
    BY <1>1
  <1>3. \A x, y \in A : g[x] = g[y] => x = y
    BY <1>1
  <1>4. ASSUME NEW y \in B
        PROVE  \E x \in A : g[x] = y
    <2>1. PICK x \in S : h[x] = y
      BY <1>1
    <2> QED BY <2>1
  <1>5. IsFiniteSet(A)
    BY FS_Subset
  <1> HIDE DEF g
  <1>6. g \in Bijection(A, B)
    BY <1>2, <1>3, <1>4 DEF Bijection, Injection, Surjection, IsInjective
  <1> QED BY <1>5, <1>6, SameSize

LEMMA McNemarUnderBijection ==
  ASSUME NEW S, NEW T, IsFiniteSet(S), NEW h \in Bijection(S, T), NEW p, NEW q, NEW vs,
         DOMAIN p = S, DOMAIN q = T, \A k \in S : p[k][1] = q[h[k]][1] /\ p[k][2] = q[h[k]][2]
  PROVE  McNemar(p, vs) = McNemar(q, vs)
  <1> DEFINE b(f) == {k \in DOMAIN f : f[k][1] /\ ~f[k][2]}
             c(f) == {k \in DOMAIN f : ~f[k][1] /\ f[k][2]}
  <1>1. h \in [S -> T]
    BY DEF Bijection, Injection
  <1>2. Cardinality(b(p)) = Cardinality(b(q))
    <2>1. /\ b(p) \in SUBSET S /\ b(q) \in SUBSET T
          /\ \A x \in S : x \in b(p) <=> h[x] \in b(q)
      BY <1>1
    <2> HIDE DEF b
    <2> QED BY <2>1, CountUnderBijection
  <1>3. Cardinality(c(p)) = Cardinality(c(q))
    <2>1. /\ c(p) \in SUBSET S /\ c(q) \in SUBSET T
          /\ \A x \in S : x \in c(p) <=> h[x] \in c(q)
      BY <1>1
    <2> HIDE DEF c
    <2> QED BY <2>1, CountUnderBijection
  <1>4. Cardinality(DOMAIN p) = Cardinality(DOMAIN q)
    BY SameSize
  <1>5. \A f : McNemar(f, vs) =
            [name |-> "mcnemar", vs |-> vs,
             counts |-> <<Cardinality(b(f)), Cardinality(c(f)), Cardinality(DOMAIN f)>>,
             effective_n |-> Cardinality(b(f)) + Cardinality(c(f)),
             status |-> TestStatus(Cardinality(b(f)) + Cardinality(c(f)))]
    BY Zenon DEF McNemar
  <1> HIDE DEF b, c
  <1> QED BY <1>2, <1>3, <1>4, <1>5

(* The flags of an arm are the outcomes the server finds in the traces. *)
LEMMA FlagsAreRows ==
  ASSUME HonestRun, NEW metric \in {"ASR", "task_success"}, NEW cid
  PROVE  /\ FlagsOf(metric, cid, Done(Trials)) =
                Arm(Rows(HonestBundle, result.traces, Derived(metric)), cid)
         /\ \A t \in FlagsOf(metric, cid, Done(Trials)) :
                t.metrics[metric] = Flag(Evaluate(Derived(metric), t.ref))
         /\ IsFiniteSet(FlagsOf(metric, cid, Done(Trials)))
  <1> DEFINE F == FlagsOf(metric, cid, Done(Trials))
             R == Arm(Rows(HonestBundle, result.traces, Derived(metric)), cid)
             done == Completed(HonestBundle)
  <1>1. \A t : t \in F <=> /\ t \in done /\ t.condition = cid
                           /\ metric \in DOMAIN t.metrics /\ IsBool(t.metrics[metric])
    BY BundleIs DEF FlagsOf, Done, Completed, Trials
  <1>2. \A t : t \in R <=> /\ t \in done /\ t.condition = cid /\ t.ref \in result.traces
                           /\ Derived(metric) = "violation" => \E s \in ScenariosOf(HonestBundle, t) : s.violation
    BY DEF Arm, Rows
  <1>3. ASSUME NEW t \in done
        PROVE  /\ t.ref \in result.traces
               /\ metric \in DOMAIN t.metrics => t.metrics[metric] = Flag(Evaluate(Derived(metric), t.ref))
               /\ metric \in DOMAIN t.metrics <=>
                    (Derived(metric) = "violation" => \E s \in ScenariosOf(HonestBundle, t) : s.violation)
    <2>1. PICK i \in 1 .. Len(Plan) : t = result.trials[i] /\ t.status = "completed"
      BY CompletedIs
    <2> DEFINE s == ScenarioOf(Plan[i])
    <2>2. ScenariosOf(HonestBundle, t) = {s}
      BY <2>1, TheirScenarioAndArm
    <2>3. t.ref \in result.traces /\ Judged(t.metrics, s, t.ref)
      BY <2>1, TrialsArePlanned DEF Planned, Evidenced
    <2> HIDE DEF s
    <2>4. DOMAIN Verdicts(s, t.ref) = {"task_success"} \cup (IF s.violation THEN {"ASR"} ELSE {})
      BY VerdictsDecide
    <2>5. metric \in DOMAIN t.metrics <=> (metric = "ASR" => s.violation)
      BY <2>3, <2>4 DEF Judged
    <2>6. Derived(metric) = IF metric = "ASR" THEN "violation" ELSE "task_success"
      BY DEF Derived
    <2> QED BY <2>2, <2>3, <2>5, <2>6 DEF Judged
  <1>4. \A x : IsBool(Flag(x))
    BY DEF IsBool, Flag
  <1>5. \A t : t \in F <=> t \in R
    BY <1>1, <1>2, <1>3, <1>4
  <1>6. IsFiniteSet(F)
    <2>1. F \in SUBSET Trials /\ IsFiniteSet(Trials)
      BY TrialsAre DEF HonestRun, FlagsOf, Done
    <2> QED BY <2>1, FS_Subset
  <1>7. F \subseteq R /\ R \subseteq F
    BY <1>5
  <1>8. \A t \in F : t.metrics[metric] = Flag(Evaluate(Derived(metric), t.ref))
    BY <1>1, <1>3
  <1> QED BY <1>6, <1>7, <1>8

LEMMA FlagsAreCounted ==
  ASSUME HonestRun, NEW metric \in {"ASR", "task_success"}, NEW cid
  PROVE  LET arm == Arm(Rows(HonestBundle, result.traces, Derived(metric)), cid)
         IN  Cardinality(TrueOf(metric, FlagsOf(metric, cid, Done(Trials)))) = Successes(arm, Derived(metric))
  <1> DEFINE F == FlagsOf(metric, cid, Done(Trials))
  <1>1. F = Arm(Rows(HonestBundle, result.traces, Derived(metric)), cid)
    BY FlagsAreRows
  <1>2. \A t \in F : t.metrics[metric].v = Evaluate(Derived(metric), t.ref)
    <2>1. \A x : Flag(x).v = x
      BY DEF Flag
    <2>2. \A t \in F : t.metrics[metric] = Flag(Evaluate(Derived(metric), t.ref))
      BY FlagsAreRows
    <2> QED BY <2>1, <2>2
  <1> HIDE DEF F
  <1>3. TrueOf(metric, F) = {t \in F : Evaluate(Derived(metric), t.ref)}
    BY <1>2 DEF TrueOf
  <1> QED BY <1>1, <1>3 DEF Successes, F

----------------------------------------------------------------------------
(* The test of a rate: a suite pairs trials by scenario and repeat, the    *)
(* server by the rows of the bundle.                                       *)

(* how a suite and the server pair the trials of two arms *)
SuiteKey(t) == <<t.scenario, t.repeat>>
Paired(base, treated) == {SuiteKey(t) : t \in base} \cap {SuiteKey(t) : t \in treated}
FlagAt(metric, arm, k) == (CHOOSE t \in arm : SuiteKey(t) = k).metrics[metric].v
SuitePairs(metric, base, treated) ==
    [k \in Paired(base, treated) |-> <<FlagAt(metric, base, k), FlagAt(metric, treated, k)>>]

RowsPaired(base, treated) == {RowKey(t) : t \in base} \cap {RowKey(t) : t \in treated}
OutcomeAt(field, arm, k) == Evaluate(field, (CHOOSE t \in arm : RowKey(t) = k).ref)
RowPairs(field, base, treated) ==
    [k \in RowsPaired(base, treated) |-> <<OutcomeAt(field, base, k), OutcomeAt(field, treated, k)>>]

LEMMA SuiteTests ==
  ASSUME NEW metric, NEW base, NEW treated
  PROVE  ComparisonTest("mcnemar", metric, base, treated) =
            IF Paired(base, treated) = {} THEN {}
            ELSE {McNemar(SuitePairs(metric, base, treated), (CHOOSE t \in base : TRUE).condition)}
  BY Zenon DEF ComparisonTest, Paired, SuitePairs, SuiteKey, FlagAt

LEMMA ServerTests ==
  ASSUME NEW rows, NEW field, NEW baseline, NEW treated
  PROVE  RecomputeTest(rows, field, baseline, treated, "matched_pairs") =
            McNemar(RowPairs(field, Arm(rows, baseline), Arm(rows, treated)), baseline)
  <1>1. "matched_pairs" # "independent_samples"
    OBVIOUS
  <1> QED BY <1>1, Zenon DEF RecomputeTest, RowPairs, RowsPaired, OutcomeAt

(* an arm: trials of one condition, of those a run made *)
LEMMA ArmIsKeyed ==
  ASSUME HonestRun, NEW metric \in {"ASR", "task_success"}, NEW cid,
         NEW t \in FlagsOf(metric, cid, Done(Trials)), NEW r
  PROVE  /\ RowKey(t) = <<t.scenario, SeedFor(resolved, lane, t.repeat), t.repeat, "run">>
         /\ r \in FlagsOf(metric, cid, Done(Trials)) /\ t.scenario = r.scenario /\ t.repeat = r.repeat => t = r
  <1>1. t.condition = cid /\ \E i \in 1 .. Len(Plan) : t = result.trials[i]
    BY TrialsArePlanned DEF FlagsOf, Done
  <1>2. RowKey(t) = <<t.scenario, SeedFor(resolved, lane, t.repeat), t.repeat, "run">>
    BY <1>1, TrialsArePlanned DEF Planned, RowKey
  <1>3. ASSUME r \in FlagsOf(metric, cid, Done(Trials)), t.scenario = r.scenario, t.repeat = r.repeat
        PROVE  t = r
    <2>1. r.condition = cid /\ \E i \in 1 .. Len(Plan) : r = result.trials[i]
      BY <1>3, TrialsArePlanned DEF FlagsOf, Done
    <2> QED BY <1>1, <1>3, <2>1, TrialsAreApart
  <1> QED BY <1>2, <1>3

LEMMA SameValueAt ==
  ASSUME HonestRun, NEW metric \in {"ASR", "task_success"}, NEW cid,
         NEW t \in FlagsOf(metric, cid, Done(Trials))
  PROVE  LET arm == FlagsOf(metric, cid, Done(Trials))
         IN  FlagAt(metric, arm, SuiteKey(t)) = OutcomeAt(Derived(metric), arm, RowKey(t))
  <1> DEFINE arm == FlagsOf(metric, cid, Done(Trials))
             x == CHOOSE r \in arm : SuiteKey(r) = SuiteKey(t)
             y == CHOOSE r \in arm : RowKey(r) = RowKey(t)
  <1>1. x \in arm /\ SuiteKey(x) = SuiteKey(t)
    OBVIOUS
  <1>2. y \in arm /\ RowKey(y) = RowKey(t)
    OBVIOUS
  <1> HIDE DEF x, y
  <1>3. x = t
    BY <1>1, ArmIsKeyed DEF SuiteKey
  <1>4. y = t
    BY <1>2, ArmIsKeyed DEF RowKey
  <1>5. t.metrics[metric] = Flag(Evaluate(Derived(metric), t.ref))
    BY FlagsAreRows
  <1>6. t.metrics[metric].v = Evaluate(Derived(metric), t.ref)
    BY <1>5 DEF Flag
  <1>7. FlagAt(metric, arm, SuiteKey(t)) = x.metrics[metric].v
    BY Zenon DEF FlagAt, x
  <1>8. OutcomeAt(Derived(metric), arm, RowKey(t)) = Evaluate(Derived(metric), y.ref)
    BY Zenon DEF OutcomeAt, y
  <1> QED BY <1>3, <1>4, <1>6, <1>7, <1>8

LEMMA TestsAgree ==
  ASSUME HonestRun, NEW metric \in {"ASR", "task_success"}, NEW cid, NEW did, NEW vs
  PROVE  LET base == FlagsOf(metric, cid, Done(Trials))
             treated == FlagsOf(metric, did, Done(Trials))
         IN  McNemar(SuitePairs(metric, base, treated), vs) = McNemar(RowPairs(Derived(metric), base, treated), vs)
  <1> DEFINE base == FlagsOf(metric, cid, Done(Trials))
             treated == FlagsOf(metric, did, Done(Trials))
             S == Paired(base, treated)
             T == RowsPaired(base, treated)
             p == SuitePairs(metric, base, treated)
             q == RowPairs(Derived(metric), base, treated)
             h == [k \in S |-> <<k[1], SeedFor(resolved, lane, k[2]), k[2], "run">>]
  <1>1. \A k : k \in S <=> /\ \E t \in base : k = SuiteKey(t)
                           /\ \E t \in treated : k = SuiteKey(t)
    BY DEF Paired
  <1>2. \A k : k \in T <=> /\ \E t \in base : k = RowKey(t)
                           /\ \E t \in treated : k = RowKey(t)
    BY DEF RowsPaired
  <1>3. \A t \in base \cup treated :
            RowKey(t) = <<t.scenario, SeedFor(resolved, lane, t.repeat), t.repeat, "run">>
    BY ArmIsKeyed
  <1>4. \A k \in S : h[k] = <<k[1], SeedFor(resolved, lane, k[2]), k[2], "run">>
    OBVIOUS
  <1>5. DOMAIN h = S /\ h = [k \in S |-> h[k]]
    OBVIOUS
  <1>6. \A k \in S : p[k] = <<FlagAt(metric, base, k), FlagAt(metric, treated, k)>>
    BY DEF SuitePairs
  <1>7. \A k \in T : q[k] = <<OutcomeAt(Derived(metric), base, k), OutcomeAt(Derived(metric), treated, k)>>
    BY DEF RowPairs
  <1>8. DOMAIN p = S /\ DOMAIN q = T
    BY DEF SuitePairs, RowPairs
  <1>9. /\ \A t \in base : FlagAt(metric, base, SuiteKey(t)) = OutcomeAt(Derived(metric), base, RowKey(t))
        /\ \A t \in treated : FlagAt(metric, treated, SuiteKey(t)) = OutcomeAt(Derived(metric), treated, RowKey(t))
    BY SameValueAt
  <1>10. IsFiniteSet(S)
    <2> DEFINE f == [t \in base |-> SuiteKey(t)]
               all == {SuiteKey(t) : t \in base}
    <2>1. IsFiniteSet(base)
      BY FlagsAreRows
    <2>2. f \in Surjection(base, all)
      BY DEF Surjection
    <2> HIDE DEF f, all
    <2>3. IsFiniteSet(all)
      BY <2>1, <2>2, FS_Surjection
    <2>4. S \in SUBSET all
      BY DEF Paired, all
    <2> QED BY <2>3, <2>4, FS_Subset
  <1> HIDE DEF base, treated, S, T, p, q, h
  <1>11. \A k \in S : /\ \E t \in base : k = SuiteKey(t) /\ h[k] = RowKey(t)
                      /\ \E t \in treated : k = SuiteKey(t) /\ h[k] = RowKey(t)
    <2>1. ASSUME NEW t \in base \cup treated, SuiteKey(t) \in S
          PROVE  h[SuiteKey(t)] = RowKey(t)
      BY <1>3, <1>4, <2>1 DEF SuiteKey
    <2> QED BY <1>1, <2>1
  <1>12. h \in [S -> T]
    BY <1>2, <1>5, <1>11
  <1>13. \A k, l \in S : h[k] = h[l] => k = l
    <2> SUFFICES ASSUME NEW k \in S, NEW l \in S, h[k] = h[l]
                 PROVE  k = l
      OBVIOUS
    <2>1. PICK t \in base : k = SuiteKey(t) /\ h[k] = RowKey(t)
      BY <1>11
    <2>2. PICK r \in base : l = SuiteKey(r) /\ h[l] = RowKey(r)
      BY <1>11
    <2> QED BY <2>1, <2>2 DEF SuiteKey, RowKey
  <1>14. ASSUME NEW x \in T
         PROVE  \E k \in S : h[k] = x
    <2>1. PICK t \in base : x = RowKey(t)
      BY <1>2
    <2>2. PICK r \in treated : x = RowKey(r)
      BY <1>2
    <2>3. SuiteKey(t) = SuiteKey(r)
      BY <2>1, <2>2 DEF SuiteKey, RowKey
    <2>4. SuiteKey(t) \in S
      BY <1>1, <2>3
    <2>5. h[SuiteKey(t)] = x
      BY <1>3, <1>4, <2>1, <2>4 DEF SuiteKey
    <2> QED BY <2>4, <2>5
  <1>15. h \in Bijection(S, T)
    BY <1>12, <1>13, <1>14 DEF Bijection, Injection, Surjection, IsInjective
  <1>16. ASSUME NEW k \in S
         PROVE  p[k][1] = q[h[k]][1] /\ p[k][2] = q[h[k]][2]
    <2>1. PICK t \in base : k = SuiteKey(t) /\ h[k] = RowKey(t)
      BY <1>11
    <2>2. PICK r \in treated : k = SuiteKey(r) /\ h[k] = RowKey(r)
      BY <1>11
    <2>3. h[k] \in T
      BY <1>12
    <2>4. /\ FlagAt(metric, base, k) = OutcomeAt(Derived(metric), base, h[k])
          /\ FlagAt(metric, treated, k) = OutcomeAt(Derived(metric), treated, h[k])
      BY <1>9, <2>1, <2>2
    <2>5. /\ p[k] = <<FlagAt(metric, base, k), FlagAt(metric, treated, k)>>
          /\ q[h[k]] = <<OutcomeAt(Derived(metric), base, h[k]), OutcomeAt(Derived(metric), treated, h[k])>>
      BY <1>6, <1>7, <2>3
    <2> QED BY <2>4, <2>5
  <1>17. McNemar(p, vs) = McNemar(q, vs)
    BY <1>8, <1>10, <1>15, <1>16, McNemarUnderBijection
  <1> QED BY <1>17 DEF p, q, base, treated

----------------------------------------------------------------------------
(* A rate and its test, as a suite made it, is what the server derives.    *)

(* the tests an aggregate of a suite is given *)
GivenTests(spec, cid, flags, trials, baseline) ==
    IF spec.test \in ComparisonTests /\ baseline \notin {None, cid}
    THEN ComparisonTest(spec.test, spec.metric, FlagsOf(spec.metric, baseline, trials), flags)
    ELSE {}

LEMMA McNemarIsCounted ==
  ASSUME NEW pairs, IsFiniteSet(DOMAIN pairs), NEW vs
  PROVE  LET test == McNemar(pairs, vs)
         IN  test.vs = vs /\ test.status = TestStatus(test.effective_n) /\ test.effective_n \in Nat
  <1> DEFINE B == {k \in DOMAIN pairs : pairs[k][1] /\ ~pairs[k][2]}
             C == {k \in DOMAIN pairs : ~pairs[k][1] /\ pairs[k][2]}
  <1>1. Cardinality(B) \in Nat /\ Cardinality(C) \in Nat
    <2>1. B \in SUBSET DOMAIN pairs /\ C \in SUBSET DOMAIN pairs
      OBVIOUS
    <2> HIDE DEF B, C
    <2> QED BY <2>1, FS_Subset, FS_CardinalityType
  <1>2. McNemar(pairs, vs) =
            [name |-> "mcnemar", vs |-> vs,
             counts |-> <<Cardinality(B), Cardinality(C), Cardinality(DOMAIN pairs)>>,
             effective_n |-> Cardinality(B) + Cardinality(C),
             status |-> TestStatus(Cardinality(B) + Cardinality(C))]
    BY Zenon DEF McNemar
  <1> HIDE DEF B, C
  <1> QED BY <1>1, <1>2

LEMMA PairsAreFinite ==
  ASSUME NEW field, NEW base, IsFiniteSet(base), NEW treated
  PROVE  IsFiniteSet(DOMAIN RowPairs(field, base, treated))
  <1> DEFINE f == [t \in base |-> RowKey(t)]
             all == {RowKey(t) : t \in base}
  <1>1. f \in Surjection(base, all)
    BY DEF Surjection
  <1> HIDE DEF f, all
  <1>2. IsFiniteSet(all)
    BY <1>1, FS_Surjection
  <1>3. DOMAIN RowPairs(field, base, treated) \in SUBSET all
    BY DEF RowPairs, RowsPaired, all
  <1> QED BY <1>2, <1>3, FS_Subset

LEMMA RateIs ==
  ASSUME NEW spec, spec.fn = "rate", NEW c, NEW trials, NEW baseline,
         NEW agg \in AggregateOf(spec, c, trials, baseline)
  PROVE  LET flags == FlagsOf(spec.metric, c.id, trials)
         IN  /\ flags # {}
             /\ agg = BinaryAggregate(spec.metric, c.id, Cardinality(TrueOf(spec.metric, flags)),
                                      Cardinality(flags), {}, GivenTests(spec, c.id, flags, trials, baseline))
  BY Zenon DEF AggregateOf, GivenTests

LEMMA DerivedAggregateHolds ==
  ASSUME HonestRun, NEW spec \in resolved.aggregations, spec.fn = "rate", NEW c \in Range(arms),
         NEW baseline, NEW agg \in AggregateOf(spec, c, Done(Trials), baseline)
  PROVE  /\ Derived(agg.metric) # None
         /\ LET again == RecomputeAggregate(HonestBundle, result.traces, agg)
            IN  /\ again.n > 0 /\ agg.n = again.n /\ agg.estimate = again.estimate
                /\ agg.interval = again.interval
                /\ PairingIsProven(HonestBundle, agg)
                /\ \A test \in agg.test : TestHolds(HonestBundle, result.traces, agg, test)
  <1> DEFINE metric == spec.metric
             field == Derived(metric)
             flags == FlagsOf(metric, c.id, Done(Trials))
             rows == Rows(HonestBundle, result.traces, field)
             tests == GivenTests(spec, c.id, flags, Done(Trials), baseline)
             again == RecomputeAggregate(HonestBundle, result.traces, agg)
             s == Cardinality(TrueOf(metric, flags))
             n == Cardinality(flags)
  <1>1. flags # {} /\ agg = BinaryAggregate(metric, c.id, s, n, {}, tests)
    BY RateIs
  <1>2. /\ agg.metric = metric /\ agg.condition = c.id /\ agg.n = n /\ agg.estimate = <<s, n>>
        /\ agg.interval = <<"wilson", s, n>> /\ agg.design = {}
        /\ agg.test = {t \in tests : n >= InconclusiveMinN /\ t.effective_n >= InconclusiveMinN}
    <2> HIDE DEF metric, s, n, tests, flags
    <2> QED BY <1>1 DEF BinaryAggregate
  <1>3. /\ metric \in {"ASR", "task_success"} /\ field # None
        /\ IF lane = "suite" THEN spec.test # "two_proportion" ELSE spec.test = "none"
    <2>1. /\ metric \notin {"utility", "task_success_rate"} /\ Derived(metric) # None
          /\ IF lane = "suite" THEN spec.test # "two_proportion" ELSE spec.test = "none"
      BY DEF HonestRun, Publishable
    <2> QED BY <2>1 DEF Derived
  <1>4. flags = Arm(rows, c.id) /\ s = Successes(Arm(rows, c.id), field)
    BY <1>3, FlagsAreRows, FlagsAreCounted
  <1>5. again = BinaryAggregate(metric, c.id, s, n, {}, {})
    <2>1. again = BinaryAggregate(agg.metric, agg.condition,
                        Successes(Arm(Rows(HonestBundle, result.traces, Derived(agg.metric)), agg.condition),
                                  Derived(agg.metric)),
                        Cardinality(Arm(Rows(HonestBundle, result.traces, Derived(agg.metric)), agg.condition)),
                        {}, {})
      BY Zenon DEF RecomputeAggregate
    <2>2. again = BinaryAggregate(metric, c.id, Successes(Arm(rows, c.id), field), Cardinality(Arm(rows, c.id)), {}, {})
      <3> HIDE DEF again
      <3> QED BY <1>2, <2>1
    <2> HIDE DEF again, rows, flags, s
    <2> QED BY <1>4, <2>2
  <1>6. n \in Nat /\ n > 0
    <2>1. IsFiniteSet(flags)
      BY <1>3, FlagsAreRows
    <2> HIDE DEF flags
    <2> QED BY <1>1, <2>1, FS_EmptySet, FS_CardinalityType
  <1>7. again.n = n /\ again.estimate = <<s, n>> /\ again.interval = <<"wilson", s, n>>
    <2> HIDE DEF again, s, n, metric
    <2> QED BY <1>5 DEF BinaryAggregate
  <1>8. \A test \in agg.test :
            /\ lane = "suite" /\ test.effective_n >= InconclusiveMinN
            /\ test = McNemar(RowPairs(field, Arm(rows, baseline), Arm(rows, c.id)), baseline)
    <2> SUFFICES ASSUME NEW test \in agg.test
                 PROVE  /\ lane = "suite" /\ test.effective_n >= InconclusiveMinN
                        /\ test = McNemar(RowPairs(field, Arm(rows, baseline), Arm(rows, c.id)), baseline)
      OBVIOUS
    <2> DEFINE base == FlagsOf(metric, baseline, Done(Trials))
    <2>1. test \in tests /\ test.effective_n >= InconclusiveMinN
      BY <1>2
    <2>2. spec.test \in ComparisonTests /\ test \in ComparisonTest(spec.test, metric, base, flags)
      BY <2>1 DEF GivenTests
    <2>3. spec.test = "mcnemar" /\ lane = "suite"
      BY <1>3, <2>2 DEF ComparisonTests
    <2>4. /\ Paired(base, flags) # {}
          /\ test = McNemar(SuitePairs(metric, base, flags), (CHOOSE t \in base : TRUE).condition)
      <3>1. test \in (IF Paired(base, flags) = {} THEN {}
                      ELSE {McNemar(SuitePairs(metric, base, flags), (CHOOSE t \in base : TRUE).condition)})
        BY <2>2, <2>3, SuiteTests
      <3> HIDE DEF base, flags, metric
      <3> QED BY <3>1
    <2>5. (CHOOSE t \in base : TRUE).condition = baseline
      <3>1. base # {}
        BY <2>4 DEF Paired
      <3>2. \A t \in base : t.condition = baseline
        BY DEF FlagsOf
      <3> HIDE DEF base
      <3> QED BY <3>1, <3>2
    <2>6. base = Arm(rows, baseline)
      BY <1>3, FlagsAreRows
    <2>7. McNemar(SuitePairs(metric, base, flags), baseline) = McNemar(RowPairs(field, base, flags), baseline)
      BY <1>3, TestsAgree
    <2> HIDE DEF base, flags, rows, metric, field
    <2> QED BY <1>4, <2>1, <2>3, <2>4, <2>5, <2>6, <2>7
  <1>9. PairingIsProven(HonestBundle, agg)
    <2>1. agg.design # {"matched_pairs"}
      BY <1>2
    <2>2. agg.test # {} => lane = "suite"
      BY <1>8
    <2>3. lane = "suite" => HonestBundle.environment.provider = "scripted"
      BY BundleIs DEF Environment
    <2>4. lane = "suite" => IsDeterministic(HonestBundle)
      BY <2>3 DEF IsDeterministic
    <2> QED BY <2>1, <2>2, <2>4 DEF PairingIsProven
  <1>10. ASSUME NEW test \in agg.test
         PROVE  TestHolds(HonestBundle, result.traces, agg, test)
    <2> DEFINE pairs == RowPairs(field, Arm(rows, baseline), Arm(rows, c.id))
    <2>1. test = McNemar(pairs, baseline) /\ test.effective_n >= InconclusiveMinN
      BY <1>8
    <2>2. test.vs = baseline /\ test.status = TestStatus(test.effective_n) /\ test.effective_n \in Int
      <3>1. IsFiniteSet(Arm(rows, baseline))
        BY <1>3, FlagsAreRows
      <3>2. IsFiniteSet(DOMAIN pairs)
        BY <3>1, PairsAreFinite
      <3> HIDE DEF pairs
      <3> QED BY <2>1, <3>2, McNemarIsCounted
    <2>3. test.status # "inconclusive"
      BY <2>1, <2>2, MinimumAssumption DEF TestStatus
    <2>4. RecomputeTest(rows, field, test.vs, agg.condition, "matched_pairs") = test
      <3>1. RecomputeTest(rows, field, baseline, c.id, "matched_pairs") = McNemar(pairs, baseline)
        BY ServerTests
      <3> HIDE DEF pairs, rows, field
      <3> QED BY <1>2, <2>1, <2>2, <3>1
    <2>5. TestHolds(HonestBundle, result.traces, agg, test) <=>
            LET made == RecomputeTest(rows, field, test.vs, agg.condition, "matched_pairs")
            IN  made.status # "inconclusive" /\ test = made
      BY <1>2 DEF TestHolds
    <2> HIDE DEF rows, field
    <2> QED BY <2>3, <2>4, <2>5
  <1> HIDE DEF metric, field, again, s, n
  <1> QED BY <1>2, <1>3, <1>6, <1>7, <1>9, <1>10 DEF again, field

----------------------------------------------------------------------------
(* A number, as a suite estimated it, is what the server estimates again.  *)

ValuesOf(values) == {values[t] : t \in DOMAIN values}
EstimateOf(fn, total, count, range) ==
    CASE fn = "mean" -> <<total, count>>
      [] fn = "sum"  -> <<total, 1>>
      [] fn = "min"  -> <<Min(range), 1>>
      [] fn = "max"  -> <<Max(range), 1>>

LEMMA NumericIs ==
  ASSUME NEW metric, NEW cid, NEW values, NEW fn
  PROVE  NumericAggregate(metric, cid, values, fn) =
            [metric |-> metric, condition |-> cid, estimator |-> fn, n |-> Cardinality(DOMAIN values),
             estimate |-> EstimateOf(fn, SumOf(values), Cardinality(DOMAIN values), ValuesOf(values)),
             interval |-> <<"none", Min(ValuesOf(values)), Max(ValuesOf(values))>>,
             design |-> {}, test |-> {}]
  <1>1. Estimated(fn, values) =
            EstimateOf(fn, SumOf(values), Cardinality(DOMAIN values), ValuesOf(values))
    BY Zenon DEF Estimated, EstimateOf, SumOf, ValuesOf
  <1> QED BY <1>1, Zenon DEF NumericAggregate, ValuesOf

LEMMA NumbersUnderBijection ==
  ASSUME NEW S, NEW T, IsFiniteSet(S), NEW v \in [S -> Int], NEW w \in [T -> Int],
         NEW h \in Bijection(S, T), \A x \in S : v[x] = w[h[x]], NEW metric, NEW cid, NEW fn
  PROVE  NumericAggregate(metric, cid, v, fn) = NumericAggregate(metric, cid, w, fn)
  <1>1. DOMAIN v = S /\ DOMAIN w = T
    OBVIOUS
  <1>2. Cardinality(DOMAIN v) = Cardinality(DOMAIN w)
    BY <1>1, SameSize
  <1>3. SumOf(v) = SumOf(w)
    BY SumUnderBijection
  <1>4. ValuesOf(v) = ValuesOf(w)
    <2>1. h \in [S -> T] /\ \A y \in T : \E x \in S : h[x] = y
      BY DEF Bijection, Injection, Surjection
    <2>2. \A y : y \in ValuesOf(v) <=> y \in ValuesOf(w)
      BY <1>1, <2>1 DEF ValuesOf
    <2> QED BY <2>2
  <1> QED BY <1>2, <1>3, <1>4, NumericIs

(* the numbers an aggregate of a suite is made from *)
NumbersAt(metric, cid, trials) ==
    {t \in trials : t.condition = cid /\ metric \in DOMAIN t.metrics /\ IsNum(t.metrics[metric])}
NumbersOf(metric, cid, trials) == [t \in NumbersAt(metric, cid, trials) |-> t.metrics[metric].v]

LEMMA NumberIs ==
  ASSUME NEW spec, spec.fn # "rate", NEW c, NEW trials, NEW baseline,
         NEW agg \in AggregateOf(spec, c, trials, baseline)
  PROVE  /\ spec.fn \in Estimators /\ NumbersAt(spec.metric, c.id, trials) # {}
         /\ agg = NumericAggregate(spec.metric, c.id, NumbersOf(spec.metric, c.id, trials), spec.fn)
  BY Zenon DEF AggregateOf, NumbersAt, NumbersOf

LEMMA ReportedAreNumbers ==
  ASSUME HonestRun, NEW metric, NEW cid
  PROVE  LET S == DOMAIN ReportedValues(HonestBundle, metric, cid)
             T == NumbersAt(metric, cid, Done(Trials))
         IN  /\ IsFiniteSet(S)
             /\ ReportedValues(HonestBundle, metric, cid) \in [S -> Int]
             /\ NumbersOf(metric, cid, Done(Trials)) \in [T -> Int]
             /\ \E h \in Bijection(S, T) : \A i \in S :
                    ReportedValues(HonestBundle, metric, cid)[i] = NumbersOf(metric, cid, Done(Trials))[h[i]]
  <1> DEFINE n == Len(Plan)
             of(i) == result.trials[i]
             S == {i \in 1 .. n : /\ of(i).status = "completed" /\ of(i).condition = cid
                                  /\ metric \in DOMAIN of(i).metrics /\ IsNum(of(i).metrics[metric])}
             T == NumbersAt(metric, cid, Done(Trials))
             v == [i \in S |-> of(i).metrics[metric].v]
             w == NumbersOf(metric, cid, Done(Trials))
             h == [i \in S |-> of(i)]
  <1>1. ReportedValues(HonestBundle, metric, cid) = v
    <2>1. HonestBundle.trials = result.trials /\ DOMAIN result.trials = 1 .. n
      BY BundleIs, TrialsArePlanned
    <2> QED BY <2>1 DEF ReportedValues
  <1>2. \A t : t \in T <=> \E i \in S : t = of(i)
    BY TrialsArePlanned DEF NumbersAt, Done
  <1>3. \A i \in S : of(i).metrics[metric].v \in Int
    <2> SUFFICES ASSUME NEW i \in S
                 PROVE  of(i).metrics[metric].v \in Int
      OBVIOUS
    <2>1. Numbers(of(i).metrics)
      BY TrialsArePlanned DEF Planned, Evidenced, Judged
    <2> QED BY <2>1 DEF Numbers
  <1>4. \A i, j \in S : of(i) = of(j) => i = j
    BY TrialsAreApart
  <1>5. IsFiniteSet(S)
    <2>1. S \in SUBSET (1 .. n) /\ n \in Nat
      BY TrialsArePlanned
    <2> HIDE DEF S, n
    <2>2. IsFiniteSet(1 .. n)
      BY <2>1, FS_Interval
    <2> QED BY <2>1, <2>2, FS_Subset
  <1>6. w = [t \in T |-> t.metrics[metric].v]
    BY DEF NumbersOf
  <1> HIDE DEF S, T, w
  <1>7. v \in [S -> Int] /\ w \in [T -> Int] /\ DOMAIN v = S
    BY <1>2, <1>3, <1>6
  <1>8. h \in Bijection(S, T)
    BY <1>2, <1>4 DEF Bijection, Injection, Surjection, IsInjective
  <1>9. \A i \in S : v[i] = w[h[i]]
    BY <1>2, <1>6
  <1> HIDE DEF v, h
  <1>10. /\ IsFiniteSet(DOMAIN v) /\ v \in [DOMAIN v -> Int] /\ w \in [T -> Int]
         /\ \E g \in Bijection(DOMAIN v, T) : \A i \in DOMAIN v : v[i] = w[g[i]]
    BY <1>5, <1>7, <1>8, <1>9
  <1> QED BY <1>1, <1>10 DEF T, w

(* of the numbers of one arm and metric, all have one estimator *)
LEMMA OneEstimatorEach ==
  ASSUME HonestRun, NEW spec \in resolved.aggregations, spec.fn \in Estimators,
         NEW agg \in HonestBundle.aggregates, agg.metric = spec.metric, agg.estimator = spec.fn
  PROVE  Reapplied(HonestBundle, agg) = spec.fn
  <1> DEFINE P(a) == a.metric = agg.metric /\ a.condition = agg.condition /\ a.estimator \in Estimators
             a == CHOOSE x \in HonestBundle.aggregates : P(x)
  <1>1. a \in HonestBundle.aggregates /\ P(a)
    OBVIOUS
  <1>2. Reapplied(HonestBundle, agg) = a.estimator
    BY Zenon DEF Reapplied
  <1> HIDE DEF a
  <1>3. a \in SuiteTotals(resolved.aggregations, result.trials, result.conditions)
    BY <1>1, BundleIs, TotalsAre DEF HonestRun, TotalsAreOfTheRun
  <1>4. PICK other \in resolved.aggregations, c \in Range(result.conditions) :
            a \in AggregateOf(other, c, Done(Range(result.trials)), Baseline(result.conditions))
    BY <1>3 DEF SuiteTotals
  <1>5. CASE other.fn = "rate"
    <2>1. a.estimator = "rate"
      BY <1>4, <1>5, RateIs DEF BinaryAggregate
    <2> QED BY <1>1, <2>1 DEF Estimators
  <1>6. CASE other.fn # "rate"
    <2>1. a.estimator = other.fn /\ a.metric = other.metric /\ other.fn \in Estimators
      BY <1>4, <1>6, NumberIs, NumericIs
    <2>2. other.metric = spec.metric
      BY <1>1, <2>1
    <2>3. other.fn = spec.fn
      BY <2>1, <2>2 DEF HonestRun, Publishable
    <2> QED BY <1>2, <2>1, <2>3
  <1> QED BY <1>5, <1>6

----------------------------------------------------------------------------
(* Every number of the bundle is found again; and along a behaviour a      *)
(* package nobody changed is still the bundle of its run.                  *)

LEMMA ReportedAggregateHolds ==
  ASSUME HonestRun, NEW spec \in resolved.aggregations, spec.fn # "rate", NEW c \in Range(arms),
         NEW baseline, NEW agg \in AggregateOf(spec, c, Done(Trials), baseline),
         agg \in HonestBundle.aggregates
  PROVE  Derived(agg.metric) = None /\ ReportedHolds(HonestBundle, agg)
  <1> DEFINE metric == spec.metric
             values == NumbersOf(metric, c.id, Done(Trials))
             reported == ReportedValues(HonestBundle, metric, c.id)
             at == NumbersAt(metric, c.id, Done(Trials))
  <1>1. spec.fn \in Estimators /\ at # {} /\ agg = NumericAggregate(metric, c.id, values, spec.fn)
    BY NumberIs
  <1>2. /\ agg.metric = metric /\ agg.condition = c.id /\ agg.estimator = spec.fn /\ agg.test = {}
    <2> HIDE DEF metric, values
    <2> QED BY <1>1, NumericIs
  <1>3. Derived(metric) = None
    <2>1. metric \notin {"utility", "task_success_rate"}
      BY DEF HonestRun, Publishable
    <2>2. metric \notin {"ASR", "task_success"}
      <3> SUFFICES ASSUME metric \in {"ASR", "task_success"}
                   PROVE  FALSE
        OBVIOUS
      <3>1. PICK t \in Done(Trials) : metric \in DOMAIN t.metrics /\ IsNum(t.metrics[metric])
        BY <1>1 DEF NumbersAt
      <3>2. PICK i \in 1 .. Len(Plan) : t = result.trials[i] /\ t.status = "completed"
        BY TrialsArePlanned DEF Done
      <3>3. Judged(t.metrics, ScenarioOf(Plan[i]), t.ref)
        BY <3>2, TrialsArePlanned DEF Planned, Evidenced
      <3>4. t.metrics[metric] = Flag(Evaluate(Derived(metric), t.ref))
        BY <3>1, <3>3 DEF Judged
      <3>5. \A x : ~IsNum(Flag(x))
        BY DEF Flag, IsNum
      <3> HIDE DEF metric
      <3> QED BY <3>1, <3>4, <3>5
    <2> HIDE DEF metric
    <2> QED BY <2>1, <2>2 DEF Derived
  <1>4. /\ IsFiniteSet(DOMAIN reported) /\ reported \in [DOMAIN reported -> Int] /\ values \in [at -> Int]
        /\ \E h \in Bijection(DOMAIN reported, at) : \A i \in DOMAIN reported : reported[i] = values[h[i]]
    BY ReportedAreNumbers
  <1>5. PICK h \in Bijection(DOMAIN reported, at) : \A i \in DOMAIN reported : reported[i] = values[h[i]]
    BY <1>4
  <1>6. DOMAIN reported # {}
    <2>1. \A y \in at : \E x \in DOMAIN reported : h[x] = y
      BY <1>5 DEF Bijection, Surjection
    <2> HIDE DEF at, reported
    <2> QED BY <1>1, <2>1
  <1>7. NumericAggregate(metric, c.id, reported, spec.fn) = agg
    <2> HIDE DEF reported, values, at, metric
    <2>1. NumericAggregate(metric, c.id, reported, spec.fn) = NumericAggregate(metric, c.id, values, spec.fn)
      BY <1>4, <1>5, NumbersUnderBijection
    <2> QED BY <1>1, <2>1
  <1>8. Reapplied(HonestBundle, agg) = spec.fn
    BY <1>1, <1>2, OneEstimatorEach
  <1>9. ReportedHolds(HonestBundle, agg) <=>
            LET seen == ReportedValues(HonestBundle, agg.metric, agg.condition)
                again == NumericAggregate(agg.metric, agg.condition, seen, Reapplied(HonestBundle, agg))
            IN  /\ agg.test = {} /\ DOMAIN seen # {}
                /\ agg.estimator # None =>
                        /\ agg.estimator \in Estimators
                        /\ agg.n = again.n /\ agg.estimate = again.estimate
                        /\ agg.interval[1] = again.interval[1] => agg.interval = again.interval
    BY Zenon DEF ReportedHolds
  <1>10. ReportedValues(HonestBundle, agg.metric, agg.condition) = reported
    BY <1>2
  <1> HIDE DEF reported, metric
  <1>11. NumericAggregate(agg.metric, agg.condition, reported, Reapplied(HonestBundle, agg)) = agg
    BY <1>2, <1>7, <1>8
  <1>12. ReportedHolds(HonestBundle, agg)
    BY ONLY <1>1, <1>2, <1>6, <1>9, <1>10, <1>11
  <1> QED BY <1>2, <1>3, <1>12

LEMMA HonestAggregatesHold ==
  ASSUME HonestRun
  PROVE  AggregatesHold(HonestBundle, result.traces)
  <1> SUFFICES ASSUME NEW agg \in HonestBundle.aggregates
               PROVE  IF Derived(agg.metric) = None THEN ReportedHolds(HonestBundle, agg)
                      ELSE LET again == RecomputeAggregate(HonestBundle, result.traces, agg)
                           IN  /\ again.n > 0 /\ agg.n = again.n /\ agg.estimate = again.estimate
                               /\ agg.interval = again.interval
                               /\ PairingIsProven(HonestBundle, agg)
                               /\ \A test \in agg.test : TestHolds(HonestBundle, result.traces, agg, test)
    BY DEF AggregatesHold
  <1>1. agg \in SuiteTotals(resolved.aggregations, result.trials, result.conditions)
    BY BundleIs, TotalsAre DEF HonestRun, TotalsAreOfTheRun
  <1>2. PICK spec \in resolved.aggregations, c \in Range(result.conditions) :
            agg \in AggregateOf(spec, c, Done(Range(result.trials)), Baseline(result.conditions))
    BY <1>1 DEF SuiteTotals
  <1>3. c \in Range(arms) /\ agg \in AggregateOf(spec, c, Done(Trials), Baseline(result.conditions))
    BY <1>2, TrialsArePlanned DEF Trials
  <1>4. CASE spec.fn = "rate"
    BY <1>3, <1>4, DerivedAggregateHolds
  <1>5. CASE spec.fn # "rate"
    BY <1>3, <1>5, ReportedAggregateHolds
  <1> QED BY <1>4, <1>5

-----------------------------------------------------------------------------
(* Along a behaviour a package nobody changed is the bundle of its run. *)
HonestPackage ==
    phase = "packaged" =>
        /\ {"bundle", "traces", "changed"} \subseteq DOMAIN package
        /\ ~package.changed => package.bundle = HonestBundle /\ package.traces = result.traces

LEMMA DoctoredIsMarked ==
  ASSUME NEW p, {"bundle", "traces", "changed"} \subseteq DOMAIN p, NEW q \in Doctored(p)
  PROVE  {"bundle", "traces", "changed"} \subseteq DOMAIN q
  <1> DEFINE Good(x) == {"bundle", "traces", "changed"} \subseteq DOMAIN x
  <1>1. \A x : Rebundled(p, x) => Good(x)
    BY DEF Rebundled
  <1>2. CASE q \in TrialLost(p) \cup TrialFaked(p) \cup MarkerRaised(p)
    <2>1. \E seq : q = WithTrials(p, seq)
      <3>1. CASE q \in TrialLost(p)
        BY <3>1 DEF TrialLost
      <3>2. CASE q \in TrialFaked(p)
        BY <3>2 DEF TrialFaked
      <3>3. CASE q \in MarkerRaised(p)
        BY <3>3 DEF MarkerRaised
      <3> QED BY <1>2, <3>1, <3>2, <3>3
    <2> QED BY <1>1, <2>1, RebundledFacts DEF WithTrials
  <1>3. CASE q \in ArmsSwapped(p)
    <2>1. PICK i \in CompletedAt(p.bundle), j \in CompletedAt(p.bundle) :
            q = [WithTrials(p, Exchanged(p.bundle.trials, i, j)) EXCEPT !.bundle.aggregates =
                    Relabelled(@, p.bundle.trials[i].condition, p.bundle.trials[j].condition)]
      BY <1>3 DEF ArmsSwapped
    <2> DEFINE r == WithTrials(p, Exchanged(p.bundle.trials, i, j))
               w == Relabelled(r.bundle.aggregates, p.bundle.trials[i].condition,
                               p.bundle.trials[j].condition)
    <2>2. q = [r EXCEPT !.bundle.aggregates = w]
      BY <2>1
    <2>3. Good(r)
      BY <1>1, RebundledFacts DEF WithTrials
    <2> HIDE DEF r, w
    <2>4. Rebundled(r, q)
      BY <2>2, RebundledFacts
    <2> QED BY <2>3, <2>4 DEF Rebundled
  <1>4. CASE q \in TraceLost(p) \cup TraceForged(p)
    <2>0. \A v : DOMAIN [p EXCEPT !.traces = v] = DOMAIN p
      OBVIOUS
    <2>1. \E v : q = [p EXCEPT !.traces = v]
      <3>1. CASE q \in TraceLost(p)
        BY <3>1 DEF TraceLost
      <3>2. CASE q \in TraceForged(p)
        BY <3>2 DEF TraceForged
      <3> QED BY <1>4, <3>1, <3>2
    <2>2. DOMAIN q = DOMAIN p
      BY <2>0, <2>1
    <2> QED BY <2>2
  <1>5. CASE q \in CountRaised(p) \cup RateCleared(p)
    BY <1>1, <1>5, RebundledFacts DEF CountRaised, RateCleared
  <1>6. CASE q \in ProviderClaimed(p) \cup ProvenanceClaimed(p)
    BY <1>1, <1>6, RebundledFacts DEF ProviderClaimed, ProvenanceClaimed
  <1> QED BY <1>2, <1>3, <1>4, <1>5, <1>6 DEF Doctored

LEMMA PackageStart == Init => HonestPackage
  BY DEF Init, HonestPackage

LEMMA PackageStep ==
  ASSUME HonestPackage, [Next]_vars
  PROVE  HonestPackage'
  <1>1. UNCHANGED <<manifest, lane>>
    BY SubmissionIsKept
  <1>2. resolved' = resolved /\ Environment' = Environment
    BY <1>1, SameSubmission
  <1>3. CASE phase' # "packaged"
    BY <1>3 DEF HonestPackage
  <1>4. CASE MakeBundle
    <2>1. /\ package' = [bundle |-> HonestBundle, traces |-> result.traces, changed |-> FALSE]
          /\ UNCHANGED result
      BY <1>4 DEF MakeBundle, HonestBundle
    <2>2. HonestBundle' = HonestBundle
      BY <1>2, <2>1 DEF HonestBundle
    <2> QED BY <2>1, <2>2 DEF HonestPackage
  <1>5. CASE Change
    <2>1. PICK p \in Doctored(package) : package' = [p EXCEPT !.changed = TRUE]
      BY <1>5 DEF Change
    <2>2. {"bundle", "traces", "changed"} \subseteq DOMAIN p
      BY <1>5, DoctoredIsMarked DEF Change, HonestPackage
    <2>3. {"bundle", "traces", "changed"} \subseteq DOMAIN package' /\ package'.changed
      BY <2>1, <2>2
    <2> QED BY <2>3 DEF HonestPackage
  <1>6. CASE SealAgain
    <2>1. /\ \E v : package' = [package EXCEPT !.bundle = v]
          /\ phase = "packaged" /\ package.changed
      BY <1>6 DEF SealAgain
    <2>2. {"bundle", "traces", "changed"} \subseteq DOMAIN package' /\ package'.changed
      BY <2>1 DEF HonestPackage
    <2> QED BY <2>2 DEF HonestPackage
  <1>7. CASE UNCHANGED <<result, package, phase>>
    <2>1. HonestBundle' = HonestBundle
      BY <1>2, <1>7 DEF HonestBundle
    <2> QED BY <1>7, <2>1 DEF HonestPackage
  <1>8. CASE Submit \/ RunUnit \/ Collect \/ RunRaises \/ Conclude
    <2>1. phase' # "packaged"
      BY <1>8, RunUnitIs, CollectIs DEF Submit, RunRaises, Conclude
    <2> QED BY <1>3, <2>1
  <1>9. CASE Runtime
    BY <1>7, <1>9 DEF Runtime, Restart, CompleteTrial
  <1> QED BY <1>4, <1>5, <1>6, <1>7, <1>8, <1>9 DEF Next, vars

LEMMA UntouchedIsAccepted ==
  ASSUME RunInv, EvidenceFits, TotalsAreOfTheRun, HonestPackage
  PROVE  HonestIsAccepted
  <1> SUFFICES ASSUME phase = "packaged", ~package.changed, lane # "experiment", Publishable
               PROVE  Accepted
    BY DEF HonestIsAccepted
  <1>1. HonestRun
    BY DEF HonestRun, Ran
  <1>2. package.bundle = HonestBundle /\ package.traces = result.traces
    BY DEF HonestPackage
  <1>3. VerifyBundle(HonestBundle, result.traces) /\ AggregatesHold(HonestBundle, result.traces)
    BY <1>1, HonestIsVerified, HonestAggregatesHold
  <1> QED BY <1>2, <1>3 DEF Accepted

(* An untouched bundle of a publishable run is accepted: what a suite      *)
(* counted over its trials, the server finds again over the traces, number *)
(* by number and test by test -- for any submission, behaviour, measurement *)
(* and number of attempts (bundle.py verify_bundle, recompute.py).         *)
THEOREM HonestIsAlwaysAccepted == Spec => []HonestIsAccepted
  <1> DEFINE Inv == RunInv /\ ReportsFit /\ EvidenceFits /\ TotalsAreOfTheRun /\ HonestPackage
  <1>1. Init => Inv
    BY RunStart, ReportsStart, EvidenceFitsStart, TotalsStart, PackageStart
  <1>2. Inv /\ [Next]_vars => Inv'
    BY RunStep, ReportsStep, EvidenceFitsStep, TotalsStep, PackageStep
  <1>3. Inv => HonestIsAccepted
    BY UntouchedIsAccepted
  <1> HIDE DEF Inv
  <1> QED BY <1>1, <1>2, <1>3, PTL DEF Spec
=============================================================================
