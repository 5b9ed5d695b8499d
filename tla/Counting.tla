------------------------------ MODULE Counting ------------------------------
(***************************************************************************)
(* How often a value occurs in a sequence.                                 *)
(***************************************************************************)
EXTENDS Integers, Sequences, FiniteSets, TLAPS
LOCAL INSTANCE FiniteSetTheorems

Occurrences(s, x) == Cardinality({i \in DOMAIN s : s[i] = x})

\* A sequence is finite, so the occurrences can be counted.
LEMMA OccurrencesType ==
    ASSUME NEW S, NEW s \in Seq(S), NEW x
    PROVE  /\ Occurrences(s, x) \in Nat
           /\ IsFiniteSet({i \in DOMAIN s : s[i] = x})
<1>1. DOMAIN s = 1 .. Len(s) /\ Len(s) \in Nat
    OBVIOUS
<1>2. IsFiniteSet(1 .. Len(s))
    BY <1>1, FS_Interval
<1>3. {i \in DOMAIN s : s[i] = x} \subseteq 1 .. Len(s)
    BY <1>1
<1>4. IsFiniteSet({i \in DOMAIN s : s[i] = x})
    BY <1>2, <1>3, FS_Subset
<1>. QED BY <1>4, FS_CardinalityType DEF Occurrences

\* Nothing occurs in the empty sequence.
LEMMA OccurrencesOfEmpty ==
    ASSUME NEW x
    PROVE  Occurrences(<<>>, x) = 0
<1>1. {i \in DOMAIN <<>> : <<>>[i] = x} = {}
    OBVIOUS
<1>. QED BY <1>1, FS_EmptySet DEF Occurrences

\* Append adds one occurrence of its element and none of another.
LEMMA OccurrencesOfAppend ==
    ASSUME NEW S, NEW s \in Seq(S), NEW y \in S, NEW x
    PROVE  Occurrences(Append(s, y), x) =
             IF y = x THEN Occurrences(s, x) + 1 ELSE Occurrences(s, x)
<1>. DEFINE t == Append(s, y)
            at(q) == {i \in DOMAIN q : q[i] = x}
            n == Len(s)
<1>1. /\ n \in Nat /\ DOMAIN s = 1 .. n /\ DOMAIN t = 1 .. n + 1
      /\ \A i \in 1 .. n : t[i] = s[i]
      /\ t[n + 1] = y
    OBVIOUS
<1>2. CASE y = x
  <2>1. at(t) = at(s) \cup {n + 1}
    BY <1>1, <1>2
  <2>2. n + 1 \notin at(s)
    BY <1>1
  <2>3. IsFiniteSet(at(s))
    BY Zenon, OccurrencesType
  <2>4. Cardinality(at(s) \cup {n + 1}) = Cardinality(at(s)) + 1
    BY Zenon, <2>2, <2>3, FS_AddElement
  <2>. QED BY Zenon, <1>2, <2>1, <2>4 DEF Occurrences
<1>3. CASE y # x
  <2>1. at(t) = at(s)
    BY <1>1, <1>3
  <2>. QED BY Zenon, <1>3, <2>1 DEF Occurrences
<1>. QED BY <1>2, <1>3

\* Tail takes away one occurrence of the head and none of another element.
LEMMA OccurrencesOfTail ==
    ASSUME NEW S, NEW s \in Seq(S), s # <<>>, NEW x
    PROVE  Occurrences(s, x) =
             IF Head(s) = x THEN Occurrences(Tail(s), x) + 1
             ELSE Occurrences(Tail(s), x)
<1>. DEFINE t == Tail(s)
            at(q) == {i \in DOMAIN q : q[i] = x}
            n == Len(s)
            later == {i \in at(s) : i # 1}
<1>1. /\ n \in Nat \ {0} /\ DOMAIN s = 1 .. n /\ DOMAIN t = 1 .. n - 1
      /\ \A i \in 1 .. n - 1 : t[i] = s[i + 1]
      /\ Head(s) = s[1] /\ t \in Seq(S)
    OBVIOUS
<1>2. IsFiniteSet(at(s)) /\ IsFiniteSet(at(t))
    BY Zenon, <1>1, OccurrencesType
<1>3. Cardinality(later) = Cardinality(at(t))
  <2>. DEFINE f == [i \in at(t) |-> i + 1]
  <2>1. f \in Bijection(at(t), later)
    <3>1. f \in [at(t) -> later]
        BY <1>1
    <3>2. \A i, j \in at(t) : f[i] = f[j] => i = j
        BY <1>1
    <3>3. ASSUME NEW k \in later PROVE \E i \in at(t) : f[i] = k
      <4>1. k - 1 \in 1 .. n - 1 /\ (k - 1) + 1 = k
        BY <1>1
      <4>2. k - 1 \in at(t)
        BY <1>1, <4>1
      <4>. QED BY <4>1, <4>2
    <3>. QED BY <3>1, <3>2, <3>3 DEF Bijection, Injection, Surjection, IsInjective
  <2>2. ExistsBijection(at(t), later)
    BY <2>1 DEF ExistsBijection
  <2>. QED BY Zenon, <1>2, <2>2, FS_Bijection
<1>4. CASE Head(s) = x
  <2>1. at(s) = later \cup {1} /\ 1 \notin later
    BY <1>1, <1>4
  <2>2. IsFiniteSet(later)
    BY <1>2, FS_Subset
  <2>3. Cardinality(later \cup {1}) = Cardinality(later) + 1
    BY Zenon, <2>1, <2>2, FS_AddElement
  <2>. QED BY Zenon, <1>3, <1>4, <2>1, <2>3 DEF Occurrences
<1>5. CASE Head(s) # x
  <2>1. at(s) = later
    BY <1>1, <1>5
  <2>. QED BY Zenon, <1>3, <1>5, <2>1 DEF Occurrences
<1>. QED BY <1>4, <1>5

\* What is somewhere in a sequence occurs in it.
LEMMA OccurrencesOfElement ==
    ASSUME NEW S, NEW s \in Seq(S), NEW i \in DOMAIN s
    PROVE  Occurrences(s, s[i]) > 0
<1>1. /\ {j \in DOMAIN s : s[j] = s[i]} # {}
      /\ IsFiniteSet({j \in DOMAIN s : s[j] = s[i]})
      /\ Occurrences(s, s[i]) \in Nat
    BY OccurrencesType
<1>2. Occurrences(s, s[i]) # 0
    BY <1>1, FS_EmptySet DEF Occurrences
<1>. QED BY <1>1, <1>2
=============================================================================
