---------------------------- MODULE ListProofs ----------------------------
(***************************************************************************)
(* What Without returns, for every list: the elements that are not gone,   *)
(* and nothing else; and what it and the other operators on lists keep of  *)
(* a list whose elements are all different.                                *)
(*                                                                         *)
(* The library states induction with an operator as a parameter.  Here it  *)
(* is a lemma about a set of numbers, from the theorem that every set of   *)
(* natural numbers has a least element.                                    *)
(***************************************************************************)
EXTENDS Lists, SequencesExt, TLAPS, WellFoundedInduction, SequenceTheorems, FiniteSetTheorems

\* A set with 0 that is closed under successor has every natural number.
LEMMA Induction ==
    ASSUME NEW T, 0 \in T, \A n \in Nat : n \in T => n + 1 \in T
    PROVE  Nat \subseteq T
<1> DEFINE rest == Nat \ T
           less == {ss \in Nat \X Nat : ss[1] < ss[2]}
<1> SUFFICES ASSUME rest # {} PROVE FALSE
  OBVIOUS
<1>1. PICK x \in rest : \A y \in rest : ~ (<<y, x>> \in less)
  <2>1. IsWellFoundedOn(less, Nat)
    BY NatLessThanWellFounded DEF OpToRel
  <2>2. rest \subseteq Nat
    OBVIOUS
  <2> HIDE DEF rest, less
  <2> QED BY <2>1, <2>2, WFMin
<1>2. x \in Nat /\ x # 0 /\ x - 1 \in Nat
  OBVIOUS
<1>3. x - 1 \in rest
  BY <1>2
<1>4. <<x - 1, x>> \in less
  BY <1>2
<1> QED BY <1>1, <1>3, <1>4

\* The equation of the recursive function, up to n.
KeptStep(f, list, gone, i) ==
    IF i = 0 THEN <<>>
    ELSE IF list[i] \in gone THEN f[i - 1]
    ELSE Append(f[i - 1], list[i])

IsKept(f, list, gone, n) == f = [i \in 0..n |-> KeptStep(f, list, gone, i)]

\* The equation has a solution, for each length.
LEMMA KeptExists ==
    ASSUME NEW list, NEW gone
    PROVE  \A n \in Nat : \E f : IsKept(f, list, gone, n)
<1> DEFINE T == {n \in Nat : \E f : IsKept(f, list, gone, n)}
<1>1. 0 \in T
  <2> DEFINE f == [i \in 0..0 |-> <<>>]
  <2>1. IsKept(f, list, gone, 0)
    BY DEF IsKept, KeptStep
  <2> QED BY <2>1
<1>2. ASSUME NEW n \in Nat, n \in T
      PROVE  n + 1 \in T
  <2>1. PICK f : IsKept(f, list, gone, n)
    BY <1>2
  <2> DEFINE g == [i \in 0..(n + 1) |-> IF i = n + 1 THEN KeptStep(f, list, gone, i) ELSE f[i]]
  <2>2. ASSUME NEW i \in 0..(n + 1)
        PROVE  g[i] = KeptStep(g, list, gone, i)
    <3>1. i # 0 => i - 1 \in 0..n
      OBVIOUS
    <3>2. i # 0 => g[i - 1] = f[i - 1]
      BY <3>1
    <3>3. KeptStep(g, list, gone, i) = KeptStep(f, list, gone, i)
      BY <3>2 DEF KeptStep
    <3>4. CASE i = n + 1
      BY <3>3, <3>4
    <3>5. CASE i # n + 1
      <4>1. i \in 0..n
        BY <3>5
      <4>2. f[i] = KeptStep(f, list, gone, i)
        BY <2>1, <4>1 DEF IsKept
      <4> QED BY <3>3, <3>5, <4>2
    <3> QED BY <3>4, <3>5
  <2>3. IsKept(g, list, gone, n + 1)
    BY <2>2 DEF IsKept
  <2> QED BY <2>3
<1> HIDE DEF T
<1>3. Nat \subseteq T
  BY <1>1, <1>2, Induction
<1> QED BY <1>3 DEF T

\* Without is the last value of such a solution.
LEMMA WithoutDef ==
    ASSUME NEW S, NEW list \in Seq(S), NEW gone
    PROVE  \E f : /\ IsKept(f, list, gone, Len(list))
                  /\ Without(list, gone) = f[Len(list)]
<1> DEFINE f == CHOOSE f : IsKept(f, list, gone, Len(list))
<1>1. IsKept(f, list, gone, Len(list))
  <2>1. Len(list) \in Nat
    OBVIOUS
  <2> QED BY <2>1, KeptExists
<1>2. Without(list, gone) = f[Len(list)]
  BY DEF Without, IsKept, KeptStep
<1> QED BY <1>1, <1>2

\* Appending adds one element to what a list holds.
LEMMA AppendMembers ==
    ASSUME NEW S, NEW s \in Seq(S), NEW x \in S
    PROVE  ToSet(Append(s, x)) = ToSet(s) \cup {x}
<1> DEFINE t == Append(s, x)
<1>1. /\ DOMAIN s = 1..Len(s) /\ DOMAIN t = 1..(Len(s) + 1)
      /\ Len(s) \in Nat /\ t[Len(s) + 1] = x /\ \A i \in 1..Len(s) : t[i] = s[i]
  BY AppendProperties
<1> HIDE DEF t
<1>2. ASSUME NEW y \in ToSet(t) PROVE y \in ToSet(s) \cup {x}
  BY <1>1, <1>2 DEF ToSet
<1>3. ASSUME NEW y \in ToSet(s) PROVE y \in ToSet(t)
  BY <1>1, <1>3 DEF ToSet
<1>4. x \in ToSet(t)
  BY <1>1 DEF ToSet
<1> QED BY <1>2, <1>3, <1>4 DEF t

\* Without yields a list of the same kind that holds exactly what is not gone.
THEOREM WithoutHolds ==
    ASSUME NEW S, NEW list \in Seq(S), NEW gone
    PROVE  /\ Without(list, gone) \in Seq(S)
           /\ ToSet(Without(list, gone)) = ToSet(list) \ gone
<1>1. PICK f : /\ IsKept(f, list, gone, Len(list))
               /\ Without(list, gone) = f[Len(list)]
  BY WithoutDef
<1> DEFINE first(n) == {list[i] : i \in 1..n}
           P(n) == f[n] \in Seq(S) /\ ToSet(f[n]) = first(n) \ gone
           T == {n \in Nat : n <= Len(list) => P(n)}
<1>2. 0 \in T
  <2>1. f[0] = <<>>
    BY <1>1 DEF IsKept, KeptStep
  <2>2. ToSet(<<>>) = {} /\ first(0) = {} /\ <<>> \in Seq(S)
    BY DEF ToSet
  <2>3. P(0)
    BY <2>1, <2>2
  <2> HIDE DEF P
  <2> QED BY <2>3
<1>3. ASSUME NEW n \in Nat, n \in T
      PROVE  n + 1 \in T
  <2> SUFFICES ASSUME n + 1 <= Len(list) PROVE P(n + 1)
    OBVIOUS
  <2>1. P(n) /\ n + 1 \in 0..Len(list) /\ n + 1 # 0 /\ (n + 1) - 1 = n
    BY <1>3
  <2>2. f[n + 1] = KeptStep(f, list, gone, n + 1)
    BY <1>1, <2>1 DEF IsKept
  <2>3. list[n + 1] \in S
    BY <2>1
  <2>4. first(n + 1) = first(n) \cup {list[n + 1]}
    BY <2>1
  <2>5. CASE list[n + 1] \in gone
    <3>1. f[n + 1] = f[n]
      BY <2>1, <2>2, <2>5 DEF KeptStep
    <3> QED BY <2>1, <2>4, <2>5, <3>1
  <2>6. CASE list[n + 1] \notin gone
    <3>1. f[n + 1] = Append(f[n], list[n + 1])
      BY <2>1, <2>2, <2>6 DEF KeptStep
    <3>2. f[n + 1] \in Seq(S)
      BY <2>1, <2>3, <3>1
    <3>3. ToSet(f[n + 1]) = ToSet(f[n]) \cup {list[n + 1]}
      BY <2>1, <2>3, <3>1, AppendMembers
    <3> HIDE DEF first
    <3> QED BY <2>1, <2>4, <2>6, <3>2, <3>3
  <2> QED BY <2>5, <2>6
<1> HIDE DEF T
<1>4. Nat \subseteq T
  BY <1>2, <1>3, Induction
<1>5. Len(list) \in Nat /\ Len(list) \in T
  BY <1>4
<1>6. P(Len(list))
  BY <1>5 DEF T
<1>7. first(Len(list)) = ToSet(list)
  BY DEF ToSet
<1> QED BY <1>1, <1>6, <1>7

\* Appending what a list does not hold keeps its elements apart.
LEMMA AppendApart ==
    ASSUME NEW S, NEW s \in Seq(S), NEW x \in S, IsInjective(s), x \notin ToSet(s)
    PROVE  IsInjective(Append(s, x))
<1> DEFINE t == Append(s, x)
<1>1. /\ DOMAIN s = 1..Len(s) /\ DOMAIN t = 1..(Len(s) + 1)
      /\ Len(s) \in Nat /\ t[Len(s) + 1] = x /\ \A i \in 1..Len(s) : t[i] = s[i]
  BY AppendProperties
<1> HIDE DEF t
<1>2. \A i \in 1..Len(s) : t[i] # x
  BY <1>1 DEF ToSet
<1>3. IsInjective(t)
  BY <1>1, <1>2 DEF IsInjective
<1> QED BY <1>3 DEF t

\* Without keeps the elements of a list apart.
THEOREM WithoutInjective ==
    ASSUME NEW S, NEW list \in Seq(S), NEW gone, IsInjective(list)
    PROVE  IsInjective(Without(list, gone))
<1>1. PICK f : /\ IsKept(f, list, gone, Len(list))
               /\ Without(list, gone) = f[Len(list)]
  BY WithoutDef
<1> DEFINE first(n) == {list[i] : i \in 1..n}
           P(n) == f[n] \in Seq(S) /\ ToSet(f[n]) \subseteq first(n) /\ IsInjective(f[n])
           T == {n \in Nat : n <= Len(list) => P(n)}
<1>2. 0 \in T
  <2>1. f[0] = <<>>
    BY <1>1 DEF IsKept, KeptStep
  <2>2. ToSet(<<>>) = {} /\ <<>> \in Seq(S) /\ IsInjective(<<>>)
    BY DEF ToSet, IsInjective
  <2>3. P(0)
    BY <2>1, <2>2
  <2> HIDE DEF P
  <2> QED BY <2>3
<1>3. ASSUME NEW n \in Nat, n \in T
      PROVE  n + 1 \in T
  <2> SUFFICES ASSUME n + 1 <= Len(list) PROVE P(n + 1)
    OBVIOUS
  <2>1. P(n) /\ n + 1 \in 0..Len(list) /\ n + 1 # 0 /\ (n + 1) - 1 = n
    BY <1>3
  <2>2. f[n + 1] = KeptStep(f, list, gone, n + 1)
    BY <1>1, <2>1 DEF IsKept
  <2>3. list[n + 1] \in S /\ list[n + 1] \notin first(n)
    <3>1. DOMAIN list = 1..Len(list) /\ n + 1 \in 1..Len(list)
      BY <2>1
    <3> QED BY <3>1 DEF IsInjective
  <2>4. first(n + 1) = first(n) \cup {list[n + 1]}
    BY <2>1
  <2>5. CASE list[n + 1] \in gone
    <3>1. f[n + 1] = f[n]
      BY <2>1, <2>2, <2>5 DEF KeptStep
    <3> QED BY <2>1, <2>4, <3>1
  <2>6. CASE list[n + 1] \notin gone
    <3>1. f[n + 1] = Append(f[n], list[n + 1])
      BY <2>1, <2>2, <2>6 DEF KeptStep
    <3>2. f[n + 1] \in Seq(S)
      BY <2>1, <2>3, <3>1
    <3>3. ToSet(f[n + 1]) = ToSet(f[n]) \cup {list[n + 1]}
      BY <2>1, <2>3, <3>1, AppendMembers
    <3>4. IsInjective(f[n + 1])
      <4>1. list[n + 1] \notin ToSet(f[n])
        BY <2>1, <2>3
      <4> HIDE DEF first
      <4> QED BY <2>1, <2>3, <3>1, <4>1, AppendApart
    <3> HIDE DEF first
    <3> QED BY <2>1, <2>4, <3>2, <3>3, <3>4
  <2> QED BY <2>5, <2>6
<1> HIDE DEF T
<1>4. Nat \subseteq T
  BY <1>2, <1>3, Induction
<1>5. Len(list) \in Nat /\ Len(list) \in T
  BY <1>4
<1> QED BY <1>1, <1>5 DEF T

\* Two lists that share nothing, one after the other.
LEMMA ConcatApart ==
    ASSUME NEW S, NEW s \in Seq(S), NEW t \in Seq(S), IsInjective(s), IsInjective(t),
           ToSet(s) \cap ToSet(t) = {}
    PROVE  /\ s \o t \in Seq(S)
           /\ ToSet(s \o t) = ToSet(s) \cup ToSet(t)
           /\ IsInjective(s \o t)
<1> DEFINE u == s \o t
<1>1. /\ DOMAIN s = 1..Len(s) /\ DOMAIN t = 1..Len(t) /\ DOMAIN u = 1..(Len(s) + Len(t))
      /\ Len(s) \in Nat /\ Len(t) \in Nat /\ u \in Seq(S)
      /\ \A i \in 1..Len(s) : u[i] = s[i]
      /\ \A i \in 1..Len(t) : u[Len(s) + i] = t[i]
  BY ConcatProperties
<1> HIDE DEF u
<1>2. \A i \in DOMAIN u : i \in 1..Len(s) \/ \E j \in 1..Len(t) : i = Len(s) + j
  <2> SUFFICES ASSUME NEW i \in DOMAIN u, i \notin 1..Len(s)
               PROVE  \E j \in 1..Len(t) : i = Len(s) + j
    OBVIOUS
  <2>1. i - Len(s) \in 1..Len(t) /\ i = Len(s) + (i - Len(s))
    BY <1>1
  <2> QED BY <2>1
<1>3. \A j \in 1..Len(t) : Len(s) + j \in DOMAIN u /\ Len(s) + j \notin 1..Len(s)
  BY <1>1
<1>4. ToSet(u) = ToSet(s) \cup ToSet(t)
  <2>1. ASSUME NEW x \in ToSet(u) PROVE x \in ToSet(s) \cup ToSet(t)
    <3>1. PICK i \in DOMAIN u : x = u[i]
      BY DEF ToSet
    <3>2. CASE i \in 1..Len(s)
      BY <1>1, <3>1, <3>2 DEF ToSet
    <3>3. CASE \E j \in 1..Len(t) : i = Len(s) + j
      BY <1>1, <3>1, <3>3 DEF ToSet
    <3> QED BY <1>2, <3>2, <3>3
  <2>2. ASSUME NEW x \in ToSet(s) PROVE x \in ToSet(u)
    BY <1>1 DEF ToSet
  <2>3. ASSUME NEW x \in ToSet(t) PROVE x \in ToSet(u)
    BY <1>1, <1>3 DEF ToSet
  <2> QED BY <2>1, <2>2, <2>3
<1>5. \A i \in 1..Len(s), j \in 1..Len(t) : s[i] # t[j]
  BY <1>1 DEF ToSet
<1>6. IsInjective(u)
  <2> SUFFICES ASSUME NEW a \in DOMAIN u, NEW b \in DOMAIN u, u[a] = u[b] PROVE a = b
    BY DEF IsInjective
  <2>1. CASE a \in 1..Len(s) /\ b \in 1..Len(s)
    BY <1>1, <2>1 DEF IsInjective
  <2>2. CASE a \notin 1..Len(s) /\ b \notin 1..Len(s)
    <3>1. PICK i \in 1..Len(t) : a = Len(s) + i
      BY <1>2, <2>2
    <3>2. PICK j \in 1..Len(t) : b = Len(s) + j
      BY <1>2, <2>2
    <3>3. t[i] = t[j]
      BY <1>1, <3>1, <3>2
    <3>4. i = j
      BY <1>1, <3>3 DEF IsInjective
    <3> QED BY <3>1, <3>2, <3>4
  <2>3. CASE (a \in 1..Len(s)) # (b \in 1..Len(s))
    BY <1>1, <1>2, <1>5, <2>3
  <2> QED BY <2>1, <2>2, <2>3
<1> QED BY <1>1, <1>4, <1>6 DEF u

\* The first "free" elements of such a list: so many, or all of them.
LEMMA FirstFew ==
    ASSUME NEW S, NEW q \in Seq(S), IsInjective(q), NEW free \in Nat,
           NEW P, P = {q[i] : i \in {j \in DOMAIN q : j <= free}}
    PROVE  /\ P \subseteq ToSet(q) /\ IsFiniteSet(P) /\ Cardinality(P) <= free
           /\ P # ToSet(q) => Cardinality(P) = free
<1> DEFINE m == IF Len(q) <= free THEN Len(q) ELSE free
<1>1. m \in Nat /\ DOMAIN q = 1..Len(q) /\ {j \in DOMAIN q : j <= free} = 1..m /\ m <= free
  OBVIOUS
<1>2. (m = Len(q) => P = ToSet(q)) /\ P \subseteq ToSet(q)
  BY <1>1 DEF ToSet
<1>3. m # free => m = Len(q)
  OBVIOUS
<1> HIDE DEF m
<1> DEFINE g == [i \in 1..m |-> q[i]]
<1>4. \A i \in 1..m : i \in DOMAIN q
  BY <1>1
<1>5. g \in [1..m -> P]
  BY <1>1
<1>6. g \in Surjection(1..m, P) /\ g \in Injection(1..m, P)
  BY <1>1, <1>4, <1>5 DEF Surjection, Injection, IsInjective
<1>7. IsFiniteSet(1..m) /\ Cardinality(1..m) = m
  BY <1>1, FS_Interval
<1>8. IsFiniteSet(P) /\ Cardinality(P) = m
  BY <1>6, <1>7, FS_Surjection
<1> QED BY <1>1, <1>2, <1>3, <1>8

=============================================================================
