------------------------ MODULE KeySequencesProofs ------------------------
(***************************************************************************)
(* Lemmas about the operators of KeySequences, for all sequences.          *)
(*                                                                         *)
(* The provers cannot instantiate an induction rule that takes a           *)
(* predicate.  Induction here goes through the set where a property holds, *)
(* and the fact that every non-empty set of numbers has a smallest one.    *)
(***************************************************************************)
EXTENDS KeySequences, TLAPS, WellFoundedInduction, SequenceTheorems

(* Every non-empty set of natural numbers has a smallest element. *)
LEMMA SmallestNumber ==
    ASSUME NEW T \in SUBSET Nat, T # {}
    PROVE  \E x \in T : \A y \in T : x <= y
<1> DEFINE R == {p \in Nat \X Nat : p[1] < p[2]}
<1>1. IsWellFoundedOn(R, Nat)
  BY NatLessThanWellFounded, Zenon DEF OpToRel
<1>2. PICK x \in T : \A y \in T : ~ (<<y, x>> \in R)
  <2> HIDE DEF R
  <2> QED BY <1>1, WFMin
<1>3. ASSUME NEW y \in T PROVE x <= y
  <2>1. x \in Nat /\ y \in Nat
    OBVIOUS
  <2>2. ~ (y < x)
    BY <1>2, <2>1
  <2> QED BY <2>1, <2>2
<1> QED BY <1>3

(* Induction up to n: a set with 0 in it and the successors of its members has them all. *)
LEMMA InductionUpto ==
    ASSUME NEW n \in Nat, NEW S, 0 \in S,
           \A i \in 0..n-1 : i \in S => i+1 \in S
    PROVE  \A i \in 0..n : i \in S
<1> SUFFICES ASSUME (0..n) \ S # {} PROVE FALSE
  OBVIOUS
<1>1. (0..n) \ S \in SUBSET Nat
  OBVIOUS
<1>2. PICK x \in (0..n) \ S : \A y \in (0..n) \ S : x <= y
  BY <1>1, SmallestNumber
<1>3. x # 0 /\ x-1 \in 0..n-1
  BY <1>2
<1>4. x-1 \in S
  BY <1>2, <1>3
<1> QED BY <1>2, <1>3, <1>4

(* The elements of a sequence. *)
LEMMA ElementsInside ==
    ASSUME NEW A, NEW s \in Seq(A)
    PROVE  /\ Elements(s) \subseteq A
           /\ s # <<>> <=> \E x : x \in Elements(s)
<1>1. DOMAIN s = 1..Len(s) /\ Len(s) \in Nat /\ \A i \in 1..Len(s) : s[i] \in A
  OBVIOUS
<1>2. Elements(s) \subseteq A
  BY <1>1 DEF Elements
<1>3. ASSUME s # <<>> PROVE \E x : x \in Elements(s)
  <2>1. Len(s) # 0
    BY <1>3
  <2>2. s[1] \in Elements(s)
    BY <1>1, <2>1 DEF Elements
  <2> QED BY <2>2
<1>4. ASSUME s = <<>> PROVE Elements(s) = {}
  <2>1. DOMAIN s = {}
    BY <1>1, <1>4
  <2> QED BY <2>1 DEF Elements
<1> QED BY <1>2, <1>3, <1>4

-----------------------------------------------------------------------------
(* Kept *)

KeptStep(s, S, f, i) == IF s[i] \in S THEN Append(f[i-1], s[i]) ELSE f[i-1]

(* The recursive definition of KeptUpto defines a function. *)
LEMMA KeptUptoDefined ==
    ASSUME NEW A, NEW s \in Seq(A), NEW S
    PROVE  /\ KeptUpto(s, S) \in [0..Len(s) -> Seq(A)]
           /\ KeptUpto(s, S)[0] = <<>>
           /\ \A i \in 1..Len(s) : KeptUpto(s, S)[i] = KeptStep(s, S, KeptUpto(s, S), i)
<1> DEFINE Good(n, f) == /\ f \in [0..n -> Seq(A)]
                         /\ f[0] = <<>>
                         /\ \A i \in 1..n : f[i] = KeptStep(s, S, f, i)
           G == {n \in 0..Len(s) : \E f : Good(n, f)}
           body(f) == [i \in 0..Len(s) |-> IF i = 0 THEN <<>> ELSE KeptStep(s, S, f, i)]
<1>1. Len(s) \in Nat
  OBVIOUS
<1>2. 0 \in G
  <2>1. Good(0, [i \in 0..0 |-> <<>>])
    OBVIOUS
  <2> HIDE DEF Good
  <2> QED BY <1>1, <2>1
<1>3. ASSUME NEW n \in 0..Len(s)-1, n \in G PROVE n+1 \in G
  <2>1. PICK f : Good(n, f)
    BY <1>3
  <2> DEFINE g == [i \in 0..n+1 |-> IF i = n+1 THEN KeptStep(s, S, f, n+1) ELSE f[i]]
  <2>2. KeptStep(s, S, f, n+1) \in Seq(A)
    BY <2>1, <1>1 DEF KeptStep
  <2>3. g \in [0..n+1 -> Seq(A)]
    BY <2>1, <2>2
  <2>4. g[0] = <<>>
    BY <2>1
  <2>5. ASSUME NEW i \in 1..n+1 PROVE g[i] = KeptStep(s, S, g, i)
    <3>1. g[i-1] = f[i-1]
      OBVIOUS
    <3>2. CASE i = n+1
      BY <3>1, <3>2 DEF KeptStep
    <3>3. CASE i # n+1
      BY <2>1, <3>1, <3>3 DEF KeptStep
    <3> QED BY <3>2, <3>3
  <2>6. Good(n+1, g)
    BY <2>3, <2>4, <2>5
  <2> HIDE DEF Good, g
  <2> QED BY <2>6, <1>1
<1>4. PICK f : Good(Len(s), f)
  <2> HIDE DEF G
  <2>1. \A n \in 0..Len(s) : n \in G
    BY <1>1, <1>2, <1>3, InductionUpto
  <2>2. Len(s) \in G
    BY <1>1, <2>1
  <2> QED BY <2>2 DEF G
<1>5. f = body(f)
  BY <1>4, <1>1
<1>6. PICK g : g = KeptUpto(s, S) /\ g = body(g)
  BY <1>5 DEF KeptUpto, KeptStep
<1>7. g[0] = <<>> /\ \A i \in 1..Len(s) : g[i] = KeptStep(s, S, g, i)
  BY <1>6, <1>1
<1>8. \A i \in 0..Len(s) : g[i] \in Seq(A)
  <2> DEFINE H == {i \in 0..Len(s) : g[i] \in Seq(A)}
  <2> HIDE DEF Good, G, body
  <2>1. 0 \in H
    <3>1. g[0] \in Seq(A)
      BY <1>7
    <3> QED BY <3>1, <1>1
  <2>2. ASSUME NEW i \in 0..Len(s)-1, i \in H PROVE i+1 \in H
    <3>1. g[i+1] = KeptStep(s, S, g, i+1)
      BY <1>7, <1>1
    <3>2. KeptStep(s, S, g, i+1) \in Seq(A)
      BY <2>2, <1>1 DEF KeptStep
    <3> QED BY <3>1, <3>2, <1>1
  <2> HIDE DEF H
  <2>3. \A i \in 0..Len(s) : i \in H
    BY <2>1, <2>2, <1>1, InductionUpto
  <2> QED BY <2>3 DEF H
<1>9. g \in [0..Len(s) -> Seq(A)]
  BY <1>6, <1>8
<1> QED BY <1>6, <1>7, <1>9

(* e tells where in s each element of t comes from: those of the first n that are in S. *)
Embeds(e, t, s, S, n) ==
    /\ e \in [1..Len(t) -> 1..n]
    /\ \A j, k \in 1..Len(t) : j < k => e[j] < e[k]
    /\ \A k \in 1..Len(t) : t[k] = s[e[k]] /\ s[e[k]] \in S
    /\ \A i \in 1..n : s[i] \in S => \E k \in 1..Len(t) : e[k] = i

(* Kept keeps exactly the elements in S, in their order. *)
LEMMA KeptEmbeds ==
    ASSUME NEW A, NEW s \in Seq(A), NEW S
    PROVE  /\ Kept(s, S) \in Seq(A)
           /\ \E e : Embeds(e, Kept(s, S), s, S, Len(s))
<1>1. PICK f : /\ f = KeptUpto(s, S)
               /\ f \in [0..Len(s) -> Seq(A)]
               /\ f[0] = <<>>
               /\ \A i \in 1..Len(s) : f[i] = KeptStep(s, S, f, i)
  BY KeptUptoDefined
<1>2. Len(s) \in Nat
  OBVIOUS
<1> DEFINE G == {n \in 0..Len(s) : \E e : Embeds(e, f[n], s, S, n)}
<1>3. 0 \in G
  <2>1. Embeds([k \in 1..0 |-> 0], <<>>, s, S, 0)
    BY DEF Embeds
  <2> QED BY <1>1, <1>2, <2>1
<1>4. ASSUME NEW n \in 0..Len(s)-1, n \in G PROVE n+1 \in G
  <2>1. PICK e : Embeds(e, f[n], s, S, n)
    BY <1>4
  <2>2. f[n] \in Seq(A) /\ n+1 \in 1..Len(s) /\ f[n+1] = KeptStep(s, S, f, n+1)
    BY <1>1, <1>2
  <2>3. CASE s[n+1] \in S
    <3> DEFINE t == f[n]
               u == Append(t, s[n+1])
               d == [k \in 1..Len(t)+1 |-> IF k = Len(t)+1 THEN n+1 ELSE e[k]]
    <3>1. f[n+1] = u
      BY <2>2, <2>3 DEF KeptStep
    <3>2. Len(u) = Len(t) + 1 /\ Len(t) \in Nat /\ s[n+1] \in A
      BY <2>2
    <3>3. u[Len(t)+1] = s[n+1] /\ \A k \in 1..Len(t) : u[k] = t[k]
      BY <2>2, <3>2
    <3>4. d \in [1..Len(u) -> 1..n+1]
      BY <2>1, <3>2 DEF Embeds
    <3>5. ASSUME NEW j \in 1..Len(u), NEW k \in 1..Len(u), j < k PROVE d[j] < d[k]
      <4>1. j \in 1..Len(t) /\ d[j] = e[j] /\ e[j] \in 1..n
        <5>1. j \in 1..Len(t) /\ d[j] = e[j]
          BY <3>2, <3>5
        <5> QED BY <2>1, <5>1 DEF Embeds
      <4>2. CASE k = Len(t) + 1
        BY <4>1, <4>2, <3>2
      <4>3. CASE k # Len(t) + 1
        <5>1. k \in 1..Len(t) /\ d[k] = e[k]
          BY <4>3, <3>2
        <5> QED BY <2>1, <3>5, <4>1, <5>1 DEF Embeds
      <4> QED BY <4>2, <4>3
    <3>6. \A k \in 1..Len(u) : u[k] = s[d[k]] /\ s[d[k]] \in S
      BY <2>1, <2>3, <3>2, <3>3 DEF Embeds
    <3>7. ASSUME NEW i \in 1..n+1, s[i] \in S PROVE \E k \in 1..Len(u) : d[k] = i
      <4>1. CASE i = n+1
        BY <4>1, <3>2
      <4>2. CASE i # n+1
        <5>1. PICK k \in 1..Len(t) : e[k] = i
          BY <2>1, <3>7, <4>2 DEF Embeds
        <5>2. k \in 1..Len(u) /\ d[k] = i
          BY <5>1, <3>2
        <5> QED BY <5>2
      <4> QED BY <4>1, <4>2
    <3> HIDE DEF t, u, d
    <3>8. Embeds(d, u, s, S, n+1)
      BY <3>4, <3>5, <3>6, <3>7 DEF Embeds
    <3> QED BY <3>1, <3>8, <1>2
  <2>4. CASE s[n+1] \notin S
    <3>1. f[n+1] = f[n]
      BY <2>2, <2>4 DEF KeptStep
    <3>2. Embeds(e, f[n], s, S, n+1)
      BY <2>1, <2>2, <2>4 DEF Embeds
    <3> QED BY <3>1, <3>2, <1>2
  <2> QED BY <2>3, <2>4
<1>5. \E e : Embeds(e, f[Len(s)], s, S, Len(s))
  <2> HIDE DEF G
  <2>1. \A n \in 0..Len(s) : n \in G
    BY <1>2, <1>3, <1>4, InductionUpto
  <2>2. Len(s) \in G
    BY <1>2, <2>1
  <2> QED BY <2>2 DEF G
<1> QED BY <1>1, <1>2, <1>5 DEF Kept

(* What is left of a sequence is what was in it and is in S. *)
LEMMA KeptElements ==
    ASSUME NEW A, NEW s \in Seq(A), NEW S
    PROVE  /\ Kept(s, S) \in Seq(A)
           /\ Elements(Kept(s, S)) = Elements(s) \cap S
           /\ Kept(s, S) # <<>> <=> \E x : x \in Elements(s) \cap S
<1> DEFINE t == Kept(s, S)
<1>1. t \in Seq(A)
  BY KeptEmbeds
<1>2. PICK e : Embeds(e, t, s, S, Len(s))
  BY KeptEmbeds
<1> HIDE DEF t
<1>3. DOMAIN t = 1..Len(t) /\ DOMAIN s = 1..Len(s) /\ Len(t) \in Nat
  BY <1>1
<1>4. ASSUME NEW x \in Elements(t) PROVE x \in Elements(s) \cap S
  BY <1>2, <1>3 DEF Elements, Embeds
<1>5. ASSUME NEW x \in Elements(s) \cap S PROVE x \in Elements(t)
  <2>1. PICK i \in 1..Len(s) : s[i] = x
    BY <1>3 DEF Elements
  <2>2. PICK k \in 1..Len(t) : e[k] = i
    BY <1>2, <2>1 DEF Embeds
  <2>3. t[k] = x
    BY <1>2, <2>1, <2>2 DEF Embeds
  <2> QED BY <1>3, <2>3 DEF Elements
<1>6. Elements(t) = Elements(s) \cap S
  BY <1>4, <1>5
<1>7. t # <<>> <=> \E x : x \in Elements(t)
  BY <1>1, ElementsInside
<1> QED BY <1>1, <1>6, <1>7 DEF t

(* Keeping some of a sequence without duplicates makes none. *)
LEMMA KeptNoDuplicates ==
    ASSUME NEW A, NEW s \in Seq(A), NEW S, NoDuplicates(s)
    PROVE  NoDuplicates(Kept(s, S))
<1> DEFINE t == Kept(s, S)
<1>1. t \in Seq(A)
  BY KeptEmbeds
<1>2. PICK e : Embeds(e, t, s, S, Len(s))
  BY KeptEmbeds
<1> HIDE DEF t
<1> SUFFICES ASSUME NEW j \in 1..Len(t), NEW k \in 1..Len(t), t[j] = t[k], j < k
             PROVE  FALSE
  BY <1>1 DEF NoDuplicates, t
<1>3. e[j] \in 1..Len(s) /\ e[k] \in 1..Len(s) /\ e[j] < e[k]
  BY <1>2 DEF Embeds
<1>4. s[e[j]] = s[e[k]]
  BY <1>2 DEF Embeds
<1> QED BY <1>3, <1>4 DEF NoDuplicates

(* Keeping some of a sequence without duplicates moves no element past another. *)
LEMMA KeptOrder ==
    ASSUME NEW A, NEW s \in Seq(A), NEW S, NoDuplicates(s),
           NEW i \in DOMAIN s, NEW j \in DOMAIN s, i < j,
           NEW x \in DOMAIN Kept(s, S), NEW y \in DOMAIN Kept(s, S), x < y
    PROVE  ~ (Kept(s, S)[x] = s[j] /\ Kept(s, S)[y] = s[i])
<1> DEFINE t == Kept(s, S)
<1>1. t \in Seq(A)
  BY KeptEmbeds
<1>2. PICK e : Embeds(e, t, s, S, Len(s))
  BY KeptEmbeds
<1>3. x \in 1..Len(t) /\ y \in 1..Len(t) /\ i \in 1..Len(s) /\ j \in 1..Len(s)
  BY <1>1
<1> HIDE DEF t
<1>4. e[x] \in 1..Len(s) /\ e[y] \in 1..Len(s) /\ e[x] < e[y]
  BY <1>2, <1>3 DEF Embeds
<1>5. ASSUME t[x] = s[j], t[y] = s[i] PROVE FALSE
  <2>1. s[e[x]] = s[j] /\ s[e[y]] = s[i]
    BY <1>2, <1>3, <1>5 DEF Embeds
  <2>2. e[x] = j /\ e[y] = i
    BY <1>3, <1>4, <2>1 DEF NoDuplicates
  <2> QED BY <1>3, <1>4, <2>2
<1> QED BY <1>5 DEF t

-----------------------------------------------------------------------------
(* Appending and windows *)

(* Appending a new element to a sequence without duplicates. *)
LEMMA AppendNew ==
    ASSUME NEW A, NEW s \in Seq(A), NEW x \in A
    PROVE  /\ Append(s, x) \in Seq(A) /\ Append(s, x) # <<>>
           /\ Elements(Append(s, x)) = Elements(s) \cup {x}
           /\ NoDuplicates(s) /\ x \notin Elements(s) => NoDuplicates(Append(s, x))
<1> DEFINE t == Append(s, x)
<1>1. /\ t \in Seq(A) /\ t # <<>> /\ Len(t) = Len(s) + 1
      /\ (\A i \in 1..Len(s) : t[i] = s[i]) /\ t[Len(s) + 1] = x
  BY AppendProperties
<1>2. DOMAIN s = 1..Len(s) /\ DOMAIN t = 1..Len(s)+1 /\ Len(s) \in Nat
  BY <1>1
<1> HIDE DEF t
<1>3. Elements(t) = Elements(s) \cup {x}
  <2>1. ASSUME NEW y \in Elements(t) PROVE y \in Elements(s) \cup {x}
    BY <1>1, <1>2 DEF Elements
  <2>2. ASSUME NEW y \in Elements(s) PROVE y \in Elements(t)
    <3>1. PICK i \in 1..Len(s) : y = s[i]
      BY <1>2 DEF Elements
    <3>2. i \in DOMAIN t /\ t[i] = y
      BY <1>1, <1>2, <3>1
    <3> QED BY <3>2 DEF Elements
  <2>3. x \in Elements(t)
    <3>1. Len(s) + 1 \in DOMAIN t
      BY <1>2
    <3> QED BY <1>1, <3>1 DEF Elements
  <2> QED BY <2>1, <2>2, <2>3
<1>4. ASSUME NoDuplicates(s), x \notin Elements(s), NEW i \in DOMAIN t, NEW j \in DOMAIN t, t[i] = t[j]
      PROVE  i = j
  <2>1. \A k \in 1..Len(s) : s[k] # x
    BY <1>2, <1>4 DEF Elements
  <2> QED BY <1>1, <1>2, <1>4, <2>1 DEF NoDuplicates
<1> QED BY <1>1, <1>3, <1>4 DEF NoDuplicates, t

(* A window of a sequence is a part of it, and all of it without marker and limit. *)
LEMMA WindowIsPart ==
    ASSUME NEW A, NEW s \in Seq(A), NEW marker, NEW limit \in Nat
    PROVE  LET w == SubSeq(s, WindowStart(s, marker), WindowEnd(s, marker, limit))
           IN  /\ w \in Seq(A)
               /\ Elements(w) \subseteq Elements(s)
               /\ limit # 0 => Len(w) <= limit
               /\ limit = 0 /\ marker \notin Elements(s) => w = s
<1> DEFINE b == WindowStart(s, marker)
           e == WindowEnd(s, marker, limit)
           w == SubSeq(s, b, e)
<1>1. DOMAIN s = 1..Len(s) /\ Len(s) \in Nat
  OBVIOUS
<1>2. b \in Nat \ {0}
  <2>1. CASE marker \in Elements(s)
    <3>1. \E i \in DOMAIN s : s[i] = marker
      BY <2>1 DEF Elements
    <3>2. b \in DOMAIN s
      BY <2>1, <3>1 DEF WindowStart
    <3> QED BY <1>1, <3>2
  <2>2. CASE marker \notin Elements(s)
    BY <2>2 DEF WindowStart
  <2> QED BY <2>1, <2>2
<1>3. limit = 0 /\ marker \notin Elements(s) => b = 1 /\ e = Len(s)
  BY DEF WindowStart, WindowEnd
<1> HIDE DEF b
<1>4. e \in Int /\ e <= Len(s) /\ (limit # 0 => e <= b + limit - 1)
  BY <1>1, <1>2 DEF WindowEnd, b
<1> HIDE DEF e
<1>5. \A i \in b..e : s[i] \in A
  BY <1>1, <1>2, <1>4
<1>6. /\ w \in Seq(A)
      /\ Len(w) = IF b <= e THEN e-b+1 ELSE 0
      /\ \A i \in 1..e-b+1 : w[i] = s[b+i-1]
  BY <1>2, <1>4, <1>5, SubSeqProperties
<1>7. limit = 0 /\ marker \notin Elements(s) => w = s
  <2>1. SubSeq(s, 1, Len(s)) = s
    BY SubSeqFull
  <2> QED BY <1>3, <2>1
<1> HIDE DEF w
<1>8. Elements(w) \subseteq Elements(s)
  <2> SUFFICES ASSUME NEW i \in DOMAIN w PROVE w[i] \in Elements(s)
    BY DEF Elements
  <2>1. i \in 1..Len(w) /\ Len(w) \in Nat
    BY <1>6
  <2>2. b <= e /\ i \in 1..e-b+1
    BY <1>2, <1>4, <1>6, <2>1
  <2>3. b+i-1 \in DOMAIN s /\ w[i] = s[b+i-1]
    BY <1>1, <1>2, <1>4, <1>6, <2>2
  <2> QED BY <2>3 DEF Elements
<1>9. limit # 0 => Len(w) <= limit
  BY <1>2, <1>4, <1>6
<1> QED BY <1>6, <1>7, <1>8, <1>9 DEF w, b, e
=============================================================================
