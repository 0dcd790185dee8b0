----------------------------- MODULE ListProofs -----------------------------
(***************************************************************************)
(* What the other proofs use of lists and of the loops over them: an       *)
(* induction principle that is stated with sets, so that the provers can   *)
(* use it, and what OnlyIn keeps.                                          *)
(***************************************************************************)
EXTENDS Filtering, SequencesExt, WellFoundedInduction, FiniteSetTheorems, TLAPS

-----------------------------------------------------------------------------
(* Induction.                                                              *)

\* A set of numbers that is not empty has a least one.
LEMMA LeastNumber ==
  ASSUME NEW T \in SUBSET Nat, T # {}
  PROVE  \E n \in T : \A m \in T : n <= m
<1> DEFINE R == OpToRel(<, Nat)
<1>1. IsWellFoundedOn(R, Nat)
  BY NatLessThanWellFounded
<1>2. \A x, y \in Nat : <<x, y>> \in R <=> x < y
  BY DEF OpToRel
<1> HIDE DEF R
<1>3. PICK n \in T : \A m \in T : ~ (<<m, n>> \in R)
  BY <1>1, WFMin
<1>4. \A m \in T : m \in Nat /\ n \in Nat /\ ~ (<<m, n>> \in R)
  BY <1>3
<1>5. \A m \in T : m \in Nat /\ n \in Nat /\ ~ (m < n)
  BY <1>2, <1>4
<1> QED BY <1>5

\* A set with 0 and, with each number, the next has them all.
LEMMA CountingUp ==
  ASSUME NEW S, 0 \in S, \A n \in Nat : n \in S => n + 1 \in S
  PROVE  Nat \subseteq S
<1> SUFFICES ASSUME Nat \ S # {} PROVE FALSE
  OBVIOUS
<1>1. PICK n \in Nat \ S : \A m \in Nat \ S : n <= m
  BY LeastNumber
<1>2. n - 1 \in Nat /\ n - 1 \in S
  BY <1>1
<1> QED BY <1>1, <1>2

\* A function on 1 .. n is a list of n elements.
LEMMA ListOf ==
  ASSUME NEW S, NEW n \in Nat, NEW f, DOMAIN f = 1 .. n, f = [i \in DOMAIN f |-> f[i]],
         \A i \in 1 .. n : f[i] \in S
  PROVE  f \in Seq(S) /\ Len(f) = n
<1>1. f \in [1 .. n -> S]
  OBVIOUS
<1> QED BY <1>1

-----------------------------------------------------------------------------
(* OnlyIn.                                                                 *)

IsKept(f, n, s, T) ==
    f = [i \in 0 .. n |->
            IF i = 0 THEN <<>>
            ELSE IF s[i] \in T THEN Append(f[i - 1], s[i]) ELSE f[i - 1]]

\* The loop's intermediate results exist.
LEMMA KeptExists ==
  ASSUME NEW s, NEW T
  PROVE  \A n \in Nat : \E f : IsKept(f, n, s, T)
<1> DEFINE S == {n \in Nat : \E f : IsKept(f, n, s, T)}
<1>1. 0 \in S
  <2> DEFINE f == [i \in 0 .. 0 |-> <<>>]
  <2>1. IsKept(f, 0, s, T)
    BY DEF IsKept
  <2> QED BY <2>1
<1>2. \A n \in Nat : n \in S => n + 1 \in S
  <2> SUFFICES ASSUME NEW n \in Nat, n \in S PROVE n + 1 \in S
    OBVIOUS
  <2>1. PICK f : IsKept(f, n, s, T)
    OBVIOUS
  <2> DEFINE g == [i \in 0 .. n + 1 |->
            IF i = 0 THEN <<>>
            ELSE IF s[i] \in T THEN Append(f[i - 1], s[i]) ELSE f[i - 1]]
  <2>2. \A i \in 0 .. n : f[i] = IF i = 0 THEN <<>>
            ELSE IF s[i] \in T THEN Append(f[i - 1], s[i]) ELSE f[i - 1]
    BY <2>1 DEF IsKept
  <2>3. \A i \in 0 .. n : g[i] = f[i]
    BY <2>2
  <2>4. g = [i \in 0 .. n + 1 |->
            IF i = 0 THEN <<>>
            ELSE IF s[i] \in T THEN Append(g[i - 1], s[i]) ELSE g[i - 1]]
    <3>1. \A i \in 0 .. n + 1 : i # 0 => i - 1 \in 0 .. n
      OBVIOUS
    <3> QED BY <2>3, <3>1
  <2> HIDE DEF g
  <2>5. IsKept(g, n + 1, s, T)
    BY <2>4 DEF IsKept
  <2> QED BY <2>5
<1> HIDE DEF S
<1>3. Nat \subseteq S
  BY <1>1, <1>2, CountingUp
<1> QED BY <1>3 DEF S

LEMMA OnlyInIsLast ==
  ASSUME NEW s, NEW T, Len(s) \in Nat
  PROVE  \E f : IsKept(f, Len(s), s, T) /\ OnlyIn(s, T) = f[Len(s)]
<1> DEFINE f == CHOOSE f : IsKept(f, Len(s), s, T)
<1>1. IsKept(f, Len(s), s, T)
  BY KeptExists
<1>2. OnlyIn(s, T) = f[Len(s)]
  BY Zenon DEF OnlyIn, IsKept
<1> QED BY <1>1, <1>2

\* What is kept is in the list and in the set, and no more than the list has.
LEMMA OnlyInKeeps ==
  ASSUME NEW S, NEW s \in Seq(S), NEW T
  PROVE  /\ OnlyIn(s, T) \in Seq(S)
         /\ Len(OnlyIn(s, T)) <= Len(s)
         /\ ToSet(OnlyIn(s, T)) = ToSet(s) \cap T
<1>1. PICK f : IsKept(f, Len(s), s, T) /\ OnlyIn(s, T) = f[Len(s)]
  BY OnlyInIsLast
<1> DEFINE Good(n) == /\ f[n] \in Seq(S)
                      /\ Len(f[n]) <= n
                      /\ ToSet(f[n]) = {s[i] : i \in 1 .. n} \cap T
           G == {n \in Nat : n <= Len(s) => Good(n)}
<1>2. \A n \in 0 .. Len(s) :
         f[n] = IF n = 0 THEN <<>>
                ELSE IF s[n] \in T THEN Append(f[n - 1], s[n]) ELSE f[n - 1]
  BY <1>1 DEF IsKept
<1>3. 0 \in G
  <2>1. f[0] = <<>>
    BY <1>2
  <2>2. ToSet(f[0]) = {} /\ {s[i] : i \in 1 .. 0} = {}
    BY <2>1 DEF ToSet
  <2>3. f[0] \in Seq(S) /\ Len(f[0]) <= 0
    BY <2>1
  <2>4. Good(0)
    BY <2>2, <2>3
  <2> HIDE DEF Good
  <2> QED BY <2>4
<1>4. \A n \in Nat : n \in G => n + 1 \in G
  <2> HIDE DEF Good
  <2> SUFFICES ASSUME NEW n \in Nat, n \in G, n + 1 <= Len(s) PROVE Good(n + 1)
    OBVIOUS
  <2> USE DEF Good
  <2>1. Good(n)
    OBVIOUS
  <2>2. f[n + 1] = IF s[n + 1] \in T THEN Append(f[n], s[n + 1]) ELSE f[n]
    BY <1>2
  <2>3. s[n + 1] \in S
    OBVIOUS
  <2>4. {s[i] : i \in 1 .. n + 1} = {s[i] : i \in 1 .. n} \cup {s[n + 1]}
    <3>1. 1 .. n + 1 = (1 .. n) \cup {n + 1}
      OBVIOUS
    <3> QED BY <3>1
  <2>5. CASE s[n + 1] \in T
    <3>1. f[n + 1] = Append(f[n], s[n + 1])
      BY <2>2, <2>5
    <3>2. f[n + 1] \in Seq(S) /\ Len(f[n + 1]) = Len(f[n]) + 1
      BY <2>1, <2>3, <3>1
    <3>3. ToSet(f[n + 1]) = ToSet(f[n]) \cup {s[n + 1]}
      <4>1. DOMAIN f[n + 1] = DOMAIN f[n] \cup {Len(f[n]) + 1}
        BY <2>1, <3>1, <3>2
      <4>2. /\ \A i \in DOMAIN f[n] : f[n + 1][i] = f[n][i]
            /\ f[n + 1][Len(f[n]) + 1] = s[n + 1]
        BY <2>1, <2>3, <3>1
      <4> QED BY <4>1, <4>2 DEF ToSet
    <3> QED BY <2>1, <2>4, <2>5, <3>2, <3>3
  <2>6. CASE s[n + 1] \notin T
    BY <2>1, <2>2, <2>4, <2>6
  <2> QED BY <2>5, <2>6
<1> HIDE DEF G
<1>5. Nat \subseteq G
  BY <1>3, <1>4, CountingUp
<1>6. Good(Len(s))
  <2>1. Len(s) \in G
    BY <1>5
  <2> QED BY <2>1 DEF G
<1>7. ToSet(s) = {s[i] : i \in 1 .. Len(s)}
  BY DEF ToSet
<1> QED BY <1>1, <1>6, <1>7

\* A loop that keeps everything, and one that keeps nothing.
LEMMA OnlyInAllOrNone ==
  ASSUME NEW S, NEW s \in Seq(S), NEW T
  PROVE  /\ (\A i \in DOMAIN s : s[i] \in T) => OnlyIn(s, T) = s
         /\ T = {} => OnlyIn(s, T) = <<>>
<1>1. T = {} => OnlyIn(s, T) = <<>>
  <2>1. OnlyIn(s, T) \in Seq(S) /\ ToSet(OnlyIn(s, T)) = ToSet(s) \cap T
    BY OnlyInKeeps
  <2>2. \A t : t \in Seq(S) /\ t # <<>> => t[1] \in ToSet(t)
    BY DEF ToSet
  <2> QED BY <2>1, <2>2
<1>2. ASSUME \A i \in DOMAIN s : s[i] \in T PROVE OnlyIn(s, T) = s
  <2>1. PICK f : IsKept(f, Len(s), s, T) /\ OnlyIn(s, T) = f[Len(s)]
    BY OnlyInIsLast
  <2>2. Len(s) \in Nat /\ DOMAIN s = 1 .. Len(s) /\ \A i \in 1 .. Len(s) : s[i] \in S
    OBVIOUS
  <2> DEFINE Good(n) == /\ f[n] \in Seq(S) /\ Len(f[n]) = n
                        /\ \A i \in 1 .. n : f[n][i] = s[i]
             G == {n \in Nat : n <= Len(s) => Good(n)}
  <2>3. \A n \in 0 .. Len(s) : f[n] = IF n = 0 THEN <<>> ELSE Append(f[n - 1], s[n])
    <3>1. \A n \in 0 .. Len(s) :
             f[n] = IF n = 0 THEN <<>>
                    ELSE IF s[n] \in T THEN Append(f[n - 1], s[n]) ELSE f[n - 1]
      BY <2>1 DEF IsKept
    <3>2. \A n \in 0 .. Len(s) : n # 0 => s[n] \in T
      BY <1>2, <2>2
    <3> QED BY <3>1, <3>2
  <2>4. 0 \in G
    <3>1. f[0] = <<>>
      BY <2>2, <2>3
    <3>2. Good(0)
      BY <3>1
    <3> HIDE DEF Good
    <3> QED BY <3>2
  <2>5. \A n \in Nat : n \in G => n + 1 \in G
    <3> SUFFICES ASSUME NEW n \in Nat, n \in G, n + 1 <= Len(s) PROVE Good(n + 1)
      OBVIOUS
    <3>1. Good(n) /\ n + 1 \in 0 .. Len(s) /\ s[n + 1] \in S
      BY <2>2
    <3>2. n + 1 # 0 /\ (n + 1) - 1 = n
      OBVIOUS
    <3>3. f[n + 1] = Append(f[n], s[n + 1])
      BY <2>3, <3>1, <3>2
    <3> QED BY <3>1, <3>3
  <2> HIDE DEF G
  <2>6. Len(s) \in G
    BY <2>2, <2>4, <2>5, CountingUp
  <2>7. Good(Len(s))
    BY <2>6 DEF G
  <2> QED BY <2>1, <2>2, <2>7
<1> QED BY <1>1, <1>2
DistinctIds(s) == \A i, j \in DOMAIN s : s[i].id = s[j].id => i = j

LEMMA OnlyInDistinct ==
  ASSUME NEW S, NEW s \in Seq(S), NEW T, DistinctIds(s)
  PROVE  DistinctIds(OnlyIn(s, T))
<1>1. PICK f : IsKept(f, Len(s), s, T) /\ OnlyIn(s, T) = f[Len(s)]
  BY OnlyInIsLast
<1> DEFINE Good(n) == /\ f[n] \in Seq(S)
                      /\ \A i \in DOMAIN f[n] : \E k \in 1 .. n : f[n][i] = s[k]
                      /\ DistinctIds(f[n])
           G == {n \in Nat : n <= Len(s) => Good(n)}
<1>2. Len(s) \in Nat /\ DOMAIN s = 1 .. Len(s) /\ \A i \in 1 .. Len(s) : s[i] \in S
  OBVIOUS
<1>3. \A n \in 0 .. Len(s) :
         f[n] = IF n = 0 THEN <<>>
                ELSE IF s[n] \in T THEN Append(f[n - 1], s[n]) ELSE f[n - 1]
  BY <1>1 DEF IsKept
<1>4. 0 \in G
  <2>1. f[0] = <<>>
    BY <1>2, <1>3
  <2>2. Good(0)
    BY <2>1 DEF DistinctIds
  <2> HIDE DEF Good
  <2> QED BY <2>2
<1>5. \A n \in Nat : n \in G => n + 1 \in G
  <2> HIDE DEF Good
  <2> SUFFICES ASSUME NEW n \in Nat, n \in G, n + 1 <= Len(s) PROVE Good(n + 1)
    OBVIOUS
  <2> USE DEF Good
  <2>1. Good(n) /\ n + 1 \in 0 .. Len(s) /\ n + 1 # 0 /\ (n + 1) - 1 = n
    BY <1>2
  <2>2. f[n + 1] = IF s[n + 1] \in T THEN Append(f[n], s[n + 1]) ELSE f[n]
    BY <1>3, <2>1
  <2>3. CASE s[n + 1] \notin T
    BY <2>1, <2>2, <2>3
  <2>4. CASE s[n + 1] \in T
    <3> DEFINE a == f[n]
               b == f[n + 1]
               k == Len(f[n])
    <3>1. /\ a \in Seq(S) /\ k \in Nat /\ DOMAIN a = 1 .. k
          /\ b = Append(a, s[n + 1]) /\ s[n + 1] \in S
      BY <1>2, <2>1, <2>2, <2>4
    <3> HIDE DEF a, b, k
    <3>2. /\ b \in Seq(S) /\ DOMAIN b = 1 .. k + 1 /\ b[k + 1] = s[n + 1]
          /\ \A i \in 1 .. k : b[i] = a[i]
      BY <3>1 DEF k, a
    <3>3. \A i \in 1 .. k : \E m \in 1 .. n : a[i] = s[m]
      BY <2>1, <3>1 DEF a
    <3>4. \A i \in 1 .. k : b[i].id # s[n + 1].id
      <4>1. \A m \in 1 .. n : s[m].id # s[n + 1].id
        BY <1>2 DEF DistinctIds
      <4> QED BY <3>2, <3>3, <4>1
    <3>5. \A i \in DOMAIN b : i \in 1 .. k \/ i = k + 1
      BY <3>1, <3>2
    <3>6. DistinctIds(b)
      <4>1. DistinctIds(a)
        BY <2>1 DEF a
      <4> QED BY <3>1, <3>2, <3>4, <3>5, <4>1 DEF DistinctIds
    <3>7. \A i \in DOMAIN b : \E m \in 1 .. n + 1 : b[i] = s[m]
      <4>1. n + 1 \in 1 .. n + 1 /\ 1 .. n \subseteq 1 .. n + 1
        BY <1>2
      <4>2. \A i \in 1 .. k : \E m \in 1 .. n + 1 : b[i] = s[m]
        BY <3>2, <3>3, <4>1
      <4> QED BY <3>2, <3>5, <4>1, <4>2
    <3> QED BY <3>2, <3>6, <3>7 DEF b
  <2> QED BY <2>3, <2>4
<1> HIDE DEF G
<1>6. Len(s) \in G
  BY <1>2, <1>4, <1>5, CountingUp
<1>7. Good(Len(s))
  BY <1>2, <1>6 DEF G
<1> QED BY <1>1, <1>7
=============================================================================
