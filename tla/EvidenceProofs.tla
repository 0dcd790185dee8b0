--------------------------- MODULE EvidenceProofs ---------------------------
(***************************************************************************)
(* Theorems about evidence, for every content of the datasources, every    *)
(* limit, every profile and every set of providers: what a query loses     *)
(* does not go unnoticed, NoIssueFound can be trusted, and no provider is  *)
(* sent what its own data policy does not admit.                           *)
(*                                                                         *)
(* The loops of the adapters are recursive functions; a function IsX says  *)
(* that f holds the intermediate results of loop X, and each proof about a *)
(* loop counts up through them.                                            *)
(***************************************************************************)
EXTENDS ModelGateway, EvidenceProfile, ListProofs

-----------------------------------------------------------------------------
(* Loops over lists of lists.                                              *)

IsJoined(f, n, s) ==
    f = [i \in 0 .. n |->
            IF i = 0 THEN <<>>
            ELSE f[i - 1] \o s[i]]

LEMMA JoinedExists ==
  ASSUME NEW s
  PROVE  \A n \in Nat : \E f : IsJoined(f, n, s)
<1> DEFINE G == {n \in Nat : \E f : IsJoined(f, n, s)}
<1>1. 0 \in G
  <2> DEFINE f == [i \in 0 .. 0 |-> <<>>]
  <2>1. IsJoined(f, 0, s)
    BY DEF IsJoined
  <2> QED BY <2>1
<1>2. \A n \in Nat : n \in G => n + 1 \in G
  <2> SUFFICES ASSUME NEW n \in Nat, n \in G PROVE n + 1 \in G
    OBVIOUS
  <2>1. PICK f : IsJoined(f, n, s)
    OBVIOUS
  <2> DEFINE g == [i \in 0 .. n + 1 |->
            IF i = 0 THEN <<>>
            ELSE f[i - 1] \o s[i]]
  <2>2. \A i \in 0 .. n : f[i] = IF i = 0 THEN <<>>
                               ELSE f[i - 1] \o s[i]
    BY <2>1 DEF IsJoined
  <2>3. \A i \in 0 .. n : g[i] = f[i]
    BY <2>2
  <2>4. g = [i \in 0 .. n + 1 |->
            IF i = 0 THEN <<>>
            ELSE g[i - 1] \o s[i]]
    <3>1. \A i \in 0 .. n + 1 : i # 0 => i - 1 \in 0 .. n
      OBVIOUS
    <3> QED BY <2>3, <3>1
  <2> HIDE DEF g
  <2>5. IsJoined(g, n + 1, s)
    BY <2>4 DEF IsJoined
  <2> QED BY <2>5
<1> HIDE DEF G
<1>3. Nat \subseteq G
  BY <1>1, <1>2, CountingUp
<1> QED BY <1>3 DEF G

LEMMA ConcatenationIsLast ==
  ASSUME NEW s, Len(s) \in Nat
  PROVE  \E f : IsJoined(f, Len(s), s) /\ Concatenation(s) = f[Len(s)]
<1> DEFINE f == CHOOSE f : IsJoined(f, Len(s), s)
<1>1. IsJoined(f, Len(s), s)
  BY JoinedExists
<1>2. Concatenation(s) = f[Len(s)]
  BY Zenon DEF Concatenation, IsJoined
<1> QED BY <1>1, <1>2

IsTotal(f, n, s) ==
    f = [i \in 0 .. n |->
            IF i = 0 THEN 0
            ELSE f[i - 1] + Len(s[i])]

LEMMA TotalExists ==
  ASSUME NEW s
  PROVE  \A n \in Nat : \E f : IsTotal(f, n, s)
<1> DEFINE G == {n \in Nat : \E f : IsTotal(f, n, s)}
<1>1. 0 \in G
  <2> DEFINE f == [i \in 0 .. 0 |-> 0]
  <2>1. IsTotal(f, 0, s)
    BY DEF IsTotal
  <2> QED BY <2>1
<1>2. \A n \in Nat : n \in G => n + 1 \in G
  <2> SUFFICES ASSUME NEW n \in Nat, n \in G PROVE n + 1 \in G
    OBVIOUS
  <2>1. PICK f : IsTotal(f, n, s)
    OBVIOUS
  <2> DEFINE g == [i \in 0 .. n + 1 |->
            IF i = 0 THEN 0
            ELSE f[i - 1] + Len(s[i])]
  <2>2. \A i \in 0 .. n : f[i] = IF i = 0 THEN 0
                               ELSE f[i - 1] + Len(s[i])
    BY <2>1 DEF IsTotal
  <2>3. \A i \in 0 .. n : g[i] = f[i]
    BY <2>2
  <2>4. g = [i \in 0 .. n + 1 |->
            IF i = 0 THEN 0
            ELSE g[i - 1] + Len(s[i])]
    <3>1. \A i \in 0 .. n + 1 : i # 0 => i - 1 \in 0 .. n
      OBVIOUS
    <3> QED BY <2>3, <3>1
  <2> HIDE DEF g
  <2>5. IsTotal(g, n + 1, s)
    BY <2>4 DEF IsTotal
  <2> QED BY <2>5
<1> HIDE DEF G
<1>3. Nat \subseteq G
  BY <1>1, <1>2, CountingUp
<1> QED BY <1>3 DEF G

LEMMA TotalIsLast ==
  ASSUME NEW s, Len(s) \in Nat
  PROVE  \E f : IsTotal(f, Len(s), s) /\ TotalLength(s) = f[Len(s)]
<1> DEFINE f == CHOOSE f : IsTotal(f, Len(s), s)
<1>1. IsTotal(f, Len(s), s)
  BY TotalExists
<1>2. TotalLength(s) = f[Len(s)]
  BY Zenon DEF TotalLength, IsTotal
<1> QED BY <1>1, <1>2

IsKeptSeries(f, n, s, limits) ==
    f = [i \in 0 .. n |->
            IF i = 0 THEN [records |-> <<>>, samples |-> 0, full |-> FALSE]
            ELSE KeepSeries(f[i - 1], s[i], limits)]

LEMMA KeptSeriesExists ==
  ASSUME NEW s, NEW limits
  PROVE  \A n \in Nat : \E f : IsKeptSeries(f, n, s, limits)
<1> DEFINE G == {n \in Nat : \E f : IsKeptSeries(f, n, s, limits)}
<1>1. 0 \in G
  <2> DEFINE f == [i \in 0 .. 0 |-> [records |-> <<>>, samples |-> 0, full |-> FALSE]]
  <2>1. IsKeptSeries(f, 0, s, limits)
    BY DEF IsKeptSeries
  <2> QED BY <2>1
<1>2. \A n \in Nat : n \in G => n + 1 \in G
  <2> SUFFICES ASSUME NEW n \in Nat, n \in G PROVE n + 1 \in G
    OBVIOUS
  <2>1. PICK f : IsKeptSeries(f, n, s, limits)
    OBVIOUS
  <2> DEFINE g == [i \in 0 .. n + 1 |->
            IF i = 0 THEN [records |-> <<>>, samples |-> 0, full |-> FALSE]
            ELSE KeepSeries(f[i - 1], s[i], limits)]
  <2>2. \A i \in 0 .. n :
            f[i] = IF i = 0 THEN [records |-> <<>>, samples |-> 0, full |-> FALSE]
                   ELSE KeepSeries(f[i - 1], s[i], limits)
    BY <2>1 DEF IsKeptSeries
  <2>3. \A i \in 0 .. n : g[i] = f[i]
    BY <2>2
  <2>4. g = [i \in 0 .. n + 1 |->
            IF i = 0 THEN [records |-> <<>>, samples |-> 0, full |-> FALSE]
            ELSE KeepSeries(g[i - 1], s[i], limits)]
    <3>1. \A i \in 0 .. n + 1 : i # 0 => i - 1 \in 0 .. n
      OBVIOUS
    <3> QED BY <2>3, <3>1
  <2> HIDE DEF g
  <2>5. IsKeptSeries(g, n + 1, s, limits)
    BY <2>4 DEF IsKeptSeries
  <2> QED BY <2>5
<1> HIDE DEF G
<1>3. Nat \subseteq G
  BY <1>1, <1>2, CountingUp
<1> QED BY <1>3 DEF G

LEMMA MatrixIsLast ==
  ASSUME NEW s, NEW limits, Len(s) \in Nat
  PROVE  \E f : /\ IsKeptSeries(f, Len(s), s, limits)
                /\ MatrixRecords(s, limits) = f[Len(s)]
<1> DEFINE f == CHOOSE f : IsKeptSeries(f, Len(s), s, limits)
<1>1. IsKeptSeries(f, Len(s), s, limits)
  BY KeptSeriesExists
<1>2. MatrixRecords(s, limits) = f[Len(s)]
  BY Zenon DEF MatrixRecords, IsKeptSeries
<1> QED BY <1>1, <1>2

IsKeptStreams(f, n, s, limits) ==
    f = [i \in 0 .. n |->
            IF i = 0 THEN [records |-> <<>>, streams |-> 0, full |-> FALSE]
            ELSE KeepStream(f[i - 1], s[i], limits)]

LEMMA KeptStreamsExists ==
  ASSUME NEW s, NEW limits
  PROVE  \A n \in Nat : \E f : IsKeptStreams(f, n, s, limits)
<1> DEFINE G == {n \in Nat : \E f : IsKeptStreams(f, n, s, limits)}
<1>1. 0 \in G
  <2> DEFINE f == [i \in 0 .. 0 |-> [records |-> <<>>, streams |-> 0, full |-> FALSE]]
  <2>1. IsKeptStreams(f, 0, s, limits)
    BY DEF IsKeptStreams
  <2> QED BY <2>1
<1>2. \A n \in Nat : n \in G => n + 1 \in G
  <2> SUFFICES ASSUME NEW n \in Nat, n \in G PROVE n + 1 \in G
    OBVIOUS
  <2>1. PICK f : IsKeptStreams(f, n, s, limits)
    OBVIOUS
  <2> DEFINE g == [i \in 0 .. n + 1 |->
            IF i = 0 THEN [records |-> <<>>, streams |-> 0, full |-> FALSE]
            ELSE KeepStream(f[i - 1], s[i], limits)]
  <2>2. \A i \in 0 .. n :
            f[i] = IF i = 0 THEN [records |-> <<>>, streams |-> 0, full |-> FALSE]
                   ELSE KeepStream(f[i - 1], s[i], limits)
    BY <2>1 DEF IsKeptStreams
  <2>3. \A i \in 0 .. n : g[i] = f[i]
    BY <2>2
  <2>4. g = [i \in 0 .. n + 1 |->
            IF i = 0 THEN [records |-> <<>>, streams |-> 0, full |-> FALSE]
            ELSE KeepStream(g[i - 1], s[i], limits)]
    <3>1. \A i \in 0 .. n + 1 : i # 0 => i - 1 \in 0 .. n
      OBVIOUS
    <3> QED BY <2>3, <3>1
  <2> HIDE DEF g
  <2>5. IsKeptStreams(g, n + 1, s, limits)
    BY <2>4 DEF IsKeptStreams
  <2> QED BY <2>5
<1> HIDE DEF G
<1>3. Nat \subseteq G
  BY <1>1, <1>2, CountingUp
<1> QED BY <1>3 DEF G

LEMMA StreamsIsLast ==
  ASSUME NEW s, NEW limits, Len(s) \in Nat
  PROVE  \E f : /\ IsKeptStreams(f, Len(s), s, limits)
                /\ StreamRecords(s, limits) = f[Len(s)]
<1> DEFINE f == CHOOSE f : IsKeptStreams(f, Len(s), s, limits)
<1>1. IsKeptStreams(f, Len(s), s, limits)
  BY KeptStreamsExists
<1>2. StreamRecords(s, limits) = f[Len(s)]
  BY Zenon DEF StreamRecords, IsKeptStreams
<1> QED BY <1>1, <1>2

LEMMA BothInOne ==
  ASSUME NEW S, NEW u \in Seq(S), NEW v \in Seq(S)
  PROVE  /\ u \o v \in Seq(S) /\ Len(u \o v) = Len(u) + Len(v)
         /\ \A n \in 1 .. Len(u) : (u \o v)[n] = u[n]
         /\ \A n \in 1 .. Len(v) : (u \o v)[Len(u) + n] = v[n]
  OBVIOUS

LEMMA TotalSteps ==
  ASSUME NEW S, NEW s \in Seq(Seq(S))
  PROVE  \E f : /\ f[0] = 0 /\ f[Len(s)] = TotalLength(s)
                /\ \A n \in 0 .. Len(s) : f[n] \in Nat
                /\ \A n \in 1 .. Len(s) : f[n] = f[n - 1] + Len(s[n])
<1>1. PICK f : IsTotal(f, Len(s), s) /\ TotalLength(s) = f[Len(s)]
  BY TotalIsLast
<1>2. f[0] = 0 /\ \A n \in 1 .. Len(s) : f[n] = f[n - 1] + Len(s[n])
  <2>1. \A i \in 0 .. Len(s) : f[i] = IF i = 0 THEN 0 ELSE f[i - 1] + Len(s[i])
    BY <1>1 DEF IsTotal
  <2>2. 0 \in 0 .. Len(s) /\ \A i \in 1 .. Len(s) : i \in 0 .. Len(s) /\ i # 0
    OBVIOUS
  <2> QED BY <2>1, <2>2
<1> DEFINE G == {n \in Nat : n <= Len(s) => f[n] \in Nat}
<1>3. 0 \in G
  BY <1>2
<1>4. \A n \in Nat : n \in G => n + 1 \in G
  <2> SUFFICES ASSUME NEW n \in Nat, n \in G, n + 1 <= Len(s)
               PROVE  f[n + 1] \in Nat
    OBVIOUS
  <2>1. f[n] \in Nat /\ n + 1 \in 1 .. Len(s) /\ (n + 1) - 1 = n
    OBVIOUS
  <2>2. Len(s[n + 1]) \in Nat
    BY <2>1
  <2> QED BY <1>2, <2>1, <2>2
<1> HIDE DEF G
<1>5. Nat \subseteq G
  BY <1>3, <1>4, CountingUp
<1>6. \A n \in 0 .. Len(s) : f[n] \in Nat
  BY <1>5 DEF G
<1> QED BY <1>1, <1>2, <1>6

LEMMA TotalIsNat ==
  ASSUME NEW S, NEW s \in Seq(Seq(S))
  PROVE  TotalLength(s) \in Nat
  BY TotalSteps

LEMMA ConcatenationKeeps ==
  ASSUME NEW S, NEW s \in Seq(Seq(S))
  PROVE  Concatenation(s) \in Seq(S) /\ Len(Concatenation(s)) = TotalLength(s)
<1>1. PICK f : IsJoined(f, Len(s), s) /\ Concatenation(s) = f[Len(s)]
  BY ConcatenationIsLast
<1>2. f[0] = <<>> /\ \A n \in 1 .. Len(s) : f[n] = f[n - 1] \o s[n]
  <2>1. \A i \in 0 .. Len(s) : f[i] = IF i = 0 THEN <<>> ELSE f[i - 1] \o s[i]
    BY <1>1 DEF IsJoined
  <2>2. 0 \in 0 .. Len(s) /\ \A i \in 1 .. Len(s) : i \in 0 .. Len(s) /\ i # 0
    OBVIOUS
  <2> QED BY <2>1, <2>2
<1>3. PICK t : /\ t[0] = 0 /\ t[Len(s)] = TotalLength(s)
               /\ \A n \in 0 .. Len(s) : t[n] \in Nat
               /\ \A n \in 1 .. Len(s) : t[n] = t[n - 1] + Len(s[n])
  BY TotalSteps
<1> DEFINE G == {n \in Nat : n <= Len(s) => f[n] \in Seq(S) /\ Len(f[n]) = t[n]}
<1>4. 0 \in G
  <2>1. <<>> \in Seq(S) /\ Len(<<>>) = 0
    OBVIOUS
  <2> QED BY <1>2, <1>3, <2>1
<1>5. \A n \in Nat : n \in G => n + 1 \in G
  <2> SUFFICES ASSUME NEW n \in Nat, n \in G, n + 1 <= Len(s)
               PROVE  f[n + 1] \in Seq(S) /\ Len(f[n + 1]) = t[n + 1]
    OBVIOUS
  <2>1. /\ f[n] \in Seq(S) /\ Len(f[n]) = t[n]
        /\ n + 1 \in 1 .. Len(s) /\ (n + 1) - 1 = n
    OBVIOUS
  <2>2. s[n + 1] \in Seq(S) /\ f[n + 1] = f[n] \o s[n + 1]
    <3>1. s[n + 1] \in Seq(S)
      BY <2>1
    <3> QED BY <1>2, <2>1, <3>1
  <2>3. t[n + 1] = t[n] + Len(s[n + 1])
    BY <1>3, <2>1
  <2> DEFINE u == f[n]
             v == s[n + 1]
  <2>4. u \in Seq(S) /\ v \in Seq(S) /\ Len(u) = t[n]
    BY <2>1, <2>2
  <2> HIDE DEF u, v
  <2>5. u \o v \in Seq(S) /\ Len(u \o v) = Len(u) + Len(v)
    BY <2>4, BothInOne
  <2> QED BY <2>2, <2>3, <2>4, <2>5 DEF u, v
<1> HIDE DEF G
<1>6. Len(s) \in G
  BY <1>4, <1>5, CountingUp
<1> QED BY <1>1, <1>3, <1>6 DEF G

LEMMA TotalOfBoth ==
  ASSUME NEW S, NEW a \in Seq(Seq(S)), NEW b \in Seq(Seq(S))
  PROVE  TotalLength(a \o b) = TotalLength(a) + TotalLength(b)
<1> DEFINE c == a \o b
           k == Len(a)
           m == Len(b)
<1>1. /\ c \in Seq(Seq(S)) /\ Len(c) = k + m /\ k \in Nat /\ m \in Nat
      /\ \A n \in 1 .. k : c[n] = a[n]
      /\ \A n \in 1 .. m : c[k + n] = b[n]
  OBVIOUS
<1> HIDE DEF c
<1>2. PICK f : /\ f[0] = 0 /\ f[k] = TotalLength(a)
               /\ \A n \in 0 .. k : f[n] \in Nat
               /\ \A n \in 1 .. k : f[n] = f[n - 1] + Len(a[n])
  BY TotalSteps
<1>3. PICK g : /\ g[0] = 0 /\ g[m] = TotalLength(b)
               /\ \A n \in 0 .. m : g[n] \in Nat
               /\ \A n \in 1 .. m : g[n] = g[n - 1] + Len(b[n])
  BY TotalSteps
<1>4. PICK h : /\ h[0] = 0 /\ h[Len(c)] = TotalLength(c)
               /\ \A n \in 0 .. Len(c) : h[n] \in Nat
               /\ \A n \in 1 .. Len(c) : h[n] = h[n - 1] + Len(c[n])
  BY <1>1, TotalSteps
<1> HIDE DEF k, m
<1> DEFINE G == {n \in Nat : n <= k => h[n] = f[n]}
<1>5. k \in G
  <2>1. 0 \in G
    BY <1>2, <1>4
  <2>2. \A n \in Nat : n \in G => n + 1 \in G
    <3> SUFFICES ASSUME NEW n \in Nat, n \in G, n + 1 <= k
                 PROVE  h[n + 1] = f[n + 1]
      OBVIOUS
    <3>1. /\ h[n] = f[n] /\ n + 1 \in 1 .. k /\ n + 1 \in 1 .. Len(c)
          /\ (n + 1) - 1 = n
      BY <1>1
    <3>2. c[n + 1] = a[n + 1]
      BY <1>1, <3>1
    <3> QED BY <1>2, <1>4, <3>1, <3>2
  <2> HIDE DEF G
  <2> QED BY <1>1, <2>1, <2>2, CountingUp
<1>6. h[k] = f[k]
  BY <1>1, <1>5
<1> DEFINE H == {n \in Nat : n <= m => h[k + n] = f[k] + g[n]}
<1>7. m \in H
  <2>1. 0 \in H
    <3>1. k + 0 = k
      BY <1>1
    <3>2. f[k] \in Nat
      BY <1>1, <1>2
    <3> QED BY <1>3, <1>6, <3>1, <3>2
  <2>2. \A n \in Nat : n \in H => n + 1 \in H
    <3> SUFFICES ASSUME NEW n \in Nat, n \in H, n + 1 <= m
                 PROVE  h[k + (n + 1)] = f[k] + g[n + 1]
      OBVIOUS
    <3>1. /\ h[k + n] = f[k] + g[n] /\ n + 1 \in 1 .. m /\ n \in 0 .. m
          /\ k + (n + 1) \in 1 .. Len(c) /\ (n + 1) - 1 = n
          /\ (k + (n + 1)) - 1 = k + n
      BY <1>1
    <3>2. c[k + (n + 1)] = b[n + 1] /\ Len(b[n + 1]) \in Nat
      <4>1. c[k + (n + 1)] = b[n + 1]
        BY <1>1, <3>1
      <4>2. b[n + 1] \in Seq(S)
        BY <3>1 DEF m
      <4> QED BY <4>1, <4>2
    <3>3. f[k] \in Nat /\ g[n] \in Nat
      BY <1>1, <1>2, <1>3, <3>1
    <3>4. h[k + (n + 1)] = h[k + n] + Len(b[n + 1])
      BY <1>4, <3>1, <3>2
    <3>5. g[n + 1] = g[n] + Len(b[n + 1])
      BY <1>3, <3>1
    <3> QED BY <3>1, <3>2, <3>3, <3>4, <3>5
  <2> HIDE DEF H
  <2> QED BY <1>1, <2>1, <2>2, CountingUp
<1>8. h[k + m] = f[k] + g[m]
  BY <1>1, <1>7
<1> QED BY <1>1, <1>2, <1>3, <1>4, <1>8 DEF c

LEMMA TotalOfOne ==
  ASSUME NEW S, NEW x \in Seq(S)
  PROVE  TotalLength(<<x>>) = Len(x)
<1> DEFINE s == <<x>>
<1>1. s \in Seq(Seq(S)) /\ Len(s) = 1 /\ s[1] = x
  OBVIOUS
<1> HIDE DEF s
<1>2. PICK f : /\ f[0] = 0 /\ f[Len(s)] = TotalLength(s)
               /\ \A n \in 1 .. Len(s) : f[n] = f[n - 1] + Len(s[n])
  BY <1>1, TotalSteps
<1>3. f[1] = f[0] + Len(x)
  BY <1>1, <1>2
<1> QED BY <1>1, <1>2, <1>3 DEF s

LEMMA LimitedIs ==
  ASSUME NEW S, NEW s \in Seq(S), NEW n \in Int
  PROVE  /\ Limited(s, n) \in Seq(S)
         /\ Len(Limited(s, n)) = IF n > 0 THEN Lower(n, Len(s)) ELSE Len(s)
         /\ \A i \in 1 .. Len(Limited(s, n)) : Limited(s, n)[i] = s[i]
         /\ n <= 0 \/ Len(s) <= n => Limited(s, n) = s
<1>1. CASE n <= 0
  BY <1>1 DEF Limited
<1>2. CASE n > 0
  <2> DEFINE m == Lower(n, Len(s))
  <2>1. m \in 0 .. Len(s) /\ (Len(s) <= n => m = Len(s))
    BY <1>2 DEF Lower
  <2>2. Limited(s, n) = SubSeq(s, 1, m)
    BY <1>2 DEF Limited
  <2> HIDE DEF m
  <2>3. /\ SubSeq(s, 1, m) \in Seq(S) /\ Len(SubSeq(s, 1, m)) = m
        /\ \A i \in 1 .. m : SubSeq(s, 1, m)[i] = s[i]
    BY <2>1
  <2>4. m = Len(s) => SubSeq(s, 1, m) = s
    BY <2>1, <2>3
  <2> QED BY <1>2, <2>1, <2>2, <2>3, <2>4 DEF m
<1> QED BY <1>1, <1>2

LEMMA ReportedTyped ==
  ASSUME NEW S, NEW pod \in Seq(S)
  PROVE  ReportedStates(pod) \in Seq(S)
<1>1. MaxContainers \in Int
  BY EvidenceAssumption
<1>2. Limited(pod, MaxContainers) \in Seq(S)
  BY <1>1, LimitedIs
<1> QED BY <1>2, OnlyInKeeps DEF ReportedStates

LEMMA AllReportedTyped ==
  ASSUME NEW S, NEW a \in Seq(Seq(S))
  PROVE  /\ AllReported(a) \in Seq(Seq(S)) /\ Len(AllReported(a)) = Len(a)
         /\ \A i \in 1 .. Len(a) : AllReported(a)[i] = ReportedStates(a[i])
<1>1. \A i \in 1 .. Len(a) : ReportedStates(a[i]) \in Seq(S)
  BY ReportedTyped
<1>2. AllReported(a) = [i \in 1 .. Len(a) |-> ReportedStates(a[i])]
  BY DEF AllReported
<1> QED BY <1>1, <1>2

LEMMA AllReportedBoth ==
  ASSUME NEW S, NEW a \in Seq(Seq(S)), NEW b \in Seq(Seq(S))
  PROVE  AllReported(a \o b) = AllReported(a) \o AllReported(b)
<1> DEFINE c == a \o b
           x == AllReported(a)
           y == AllReported(b)
           z == AllReported(c)
<1>1. /\ c \in Seq(Seq(S)) /\ Len(c) = Len(a) + Len(b)
      /\ \A n \in 1 .. Len(a) : c[n] = a[n]
      /\ \A n \in 1 .. Len(b) : c[Len(a) + n] = b[n]
  BY BothInOne
<1> HIDE DEF c
<1>2. /\ x \in Seq(Seq(S)) /\ Len(x) = Len(a)
      /\ \A i \in 1 .. Len(a) : x[i] = ReportedStates(a[i])
  BY AllReportedTyped
<1>3. /\ y \in Seq(Seq(S)) /\ Len(y) = Len(b)
      /\ \A i \in 1 .. Len(b) : y[i] = ReportedStates(b[i])
  BY AllReportedTyped
<1>4. /\ z \in Seq(Seq(S)) /\ Len(z) = Len(c)
      /\ \A i \in 1 .. Len(c) : z[i] = ReportedStates(c[i])
  BY <1>1, AllReportedTyped
<1> HIDE DEF x, y, z
<1>5. /\ x \o y \in Seq(Seq(S)) /\ Len(x \o y) = Len(a) + Len(b)
      /\ \A n \in 1 .. Len(a) : (x \o y)[n] = x[n]
      /\ \A n \in 1 .. Len(b) : (x \o y)[Len(a) + n] = y[n]
  <2>1. /\ x \o y \in Seq(Seq(S)) /\ Len(x \o y) = Len(x) + Len(y)
        /\ \A n \in 1 .. Len(x) : (x \o y)[n] = x[n]
        /\ \A n \in 1 .. Len(y) : (x \o y)[Len(x) + n] = y[n]
    <3>1. x \in Seq(Seq(S)) /\ y \in Seq(Seq(S))
      BY <1>2, <1>3
    <3> QED BY ONLY <3>1, BothInOne
  <2> QED BY <1>2, <1>3, <2>1
<1> DEFINE w == x \o y
<1>6. \A n \in 1 .. Len(c) : z[n] = w[n]
  <2> SUFFICES ASSUME NEW n \in 1 .. Len(c) PROVE z[n] = w[n]
    OBVIOUS
  <2>1. Len(a) \in Nat /\ Len(b) \in Nat
    OBVIOUS
  <2>2. CASE n \in 1 .. Len(a)
    BY <1>1, <1>2, <1>4, <1>5, <2>2
  <2>3. CASE n \notin 1 .. Len(a)
    <3>1. PICK k \in 1 .. Len(b) : n = Len(a) + k
      <4>1. n - Len(a) \in 1 .. Len(b) /\ n = Len(a) + (n - Len(a))
        BY <1>1, <2>1, <2>3
      <4> QED BY <4>1
    <3>2. z[n] = ReportedStates(c[Len(a) + k]) /\ c[Len(a) + k] = b[k]
      BY <1>1, <1>4, <3>1
    <3>3. w[n] = y[k] /\ y[k] = ReportedStates(b[k])
      BY <1>3, <1>5, <3>1
    <3> QED BY <3>2, <3>3
  <2> QED BY <2>2, <2>3
<1>7. w \in Seq(Seq(S)) /\ Len(w) = Len(z)
  BY <1>1, <1>4, <1>5
<1> HIDE DEF w
<1>8. z = w
  BY <1>1, <1>4, <1>6, <1>7
<1> QED BY <1>8 DEF c, x, y, z, w

\* Pods reported one after the other count together.
LEMMA ReportedTotals ==
  ASSUME NEW S, NEW a \in Seq(Seq(S)), NEW b \in Seq(Seq(S))
  PROVE  TotalLength(AllReported(a \o b))
             = TotalLength(AllReported(a)) + TotalLength(AllReported(b))
<1>1. AllReported(a) \in Seq(Seq(S)) /\ AllReported(b) \in Seq(Seq(S))
  BY AllReportedTyped
<1>2. AllReported(a \o b) = AllReported(a) \o AllReported(b)
  BY AllReportedBoth
<1> HIDE DEF AllReported
<1> QED BY <1>1, <1>2, TotalOfBoth

LEMMA ReportedOneMore ==
  ASSUME NEW S, NEW a \in Seq(Seq(S)), NEW x \in Seq(S)
  PROVE  TotalLength(AllReported(Append(a, x)))
             = TotalLength(AllReported(a)) + Len(ReportedStates(x))
<1>1. Append(a, x) = a \o <<x>> /\ <<x>> \in Seq(Seq(S))
  OBVIOUS
<1>2. AllReported(<<x>>) = <<ReportedStates(x)>>
  BY DEF AllReported
<1>3. TotalLength(<<ReportedStates(x)>>) = Len(ReportedStates(x))
  BY ReportedTyped, TotalOfOne
<1>4. TotalLength(AllReported(a \o <<x>>))
          = TotalLength(AllReported(a)) + TotalLength(AllReported(<<x>>))
  BY <1>1, ReportedTotals
<1> QED BY <1>1, <1>2, <1>3, <1>4

LEMMA SplitReported ==
  ASSUME NEW S, NEW s \in Seq(Seq(S)), NEW T
  PROVE  \A a, b : a = OnlyIn(s, T) /\ b = OnlyIn(s, ToSet(s) \ T) =>
             /\ a \in Seq(Seq(S)) /\ b \in Seq(Seq(S))
             /\ Len(a) + Len(b) = Len(s)
             /\ TotalLength(AllReported(a)) + TotalLength(AllReported(b))
                    = TotalLength(AllReported(s))
<1> DEFINE R == ToSet(s) \ T
           Sum(x) == TotalLength(AllReported(x))
<1>1. PICK f : IsKept(f, Len(s), s, T) /\ OnlyIn(s, T) = f[Len(s)]
  BY OnlyInIsLast
<1>2. PICK g : IsKept(g, Len(s), s, R) /\ OnlyIn(s, R) = g[Len(s)]
  BY OnlyInIsLast
<1>3. PICK t : /\ t[0] = 0 /\ t[Len(s)] = Sum(s)
               /\ \A n \in 0 .. Len(s) : t[n] \in Nat
               /\ \A n \in 1 .. Len(s) : t[n] = t[n - 1] + Len(ReportedStates(s[n]))
  <2> DEFINE all == AllReported(s)
  <2>1. /\ all \in Seq(Seq(S)) /\ Len(all) = Len(s)
        /\ \A i \in 1 .. Len(s) : all[i] = ReportedStates(s[i])
    BY AllReportedTyped
  <2> HIDE DEF all
  <2>2. PICK t : /\ t[0] = 0 /\ t[Len(all)] = TotalLength(all)
                 /\ \A n \in 0 .. Len(all) : t[n] \in Nat
                 /\ \A n \in 1 .. Len(all) : t[n] = t[n - 1] + Len(all[n])
    BY <2>1, TotalSteps
  <2>3. /\ t[0] = 0 /\ t[Len(s)] = TotalLength(all)
        /\ \A n \in 0 .. Len(s) : t[n] \in Nat
        /\ \A n \in 1 .. Len(s) : t[n] = t[n - 1] + Len(ReportedStates(s[n]))
    BY <2>1, <2>2
  <2> QED BY <2>3 DEF all
<1>4. f[0] = <<>> /\ \A n \in 1 .. Len(s) :
          f[n] = IF s[n] \in T THEN Append(f[n - 1], s[n]) ELSE f[n - 1]
  <2>1. \A i \in 0 .. Len(s) : f[i] = IF i = 0 THEN <<>>
            ELSE IF s[i] \in T THEN Append(f[i - 1], s[i]) ELSE f[i - 1]
    BY <1>1 DEF IsKept
  <2>2. 0 \in 0 .. Len(s) /\ \A i \in 1 .. Len(s) : i \in 0 .. Len(s) /\ i # 0
    OBVIOUS
  <2> QED BY <2>1, <2>2
<1>5. g[0] = <<>> /\ \A n \in 1 .. Len(s) :
          g[n] = IF s[n] \in R THEN Append(g[n - 1], s[n]) ELSE g[n - 1]
  <2>1. \A i \in 0 .. Len(s) : g[i] = IF i = 0 THEN <<>>
            ELSE IF s[i] \in R THEN Append(g[i - 1], s[i]) ELSE g[i - 1]
    BY <1>2 DEF IsKept
  <2>2. 0 \in 0 .. Len(s) /\ \A i \in 1 .. Len(s) : i \in 0 .. Len(s) /\ i # 0
    OBVIOUS
  <2> QED BY <2>1, <2>2
<1>6. \A n \in 1 .. Len(s) : s[n] \in R <=> s[n] \notin T
  BY DEF ToSet
<1> HIDE DEF R, Sum
<1>7. Sum(<<>>) = 0
  <2>1. AllReported(<<>>) = <<>>
    BY DEF AllReported
  <2> DEFINE e == <<>>
  <2>2. e \in Seq(Seq(S)) /\ Len(e) = 0
    OBVIOUS
  <2> HIDE DEF e
  <2>3. TotalLength(e) = 0
    BY <2>2, TotalSteps
  <2> QED BY <2>1, <2>3 DEF e, Sum
<1>8. /\ \A a \in Seq(Seq(S)) : Sum(a) \in Nat
      /\ \A a \in Seq(Seq(S)), x \in Seq(S) :
             Sum(Append(a, x)) = Sum(a) + Len(ReportedStates(x))
  <2>1. \A a \in Seq(Seq(S)) : AllReported(a) \in Seq(Seq(S))
    BY AllReportedTyped
  <2>2. \A a \in Seq(Seq(S)) : Sum(a) \in Nat
    BY <2>1, TotalIsNat DEF Sum
  <2>3. \A a \in Seq(Seq(S)), x \in Seq(S) :
             Sum(Append(a, x)) = Sum(a) + Len(ReportedStates(x))
    BY ReportedOneMore DEF Sum
  <2> QED BY <2>2, <2>3
<1> DEFINE Good(n) == /\ f[n] \in Seq(Seq(S)) /\ g[n] \in Seq(Seq(S))
                      /\ Len(f[n]) + Len(g[n]) = n
                      /\ Sum(f[n]) + Sum(g[n]) = t[n]
           G == {n \in Nat : n <= Len(s) => Good(n)}
<1>9. 0 \in G
  <2>1. <<>> \in Seq(Seq(S)) /\ Len(<<>>) = 0
    OBVIOUS
  <2>2. f[0] \in Seq(Seq(S)) /\ g[0] \in Seq(Seq(S))
    BY <1>4, <1>5, <2>1
  <2>3. Len(f[0]) + Len(g[0]) = 0
    BY <1>4, <1>5, <2>1
  <2>4. Sum(f[0]) + Sum(g[0]) = t[0]
    BY <1>3, <1>4, <1>5, <1>7
  <2> QED BY <2>2, <2>3, <2>4
<1>10. ASSUME NEW n \in Nat, Good(n), n + 1 <= Len(s)
       PROVE  Good(n + 1)
  <2> DEFINE x == s[n + 1]
             a == f[n]
             b == g[n]
             c == Len(ReportedStates(x))
  <2>1. n + 1 \in 1 .. Len(s) /\ n \in 0 .. Len(s) /\ (n + 1) - 1 = n
    BY <1>10
  <2>2. x \in Seq(S)
    BY <2>1
  <2>3. c \in Nat
    BY <2>2, ReportedTyped
  <2>4. /\ a \in Seq(Seq(S)) /\ b \in Seq(Seq(S)) /\ Len(a) + Len(b) = n
        /\ Sum(a) + Sum(b) = t[n] /\ Sum(a) \in Nat /\ Sum(b) \in Nat
    BY <1>8, <1>10
  <2>5. t[n + 1] = t[n] + c
    BY <1>3, <2>1
  <2>6. /\ f[n + 1] = IF x \in T THEN Append(a, x) ELSE a
        /\ g[n + 1] = IF x \in T THEN b ELSE Append(b, x)
    BY <1>4, <1>5, <1>6, <2>1
  <2> HIDE DEF x, a, b, c, Good
  <2>7. \A y \in Seq(Seq(S)) : /\ Append(y, x) \in Seq(Seq(S))
                               /\ Len(Append(y, x)) = Len(y) + 1
    BY <2>2
  <2>8. \A y \in Seq(Seq(S)) : Sum(Append(y, x)) = Sum(y) + c
    BY <1>8, <2>2 DEF c
  <2>9. t[n] \in Nat /\ Len(a) \in Nat /\ Len(b) \in Nat
    BY <1>3, <2>1, <2>4
  <2>10. CASE x \in T
    <3>1. f[n + 1] = Append(a, x) /\ g[n + 1] = b
      BY <2>6, <2>10
    <3>2. /\ Append(a, x) \in Seq(Seq(S)) /\ Len(Append(a, x)) = Len(a) + 1
          /\ Sum(Append(a, x)) = Sum(a) + c
      BY <2>4, <2>7, <2>8
    <3>3. /\ Len(Append(a, x)) + Len(b) = n + 1
          /\ Sum(Append(a, x)) + Sum(b) = t[n + 1]
      BY <2>3, <2>4, <2>5, <2>9, <3>2
    <3> QED BY <2>4, <3>1, <3>2, <3>3 DEF Good
  <2>11. CASE x \notin T
    <3>1. f[n + 1] = a /\ g[n + 1] = Append(b, x)
      BY <2>6, <2>11
    <3>2. /\ Append(b, x) \in Seq(Seq(S)) /\ Len(Append(b, x)) = Len(b) + 1
          /\ Sum(Append(b, x)) = Sum(b) + c
      BY <2>4, <2>7, <2>8
    <3>3. /\ Len(a) + Len(Append(b, x)) = n + 1
          /\ Sum(a) + Sum(Append(b, x)) = t[n + 1]
      BY <2>3, <2>4, <2>5, <2>9, <3>2
    <3> QED BY <2>4, <3>1, <3>2, <3>3 DEF Good
  <2> QED BY <2>10, <2>11
<1>11. Len(s) \in G
  <2> HIDE DEF Good
  <2>1. \A n \in Nat : n \in G => n + 1 \in G
    BY <1>10
  <2> HIDE DEF G
  <2> QED BY <1>9, <2>1, CountingUp
<1>12. Good(Len(s))
  <2> HIDE DEF Good
  <2> QED BY <1>11
<1>13. \A a, b : a = OnlyIn(s, T) /\ b = OnlyIn(s, R) =>
           /\ a \in Seq(Seq(S)) /\ b \in Seq(Seq(S))
           /\ Len(a) + Len(b) = Len(s) /\ Sum(a) + Sum(b) = Sum(s)
  BY <1>1, <1>2, <1>3, <1>12
<1> QED BY <1>13 DEF Sum, R

-----------------------------------------------------------------------------
(* Prometheus.                                                             *)

SeriesRecord == [reason : {"AboveZero", NoReason}, long : {FALSE}]
KeptSeries == [records : Seq(SeriesRecord), samples : Nat, full : BOOLEAN]

RoomFor(kept, samples, limits) ==
    IF limits.samples > 0 THEN limits.samples - kept.samples ELSE Len(samples)

SeriesFull(kept, limits) ==
    kept.full \/ (limits.series > 0 /\ Len(kept.records) >= limits.series)

StandsFor(samples, n) ==
    [reason |-> IF samples[n] > 0 THEN "AboveZero" ELSE NoReason, long |-> FALSE]

\* One step of the loop: it is full from here on, passes a series over, or keeps it.
SeriesStep(kept, samples, limits, after, room, taken) ==
    /\ after \in KeptSeries
    /\ room \in Int
    /\ SeriesFull(kept, limits) \/ (samples # <<>> /\ room <= 0) =>
          /\ after.records = kept.records /\ after.samples = kept.samples
          /\ after.full
    /\ ~ SeriesFull(kept, limits) /\ samples = <<>> => after = kept
    /\ ~ SeriesFull(kept, limits) /\ samples # <<>> /\ room > 0 =>
          /\ after.records = Append(kept.records, StandsFor(samples, taken))
          /\ after.samples = kept.samples + taken
          /\ after.full = kept.full

LEMMA KeepSeriesCases ==
  ASSUME NEW kept \in KeptSeries, NEW samples \in Seq(Int), NEW limits \in Limits,
         NEW after, after = KeepSeries(kept, samples, limits),
         NEW room, room = RoomFor(kept, samples, limits),
         NEW taken, taken = Lower(room, Len(samples))
  PROVE  SeriesStep(kept, samples, limits, after, room, taken)
<1> USE DEF SeriesStep
<1>1. room \in Int
  BY DEF RoomFor, KeptSeries, Limits
<1> DEFINE new == StandsFor(samples, taken)
<1>2. after = IF SeriesFull(kept, limits) THEN [kept EXCEPT !.full = TRUE]
              ELSE IF samples = <<>> THEN kept
              ELSE IF room <= 0 THEN [kept EXCEPT !.full = TRUE]
              ELSE [kept EXCEPT !.records = Append(@, new), !.samples = @ + taken]
  BY DEF KeepSeries, RoomFor, SeriesFull, StandsFor, Record
<1>3. new \in SeriesRecord
  BY DEF StandsFor, SeriesRecord
<1> HIDE DEF new
<1>4. Append(kept.records, new) \in Seq(SeriesRecord)
  BY <1>3 DEF KeptSeries
<1>5. CASE SeriesFull(kept, limits) \/ (samples # <<>> /\ room <= 0)
  <2>1. after = [kept EXCEPT !.full = TRUE]
    BY <1>2, <1>5
  <2>2. after.records = kept.records /\ after.samples = kept.samples /\ after.full
    BY <2>1 DEF KeptSeries
  <2>3. after \in KeptSeries
    BY <2>1 DEF KeptSeries
  <2>4. /\ ~ (~ SeriesFull(kept, limits) /\ samples = <<>>)
        /\ ~ (~ SeriesFull(kept, limits) /\ samples # <<>> /\ room > 0)
    BY <1>1, <1>5
  <2> QED BY <1>1, <2>2, <2>3, <2>4
<1>6. CASE ~ SeriesFull(kept, limits) /\ samples = <<>>
  BY <1>1, <1>2, <1>6
<1>7. CASE ~ SeriesFull(kept, limits) /\ samples # <<>> /\ room > 0
  <2> DEFINE rs == Append(kept.records, new)
             ss == kept.samples + taken
  <2>1. after = [kept EXCEPT !.records = rs, !.samples = ss]
    BY <1>1, <1>2, <1>7
  <2>2. ss \in Nat
    BY <1>1, <1>7 DEF KeptSeries, Lower
  <2>3. rs \in Seq(SeriesRecord)
    BY <1>4
  <2> HIDE DEF rs, ss
  <2>4. after.records = rs /\ after.samples = ss /\ after.full = kept.full
    BY <2>1 DEF KeptSeries
  <2>5. after \in KeptSeries
    BY <2>1, <2>2, <2>3 DEF KeptSeries
  <2>6. ~ (SeriesFull(kept, limits) \/ (samples # <<>> /\ room <= 0)) /\ samples # <<>>
    BY <1>1, <1>7
  <2> QED BY <1>1, <2>4, <2>5, <2>6 DEF rs, ss, new
<1> QED BY <1>1, <1>5, <1>6, <1>7

LEMMA OneAppended ==
  ASSUME NEW S, NEW r \in Seq(S), NEW y \in S
  PROVE  /\ Append(r, y) \in Seq(S) /\ Append(r, y) # <<>>
         /\ Len(Append(r, y)) = Len(r) + 1
<1>1. Append(r, y) \in Seq(S) /\ Len(Append(r, y)) = Len(r) + 1 /\ Len(r) \in Nat
  OBVIOUS
<1>2. Len(<<>>) = 0
  OBVIOUS
<1> QED BY <1>1, <1>2

MatrixIsFaithful(s, limits, M, U) ==
    /\ M \in KeptSeries /\ U \in KeptSeries
    /\ Len(U.records) = Len(OnlyIn(s, ToSet(s) \ {<<>>}))
    /\ M.records = <<>> => U.records = <<>>
    /\ PrometheusLimit(Len(s), TotalLength(s), M, limits) = NoLimit
           => M.records = U.records

(* The loop under limits and the loop without go through the series        *)
(* together until a limit is exceeded, and a limit that is exceeded is     *)
(* what prometheusLimit reports.                                           *)
LEMMA MatrixFaithful ==
  ASSUME NEW s \in Seq(Seq(Int)), NEW limits \in Limits,
         NEW none \in Limits, none.series = 0, none.samples = 0,
         NEW M, M = MatrixRecords(s, limits), NEW U, U = MatrixRecords(s, none)
  PROVE  MatrixIsFaithful(s, limits, M, U)
<1> DEFINE T == ToSet(s) \ {<<>>}
           N == Len(s)
<1>1. N \in Nat
  OBVIOUS
<1>2. PICK f : IsKeptSeries(f, N, s, limits) /\ M = f[N]
  BY <1>1, MatrixIsLast
<1>3. PICK g : IsKeptSeries(g, N, s, none) /\ U = g[N]
  BY <1>1, MatrixIsLast
<1>4. PICK k : IsKept(k, N, s, T) /\ OnlyIn(s, T) = k[N]
  BY <1>1, OnlyInIsLast
<1>5. PICK t : /\ t[0] = 0 /\ t[N] = TotalLength(s)
               /\ \A n \in 0 .. N : t[n] \in Nat
               /\ \A n \in 1 .. N : t[n] = t[n - 1] + Len(s[n])
  BY TotalSteps
<1> DEFINE start == [records |-> <<>>, samples |-> 0, full |-> FALSE]
<1>6. f[0] = start /\ \A n \in 1 .. N : f[n] = KeepSeries(f[n - 1], s[n], limits)
  <2>1. \A i \in 0 .. N : f[i] = IF i = 0 THEN start
                                 ELSE KeepSeries(f[i - 1], s[i], limits)
    BY <1>2 DEF IsKeptSeries
  <2>2. 0 \in 0 .. N /\ \A i \in 1 .. N : i \in 0 .. N /\ i # 0
    OBVIOUS
  <2> HIDE DEF start
  <2> QED BY <2>1, <2>2
<1>7. g[0] = start /\ \A n \in 1 .. N : g[n] = KeepSeries(g[n - 1], s[n], none)
  <2>1. \A i \in 0 .. N : g[i] = IF i = 0 THEN start
                                 ELSE KeepSeries(g[i - 1], s[i], none)
    BY <1>3 DEF IsKeptSeries
  <2>2. 0 \in 0 .. N /\ \A i \in 1 .. N : i \in 0 .. N /\ i # 0
    OBVIOUS
  <2> HIDE DEF start
  <2> QED BY <2>1, <2>2
<1>8. k[0] = <<>> /\ \A n \in 1 .. N :
          k[n] = IF s[n] # <<>> THEN Append(k[n - 1], s[n]) ELSE k[n - 1]
  <2>1. \A i \in 0 .. N : k[i] = IF i = 0 THEN <<>>
            ELSE IF s[i] \in T THEN Append(k[i - 1], s[i]) ELSE k[i - 1]
    BY <1>4 DEF IsKept
  <2>2. 0 \in 0 .. N /\ \A i \in 1 .. N : i \in 0 .. N /\ i # 0
    OBVIOUS
  <2>3. \A i \in 1 .. N : s[i] \in T <=> s[i] # <<>>
    BY DEF ToSet
  <2> HIDE DEF T, N
  <2> QED BY <2>1, <2>2, <2>3
<1> DEFINE Exceeds(n) == \/ limits.series > 0 /\ n > limits.series
                         \/ limits.samples > 0 /\ t[n] > limits.samples
           Good(n) == /\ f[n] \in KeptSeries /\ g[n] \in KeptSeries
                      /\ k[n] \in Seq(Seq(Int))
                      /\ ~ g[n].full /\ Len(g[n].records) = Len(k[n])
                      /\ f[n].samples <= t[n] /\ Len(f[n].records) <= n
                      /\ f[n].samples > 0 \/ f[n].full => f[n].records # <<>>
                      /\ f[n].records = <<>> => g[n].records = <<>>
                      /\ (~ f[n].full /\ f[n].records = g[n].records) \/ Exceeds(n)
           G == {n \in Nat : n <= N => Good(n)}
<1>9. 0 \in G
  <2>1. /\ start.records = <<>> /\ start.samples = 0 /\ start.full = FALSE
        /\ start \in KeptSeries /\ <<>> \in Seq(Seq(Int)) /\ Len(<<>>) = 0
    BY DEF KeptSeries
  <2> HIDE DEF start
  <2>2. f[0] = start /\ g[0] = start /\ k[0] = <<>> /\ t[0] = 0
    BY <1>5, <1>6, <1>7, <1>8
  <2>3. /\ f[0] \in KeptSeries /\ g[0] \in KeptSeries /\ k[0] \in Seq(Seq(Int))
        /\ ~ g[0].full /\ Len(g[0].records) = Len(k[0])
    BY <2>1, <2>2
  <2>4. /\ f[0].samples <= t[0] /\ Len(f[0].records) <= 0
        /\ ~ (f[0].samples > 0) /\ ~ f[0].full /\ f[0].records = g[0].records
    BY <2>1, <2>2
  <2>5. Good(0)
    <3> HIDE DEF Exceeds
    <3> QED BY <2>2, <2>3, <2>4
  <2> QED BY <2>5
<1>10. ASSUME NEW n \in Nat, Good(n), n + 1 <= N
       PROVE  Good(n + 1)
  <2> DEFINE x == s[n + 1]
             L == Len(x)
             a == f[n]
             b == f[n + 1]
             c == g[n]
             d == g[n + 1]
             room == RoomFor(a, x, limits)
             taken == Lower(room, L)
             free == RoomFor(c, x, none)
  <2>1. n + 1 \in 1 .. N /\ n \in 0 .. N /\ (n + 1) - 1 = n
    BY <1>10
  <2>2. x \in Seq(Int) /\ L \in Nat /\ (x = <<>> <=> L = 0)
    BY <2>1
  <2>3. /\ a \in KeptSeries /\ c \in KeptSeries /\ k[n] \in Seq(Seq(Int))
        /\ ~ c.full /\ Len(c.records) = Len(k[n])
        /\ a.samples <= t[n] /\ Len(a.records) <= n
        /\ a.samples > 0 \/ a.full => a.records # <<>>
        /\ a.records = <<>> => c.records = <<>>
        /\ (~ a.full /\ a.records = c.records) \/ Exceeds(n)
    BY <1>10
  <2>4. b = KeepSeries(a, x, limits) /\ d = KeepSeries(c, x, none)
    BY <1>6, <1>7, <2>1
  <2>5. k[n + 1] = IF x # <<>> THEN Append(k[n], x) ELSE k[n]
    BY <1>8, <2>1
  <2>6. t[n + 1] = t[n] + L /\ t[n] \in Nat /\ t[n + 1] \in Nat
    BY <1>5, <2>1
  <2> HIDE DEF x, L, a, b, c, d, room, taken, free, Good, N
  <2>7. /\ b \in KeptSeries /\ room \in Int
        /\ SeriesFull(a, limits) \/ (x # <<>> /\ room <= 0) =>
                /\ b.records = a.records /\ b.samples = a.samples /\ b.full
        /\ ~ SeriesFull(a, limits) /\ x = <<>> => b = a
        /\ ~ SeriesFull(a, limits) /\ x # <<>> /\ room > 0 =>
                /\ b.records = Append(a.records, StandsFor(x, taken))
                /\ b.samples = a.samples + taken
                /\ b.full = a.full
    <3>1. a \in KeptSeries /\ x \in Seq(Int) /\ limits \in Limits
      BY <2>2, <2>3
    <3>2. room = RoomFor(a, x, limits) /\ taken = Lower(room, Len(x))
      BY DEF room, taken, L
    <3>3. SeriesStep(a, x, limits, b, room, taken)
      BY ONLY <2>4, <3>1, <3>2, KeepSeriesCases
    <3> QED BY <3>3 DEF SeriesStep
  <2>8. /\ d \in KeptSeries
        /\ x = <<>> => d = c
        /\ x # <<>> => d.records = Append(c.records, StandsFor(x, L)) /\ ~ d.full
    <3>1. free = L
      BY DEF free, RoomFor, L
    <3>2. ~ SeriesFull(c, none)
      BY <2>3 DEF SeriesFull
    <3>3. Lower(free, L) = L
      BY <2>2, <3>1 DEF Lower
    <3>4. /\ d \in KeptSeries
          /\ ~ SeriesFull(c, none) /\ x = <<>> => d = c
          /\ ~ SeriesFull(c, none) /\ x # <<>> /\ free > 0 =>
                /\ d.records = Append(c.records, StandsFor(x, Lower(free, L)))
                /\ d.full = c.full
      <4>1. c \in KeptSeries /\ x \in Seq(Int) /\ none \in Limits
        BY <2>2, <2>3
      <4>2. free = RoomFor(c, x, none) /\ L = Len(x)
        BY DEF free, L
      <4>3. SeriesStep(c, x, none, d, free, Lower(free, L))
        BY ONLY <2>4, <4>1, <4>2, KeepSeriesCases
      <4> QED BY <4>3 DEF SeriesStep
    <3> QED BY <2>2, <2>3, <3>1, <3>2, <3>3, <3>4
  <2>9. /\ a.records \in Seq(SeriesRecord) /\ a.samples \in Nat
        /\ c.records \in Seq(SeriesRecord)
        /\ Len(a.records) \in Nat /\ Len(c.records) \in Nat
        /\ \A i : StandsFor(x, i) \in SeriesRecord
        /\ limits.series \in Int /\ limits.samples \in Int
    BY <2>3 DEF KeptSeries, StandsFor, SeriesRecord, Limits
  <2>10. \A r \in Seq(SeriesRecord), y \in SeriesRecord :
             /\ Append(r, y) # <<>> /\ Len(Append(r, y)) = Len(r) + 1
    BY OneAppended
  <2>11. /\ ~ d.full /\ k[n + 1] \in Seq(Seq(Int)) /\ Len(d.records) = Len(k[n + 1])
    <3>1. CASE x = <<>>
      BY <2>3, <2>5, <2>8, <3>1
    <3>2. CASE x # <<>>
      <4>1. Append(k[n], x) \in Seq(Seq(Int)) /\ Len(Append(k[n], x)) = Len(k[n]) + 1
        BY <2>2, <2>3
      <4>2. Len(d.records) = Len(c.records) + 1
        BY <2>8, <2>9, <2>10, <3>2
      <4> QED BY <2>3, <2>5, <2>8, <3>2, <4>1, <4>2
    <3> QED BY <3>1, <3>2
  <2>12. Exceeds(n) => Exceeds(n + 1)
    BY <2>2, <2>6, <2>9
  <2>13. room > 0 /\ x # <<>> => taken \in 1 .. L /\ (taken = room \/ taken = L)
    BY <2>2, <2>7 DEF taken, Lower
  <2>14. /\ a.samples <= t[n] /\ Len(a.records) <= n
         /\ a.samples \in Nat /\ Len(a.records) \in Nat
         /\ t[n] \in Nat /\ t[n + 1] = t[n] + L /\ L \in Nat
         /\ limits.series \in Int /\ limits.samples \in Int
    BY <2>2, <2>3, <2>6, <2>9
  <2>15. CASE SeriesFull(a, limits) \/ (x # <<>> /\ room <= 0)
    <3>1. b.records = a.records /\ b.samples = a.samples /\ b.full
      BY <2>7, <2>15
    <3>2. a.records # <<>>
      <4>1. CASE a.full
        BY <2>3, <4>1
      <4>2. CASE limits.series > 0 /\ Len(a.records) >= limits.series
        BY <2>9, <4>2
      <4>3. CASE x # <<>> /\ room <= 0
        <5>1. limits.samples > 0 /\ limits.samples - a.samples <= 0
          BY <2>2, <4>3 DEF room, RoomFor, L
        <5> QED BY <2>3, <2>9, <5>1
      <4> QED BY <2>15, <4>1, <4>2, <4>3 DEF SeriesFull
    <3>3. Exceeds(n + 1)
      <4>1. CASE a.full
        BY <2>3, <2>12, <4>1
      <4>2. CASE limits.series > 0 /\ Len(a.records) >= limits.series
        BY <2>3, <2>9, <4>2
      <4>3. CASE x # <<>> /\ room <= 0
        <5>1. limits.samples > 0 /\ limits.samples - a.samples <= 0
          BY <2>2, <4>3 DEF room, RoomFor, L
        <5>2. L > 0
          BY <2>2, <4>3
        <5> QED BY <2>14, <5>1, <5>2
      <4> QED BY <2>15, <4>1, <4>2, <4>3 DEF SeriesFull
    <3>4. b.samples <= t[n + 1] /\ Len(b.records) <= n + 1
      BY <2>14, <3>1
    <3> QED BY <2>7, <2>8, <2>11, <3>1, <3>2, <3>3, <3>4 DEF Good, b, d
  <2>16. CASE ~ SeriesFull(a, limits) /\ x = <<>>
    <3>1. b = a /\ d = c
      BY <2>7, <2>8, <2>16
    <3>2. b.samples <= t[n + 1] /\ Len(b.records) <= n + 1
      BY <2>14, <3>1
    <3> QED BY <2>3, <2>7, <2>8, <2>11, <2>12, <3>1, <3>2 DEF Good, b, d
  <2>17. CASE ~ SeriesFull(a, limits) /\ x # <<>> /\ room > 0
    <3>1. /\ b.records = Append(a.records, StandsFor(x, taken))
          /\ b.samples = a.samples + taken /\ b.full = a.full
      BY <2>7, <2>17
    <3>2. b.records # <<>> /\ Len(b.records) = Len(a.records) + 1
      BY <2>9, <2>10, <3>1
    <3>3. b.samples <= t[n + 1] /\ Len(b.records) <= n + 1
      BY <2>13, <2>17, <2>14, <3>1, <3>2
    <3>4. ~ b.full
      BY <2>17, <3>1 DEF SeriesFull
    <3>5. b.records = d.records \/ Exceeds(n + 1)
      <4>1. CASE Exceeds(n)
        BY <2>12, <4>1
      <4>2. CASE a.records = c.records /\ taken = L
        BY <2>8, <2>17, <3>1, <4>2
      <4>3. CASE taken = room /\ taken # L
        <5>1. limits.samples > 0 /\ room = limits.samples - a.samples
          BY <4>3 DEF room, RoomFor, L
        <5>2. room < L
          BY <2>2, <2>13, <2>17, <4>3
        <5> QED BY <2>14, <5>1, <5>2
      <4> QED BY <2>3, <2>13, <2>17, <4>1, <4>2, <4>3
    <3> QED BY <2>7, <2>8, <2>11, <3>2, <3>3, <3>4, <3>5 DEF Good, b, d
  <2> QED BY <2>7, <2>15, <2>16, <2>17
<1>11. Good(N)
  <2> HIDE DEF Good, N
  <2>1. \A n \in Nat : n \in G => n + 1 \in G
    <3> SUFFICES ASSUME NEW n \in Nat, n \in G, n + 1 <= N
                 PROVE  Good(n + 1)
      OBVIOUS
    <3>1. n <= N
      BY <1>1
    <3>2. Good(n)
      BY <3>1
    <3> QED BY <1>10, <3>2
  <2>2. N \in G
    <3> HIDE DEF G
    <3> QED BY <1>1, <1>9, <2>1, CountingUp
  <2> QED BY <1>1, <2>2
<1>12. PrometheusLimit(Len(s), TotalLength(s), M, limits) = NoLimit => ~ Exceeds(N)
  <2>1. CASE limits.series > 0 /\ N > limits.series
    <3>1. PrometheusLimit(Len(s), TotalLength(s), M, limits).original = N
      BY <2>1 DEF PrometheusLimit
    <3>2. N # 0
      BY <1>1, <2>1 DEF Limits
    <3> QED BY <3>1, <3>2 DEF NoLimit
  <2>2. CASE /\ ~ (limits.series > 0 /\ N > limits.series)
             /\ limits.samples > 0 /\ t[N] > limits.samples
    <3>1. PrometheusLimit(Len(s), TotalLength(s), M, limits).original = t[N]
      BY <1>5, <2>2 DEF PrometheusLimit
    <3>2. t[N] \in Nat
      BY <1>1, <1>5
    <3>3. t[N] # 0
      BY <2>2, <3>2 DEF Limits
    <3> QED BY <3>1, <3>3 DEF NoLimit
  <2> QED BY <2>1, <2>2
<1> QED BY <1>2, <1>3, <1>4, <1>11, <1>12 DEF MatrixIsFaithful

-----------------------------------------------------------------------------
(* Loki.                                                                   *)

LogRecord == [reason : {NoReason}, long : BOOLEAN]
KeptStreams == [records : Seq(LogRecord), streams : Nat, full : BOOLEAN]

EntriesLeft(kept, lines, max) ==
    IF max > 0 THEN max - Len(kept.records) ELSE Len(lines)

StreamsFull(kept, limits, max, room) ==
    \/ kept.full
    \/ limits.streams > 0 /\ kept.streams >= limits.streams
    \/ room <= 0 /\ max > 0

StreamStep(kept, lines, limits, after, max, room) ==
    /\ after \in KeptStreams
    /\ room \in Int
    /\ StreamsFull(kept, limits, max, room) =>
          /\ after.records = kept.records /\ after.streams = kept.streams
          /\ after.full
    /\ ~ StreamsFull(kept, limits, max, room) /\ lines = <<>> => after = kept
    /\ ~ StreamsFull(kept, limits, max, room) /\ lines # <<>> =>
          /\ Len(after.records) = Len(kept.records) + Lower(room, Len(lines))
          /\ Lower(room, Len(lines)) > 0
          /\ after.streams = kept.streams + 1
          /\ after.full = kept.full

\* One step of the loop: it is full from here on, passes a stream over, or keeps it.
LEMMA KeepStreamCases ==
  ASSUME NEW kept \in KeptStreams, NEW lines \in Seq(BOOLEAN), NEW limits \in Limits,
         NEW after, after = KeepStream(kept, lines, limits),
         NEW max, max = LogEntries(limits),
         NEW room, room = EntriesLeft(kept, lines, max)
  PROVE  StreamStep(kept, lines, limits, after, max, room)
<1> USE DEF StreamStep
<1>1. max \in Int /\ room \in Int
  BY DEF LogEntries, Limits, EntriesLeft, KeptStreams
<1> DEFINE full == StreamsFull(kept, limits, max, room)
           n == Lower(room, Len(lines))
           new == [i \in 1 .. n |-> Record(NoReason, lines[i])]
           rs == kept.records \o new
           ss == kept.streams + 1
<1>2. after = IF full THEN [kept EXCEPT !.full = TRUE]
              ELSE IF lines = <<>> THEN kept
              ELSE [kept EXCEPT !.records = rs, !.streams = ss]
  BY DEF KeepStream, EntriesLeft, StreamsFull
<1> HIDE DEF full, rs, ss
<1>3. CASE full
  <2>1. after = [kept EXCEPT !.full = TRUE]
    BY <1>2, <1>3
  <2>2. after.records = kept.records /\ after.streams = kept.streams /\ after.full
    BY <2>1 DEF KeptStreams
  <2>3. after \in KeptStreams
    BY <2>1 DEF KeptStreams
  <2> QED BY <1>1, <1>3, <2>2, <2>3 DEF full
<1>4. CASE ~ full /\ lines = <<>>
  BY <1>1, <1>2, <1>4 DEF full
<1>5. CASE ~ full /\ lines # <<>>
  <2>1. Len(lines) \in Nat /\ Len(lines) > 0
    BY <1>5
  <2>2. room > 0
    <3>1. ~ (room <= 0 /\ max > 0)
      BY <1>5 DEF full, StreamsFull
    <3>2. max <= 0 => room = Len(lines)
      BY <1>1 DEF EntriesLeft
    <3> QED BY <1>1, <2>1, <3>1, <3>2
  <2>3. n \in 1 .. Len(lines)
    BY <1>1, <2>1, <2>2 DEF Lower
  <2>4. new \in Seq(LogRecord) /\ Len(new) = n
    <3> HIDE DEF n
    <3>1. \A i \in 1 .. n : Record(NoReason, lines[i]) \in LogRecord
      BY <2>3 DEF Record, LogRecord
    <3> QED BY <2>3, <3>1
  <2> HIDE DEF n, new
  <2>5. kept.records \in Seq(LogRecord) /\ kept.streams \in Nat
    BY DEF KeptStreams
  <2>6. rs \in Seq(LogRecord) /\ Len(rs) = Len(kept.records) + n
    BY <2>4, <2>5, BothInOne DEF rs
  <2>7. ss \in Nat
    BY <2>5 DEF ss
  <2>8. after = [kept EXCEPT !.records = rs, !.streams = ss]
    BY <1>2, <1>5
  <2>9. after.records = rs /\ after.streams = ss /\ after.full = kept.full
    BY <2>8 DEF KeptStreams
  <2>10. after \in KeptStreams
    BY <2>6, <2>7, <2>8 DEF KeptStreams
  <2>11. n > 0
    BY <2>3
  <2> QED BY <1>1, <1>5, <2>6, <2>9, <2>10, <2>11 DEF full, n, ss
<1> QED BY <1>3, <1>4, <1>5

(* The loop keeps every line until a limit is met, and a limit that is     *)
(* exceeded is what lokiLimit reports.                                     *)
LEMMA StreamsFaithful ==
  ASSUME NEW s \in Seq(Seq(BOOLEAN)), NEW limits \in Limits,
         NEW M, M = StreamRecords(s, limits)
  PROVE  /\ M \in KeptStreams
         /\ M.records = <<>> => TotalLength(s) = 0
         /\ LokiLimit(Len(s), TotalLength(s), M, limits) = NoLimit
                => Len(M.records) = TotalLength(s)
<1> DEFINE N == Len(s)
           max == LogEntries(limits)
<1>1. N \in Nat /\ max \in Int /\ limits.streams \in Int
  BY DEF LogEntries, Limits
<1>2. PICK f : IsKeptStreams(f, N, s, limits) /\ M = f[N]
  BY <1>1, StreamsIsLast
<1>3. PICK t : /\ t[0] = 0 /\ t[N] = TotalLength(s)
               /\ \A n \in 0 .. N : t[n] \in Nat
               /\ \A n \in 1 .. N : t[n] = t[n - 1] + Len(s[n])
  BY TotalSteps
<1> DEFINE start == [records |-> <<>>, streams |-> 0, full |-> FALSE]
<1>4. f[0] = start /\ \A n \in 1 .. N : f[n] = KeepStream(f[n - 1], s[n], limits)
  <2>1. \A i \in 0 .. N : f[i] = IF i = 0 THEN start
                                 ELSE KeepStream(f[i - 1], s[i], limits)
    BY <1>2 DEF IsKeptStreams
  <2>2. 0 \in 0 .. N /\ \A i \in 1 .. N : i \in 0 .. N /\ i # 0
    OBVIOUS
  <2> HIDE DEF start
  <2> QED BY <2>1, <2>2
<1> DEFINE Exceeds(n) == limits.streams > 0 /\ n > limits.streams
           Met(n) == max > 0 /\ Len(f[n].records) >= max
           Good(n) == /\ f[n] \in KeptStreams
                      /\ f[n].streams <= n
                      /\ f[n].streams > 0 => Len(f[n].records) > 0
                      /\ Len(f[n].records) = 0 => t[n] = 0
                      /\ Len(f[n].records) <= t[n]
                      /\ f[n].full => Len(f[n].records) > 0
                      /\ (~ f[n].full /\ Len(f[n].records) = t[n]) \/ Exceeds(n) \/ Met(n)
           G == {n \in Nat : n <= N => Good(n)}
<1>5. Good(0)
  <2>1. /\ start.records = <<>> /\ start.streams = 0 /\ start.full = FALSE
        /\ start \in KeptStreams /\ Len(<<>>) = 0
    BY DEF KeptStreams
  <2> HIDE DEF start, Exceeds, Met
  <2>2. f[0] = start /\ t[0] = 0
    BY <1>3, <1>4
  <2>3. f[0] \in KeptStreams /\ f[0].streams = 0 /\ Len(f[0].records) = 0 /\ ~ f[0].full
    BY <2>1, <2>2
  <2> QED BY <2>2, <2>3
<1>6. ASSUME NEW n \in Nat, Good(n), n + 1 <= N
      PROVE  Good(n + 1)
  <2> DEFINE x == s[n + 1]
             L == Len(x)
             a == f[n]
             b == f[n + 1]
             p == Len(a.records)
             q == Len(b.records)
             room == EntriesLeft(a, x, max)
  <2>1. n + 1 \in 1 .. N /\ n \in 0 .. N /\ (n + 1) - 1 = n
    BY <1>6
  <2>2. x \in Seq(BOOLEAN) /\ L \in Nat /\ (x = <<>> <=> L = 0)
    BY <2>1
  <2>3. b = KeepStream(a, x, limits)
    BY <1>4, <2>1
  <2>4. t[n + 1] = t[n] + L /\ t[n] \in Nat
    BY <1>3, <2>1
  <2>5. /\ a \in KeptStreams
        /\ a.streams <= n
        /\ a.streams > 0 => p > 0
        /\ p = 0 => t[n] = 0
        /\ p <= t[n]
        /\ a.full => p > 0
        /\ \/ ~ a.full /\ p = t[n]
           \/ limits.streams > 0 /\ n > limits.streams
           \/ max > 0 /\ p >= max
    BY <1>6
  <2>6. p \in Nat /\ a.streams \in Nat
    BY <2>5 DEF KeptStreams
  <2> HIDE DEF x, L, a, b, p, q, room, N, max
  <2>7. StreamStep(a, x, limits, b, max, room)
    <3>1. a \in KeptStreams /\ x \in Seq(BOOLEAN) /\ limits \in Limits
      BY <2>2, <2>5
    <3>2. room = EntriesLeft(a, x, max) /\ max = LogEntries(limits)
      BY DEF room, max
    <3> QED BY ONLY <2>3, <3>1, <3>2, KeepStreamCases
  <2>8. /\ room = IF max > 0 THEN max - p ELSE L
        /\ StreamsFull(a, limits, max, room) <=>
              \/ a.full
              \/ limits.streams > 0 /\ a.streams >= limits.streams
              \/ room <= 0 /\ max > 0
    BY DEF room, EntriesLeft, StreamsFull, p, L
  <2>9. b \in KeptStreams /\ q \in Nat /\ b.streams \in Nat
    BY <2>7 DEF StreamStep, KeptStreams, q
  <2>10. /\ b.streams <= n + 1
         /\ b.streams > 0 => q > 0
         /\ q = 0 => t[n + 1] = 0
         /\ q <= t[n + 1]
         /\ b.full => q > 0
         /\ \/ ~ b.full /\ q = t[n + 1]
            \/ limits.streams > 0 /\ n + 1 > limits.streams
            \/ max > 0 /\ q >= max
    <3>1. CASE StreamsFull(a, limits, max, room)
      <4>1. q = p /\ b.streams = a.streams /\ b.full
        BY <2>7, <3>1 DEF StreamStep, p, q
      <4>2. p > 0
        BY <1>1, <2>2, <2>5, <2>6, <2>8, <3>1
      <4>3. \/ limits.streams > 0 /\ n + 1 > limits.streams
            \/ max > 0 /\ p >= max
        BY <1>1, <2>2, <2>5, <2>6, <2>8, <3>1
      <4> QED BY <1>1, <2>2, <2>4, <2>5, <2>6, <4>1, <4>2, <4>3
    <3>2. CASE ~ StreamsFull(a, limits, max, room) /\ x = <<>>
      <4>1. b = a /\ q = p
        BY <2>7, <3>2 DEF StreamStep, p, q
      <4>2. t[n + 1] = t[n]
        BY <2>2, <2>4, <3>2
      <4> QED BY <1>1, <2>2, <2>4, <2>5, <2>6, <4>1, <4>2
    <3>3. CASE ~ StreamsFull(a, limits, max, room) /\ x # <<>>
      <4>1. /\ q = p + Lower(room, L) /\ Lower(room, L) > 0
            /\ b.streams = a.streams + 1 /\ b.full = a.full
        BY <2>7, <3>3 DEF StreamStep, p, q, L
      <4>2. ~ a.full
        BY <2>8, <3>3
      <4>3. room \in Int
        BY <2>7 DEF StreamStep
      <4>4. /\ Lower(room, L) <= L /\ Lower(room, L) \in Int
            /\ Lower(room, L) # L => Lower(room, L) = room /\ room < L
        BY <2>2, <4>3 DEF Lower
      <4>5. room < L => max > 0 /\ room = max - p
        BY <1>1, <2>2, <2>8
      <4> DEFINE low == Lower(room, L)
      <4> HIDE DEF low
      <4>6. low \in Int /\ low <= L /\ low > 0 /\ q = p + low
            /\ (low # L => max > 0 /\ low = max - p)
        BY <4>1, <4>4, <4>5 DEF low
      <4>7. b.streams <= n + 1 /\ q > 0 /\ ~ b.full
        BY <2>5, <2>6, <4>1, <4>2, <4>6
      <4>8. q <= t[n + 1]
        BY <2>2, <2>4, <2>5, <2>6, <4>6
      <4>9. \/ q = t[n + 1]
            \/ limits.streams > 0 /\ n + 1 > limits.streams
            \/ max > 0 /\ q >= max
        <5>1. CASE limits.streams > 0 /\ n > limits.streams
          BY <1>1, <5>1
        <5>2. CASE max > 0 /\ p >= max
          BY <1>1, <2>6, <4>6, <5>2
        <5>3. CASE p = t[n] /\ low = L
          BY <2>4, <4>6, <5>3
        <5>4. CASE low # L
          BY <1>1, <2>6, <4>6, <5>4
        <5> QED BY <2>5, <5>1, <5>2, <5>3, <5>4
      <4> QED BY <4>7, <4>8, <4>9
    <3> QED BY <3>1, <3>2, <3>3
  <2> QED BY <2>9, <2>10 DEF b, q
<1>7. Good(N)
  <2> HIDE DEF Good, N
  <2>1. \A n \in Nat : n \in G => n + 1 \in G
    <3> SUFFICES ASSUME NEW n \in Nat, n \in G, n + 1 <= N
                 PROVE  Good(n + 1)
      OBVIOUS
    <3>1. n <= N
      BY <1>1
    <3>2. Good(n)
      BY <3>1
    <3> QED BY <1>6, <3>2
  <2>2. N \in G
    <3>1. 0 \in G
      BY <1>5
    <3> HIDE DEF G
    <3> QED BY <1>1, <2>1, <3>1, CountingUp
  <2> QED BY <1>1, <2>2
<1> DEFINE total == TotalLength(s)
           m == Len(M.records)
           limit == LokiLimit(Len(s), TotalLength(s), M, limits)
<1>8. /\ M \in KeptStreams /\ m \in Nat /\ total \in Nat
      /\ m = 0 => total = 0
      /\ m <= total
      /\ m = total \/ (limits.streams > 0 /\ N > limits.streams) \/ (max > 0 /\ m >= max)
  <2>1. t[N] \in Nat
    BY <1>1, <1>3
  <2>2. M \in KeptStreams
    BY <1>2, <1>7
  <2>3. m \in Nat
    BY <2>2 DEF KeptStreams
  <2> QED BY <1>2, <1>3, <1>7, <2>1, <2>2, <2>3
<1>9. M.records = <<>> => m = 0
  OBVIOUS
<1>10. ASSUME limit = NoLimit PROVE ~ (limits.streams > 0 /\ N > limits.streams)
  <2> SUFFICES ASSUME limits.streams > 0, N > limits.streams PROVE FALSE
    OBVIOUS
  <2>1. limit.original = N
    BY DEF LokiLimit
  <2>2. limit.original = 0
    BY <1>10 DEF NoLimit
  <2> QED BY <1>1, <2>1, <2>2
<1>11. ASSUME limit = NoLimit PROVE max > 0 => total <= max
  <2> SUFFICES ASSUME max > 0, total > max PROVE FALSE
    BY <1>1, <1>8
  <2>1. limit.original = total
    BY <1>10, <1>11 DEF LokiLimit
  <2>2. limit.original = 0
    BY <1>11 DEF NoLimit
  <2> QED BY <1>1, <1>8, <2>1, <2>2
<1> HIDE DEF limit, m, total, max, N
<1>12. limit = NoLimit => m = total
  BY <1>1, <1>8, <1>10, <1>11
<1> QED BY <1>8, <1>9, <1>12 DEF limit, m, total

-----------------------------------------------------------------------------
(* The adapters.                                                           *)

(* What the adapter answers to the query: the records r under its limits,  *)
(* the limit it met, and the records u it would return without limits.     *)
Answers(q, r, lim, u) ==
    /\ AdapterResult(q) = Result(q.type, r, lim)
    /\ AdapterResult(WithoutLimits(q)).records = u
    /\ \E S : r \in Seq(S)
    /\ q.type = "event" =>
          \A i \in DOMAIN r : EventReasonAllowed(r[i].reason, q.reasons)
    /\ lim = NoLimit => Len(r) = Answering(q) /\ (q.type = "log" \/ r = u)
    /\ lim # NoLimit /\ r = <<>> =>
          \/ q.type = "containerTermination"
          \/ Answering(q) = 0 /\ (q.type = "log" \/ u = <<>>)
    /\ q.type = "log" => \A i \in DOMAIN u : u[i].reason = NoReason

LEMMA WithoutLimitsIs ==
  ASSUME NEW q
  PROVE  /\ WithoutLimits(q).type = q.type /\ WithoutLimits(q).world = q.world
         /\ WithoutLimits(q).reasons = q.reasons
         /\ WithoutLimits(q).limits \in Limits
         /\ WithoutLimits(q).limits.series = 0 /\ WithoutLimits(q).limits.samples = 0
         /\ WithoutLimits(q).limits.records = 0
  BY DEF WithoutLimits, Limits

LEMMA MetricAnswers ==
  ASSUME NEW q, q.type = "metric", q.world \in Seq(Seq(Int)), q.limits \in Limits
  PROVE  \E r, lim, u : Answers(q, r, lim, u)
<1> DEFINE none == WithoutLimits(q).limits
           s == q.world
           M == MatrixRecords(s, q.limits)
           U == MatrixRecords(s, none)
           lim == PrometheusLimit(Len(s), TotalLength(s), M, q.limits)
<1>1. /\ AdapterResult(q) = PrometheusRecords(s, q.limits)
      /\ AdapterResult(WithoutLimits(q)) = PrometheusRecords(s, none)
  BY WithoutLimitsIs DEF AdapterResult
<1>2. /\ AdapterResult(q) = Result(q.type, M.records, lim)
      /\ AdapterResult(WithoutLimits(q)).records = U.records
  BY <1>1 DEF PrometheusRecords, Result
<1>3. Answering(q) = Len(OnlyIn(s, ToSet(s) \ {<<>>}))
  BY DEF Answering
<1>4. none \in Limits /\ none.series = 0 /\ none.samples = 0
  BY WithoutLimitsIs
<1> DEFINE limits == q.limits
<1> HIDE DEF none, s, M, U, lim, limits
<1>5. s \in Seq(Seq(Int)) /\ limits \in Limits
  BY DEF s, limits
<1>6. M = MatrixRecords(s, limits) /\ U = MatrixRecords(s, none)
  BY DEF M, U, limits
<1>7. MatrixIsFaithful(s, limits, M, U)
  BY ONLY <1>4, <1>5, <1>6, MatrixFaithful
<1>8. /\ M \in KeptSeries /\ U \in KeptSeries
      /\ Len(U.records) = Len(OnlyIn(s, ToSet(s) \ {<<>>}))
      /\ M.records = <<>> => U.records = <<>>
      /\ lim = NoLimit => M.records = U.records
  BY <1>7 DEF MatrixIsFaithful, lim, limits
<1>9. M.records \in Seq(SeriesRecord)
  BY <1>8 DEF KeptSeries
<1>10. Len(<<>>) = 0
  OBVIOUS
<1>11. Answers(q, M.records, lim, U.records)
  BY <1>2, <1>3, <1>8, <1>9, <1>10 DEF Answers
<1> QED BY <1>11

LEMMA LogAnswers ==
  ASSUME NEW q, q.type = "log", q.world \in Seq(Seq(BOOLEAN)), q.limits \in Limits
  PROVE  \E r, lim, u : Answers(q, r, lim, u)
<1> DEFINE none == WithoutLimits(q).limits
           s == q.world
           M == StreamRecords(s, q.limits)
           U == StreamRecords(s, none)
           lim == LokiLimit(Len(s), TotalLength(s), M, q.limits)
<1>1. /\ AdapterResult(q) = LokiRecords(s, q.limits)
      /\ AdapterResult(WithoutLimits(q)) = LokiRecords(s, none)
  BY WithoutLimitsIs DEF AdapterResult
<1>2. /\ AdapterResult(q) = Result(q.type, M.records, lim)
      /\ AdapterResult(WithoutLimits(q)).records = U.records
  BY <1>1 DEF LokiRecords, Result
<1>3. Answering(q) = TotalLength(s)
  BY DEF Answering
<1>4. none \in Limits
  BY WithoutLimitsIs
<1> HIDE DEF none, s, M, U, lim
<1>5. /\ s \in Seq(Seq(BOOLEAN))
      /\ M = StreamRecords(s, q.limits) /\ U = StreamRecords(s, none)
  BY DEF s, M, U
<1>6. /\ M \in KeptStreams
      /\ M.records = <<>> => TotalLength(s) = 0
      /\ lim = NoLimit => Len(M.records) = TotalLength(s)
  BY <1>5, StreamsFaithful DEF lim
<1>7. U \in KeptStreams
  BY <1>4, <1>5, StreamsFaithful
<1>8. M.records \in Seq(LogRecord) /\ U.records \in Seq(LogRecord)
  BY <1>6, <1>7 DEF KeptStreams
<1>9. \A i \in DOMAIN U.records : U.records[i].reason = NoReason
  <2>1. \A i \in DOMAIN U.records : U.records[i] \in LogRecord
    BY <1>8
  <2>2. \A x \in LogRecord : x.reason = NoReason
    BY DEF LogRecord
  <2> QED BY <2>1, <2>2
<1>10. Answers(q, M.records, lim, U.records)
  BY <1>2, <1>3, <1>6, <1>8, <1>9 DEF Answers
<1> QED BY <1>10

RetainedFrom(s, n, lim, k) ==
    /\ \A i \in DOMAIN k : i \in DOMAIN s /\ k[i] = s[i]
    /\ lim = NoLimit => k = s
    /\ lim # NoLimit => k # <<>>
    /\ n = 0 => lim = NoLimit

\* What retaining as many as a limit allows leaves.
LEMMA RetainedIs ==
  ASSUME NEW S, NEW s \in Seq(S), NEW n \in Int,
         NEW lim, lim = NativeRecordLimit(n, Len(s)), NEW k, k = Retained(s, lim)
  PROVE  k \in Seq(S) /\ RetainedFrom(s, n, lim, k)
<1> USE DEF RetainedFrom
<1>1. CASE lim = NoLimit
  BY <1>1 DEF Retained
<1>2. CASE lim # NoLimit
  <2>1. n > 0 /\ Len(s) > n /\ lim.retained = n
    BY <1>2 DEF NativeRecordLimit
  <2>2. k = Limited(s, n)
    BY <1>2, <2>1 DEF Retained
  <2>3. /\ k \in Seq(S) /\ Len(k) = Lower(n, Len(s))
        /\ \A i \in 1 .. Len(k) : k[i] = s[i]
    BY <2>1, <2>2, LimitedIs
  <2>4. Len(k) = n
    BY <2>1, <2>3 DEF Lower
  <2> QED BY <1>2, <2>1, <2>3, <2>4
<1> QED BY <1>1, <1>2

LEMMA EventAnswers ==
  ASSUME NEW q, q.type = "event", IsSequence(q.world), q.limits \in Limits
  PROVE  \E r, lim, u : Answers(q, r, lim, u)
<1> DEFINE none == WithoutLimits(q).limits
           s == Matching(q.world, q.reasons)
           S == ToSet(q.world)
           n == q.limits.records
           lim == NativeRecordLimit(n, Len(s))
           k == Retained(s, lim)
           Of(x) == [i \in DOMAIN x |-> Record(x[i].reason, x[i].long)]
<1>1. /\ AdapterResult(q) = EventRecords(q.world, q.reasons, q.limits)
      /\ AdapterResult(WithoutLimits(q)) = EventRecords(q.world, q.reasons, none)
  BY WithoutLimitsIs DEF AdapterResult
<1>2. NativeRecordLimit(none.records, Len(s)) = NoLimit
  BY WithoutLimitsIs DEF NativeRecordLimit
<1>3. /\ AdapterResult(q) = Result(q.type, Of(k), lim)
      /\ AdapterResult(WithoutLimits(q)).records = Of(s)
  BY <1>1, <1>2 DEF EventRecords, Result, Retained
<1>4. Answering(q) = Len(s)
  BY DEF Answering
<1>5. /\ s \in Seq(S)
      /\ \A x \in ToSet(s) : EventReasonAllowed(x.reason, q.reasons)
  BY OnlyInKeeps DEF Matching, IsSequence
<1>6. n \in Int
  BY DEF Limits
<1> HIDE DEF s, S, n, lim, k
<1>7. lim = NativeRecordLimit(n, Len(s)) /\ k = Retained(s, lim)
  BY DEF lim, k
<1>8. /\ k \in Seq(S)
      /\ \A i \in DOMAIN k : i \in DOMAIN s /\ k[i] = s[i]
      /\ lim = NoLimit => k = s
      /\ lim # NoLimit => k # <<>>
  <2>1. k \in Seq(S) /\ RetainedFrom(s, n, lim, k)
    BY ONLY <1>5, <1>6, <1>7, RetainedIs
  <2> QED BY <2>1 DEF RetainedFrom
<1>9. /\ Of(k) \in Seq({Record(x.reason, x.long) : x \in S})
      /\ Len(Of(k)) = Len(k) /\ DOMAIN Of(k) = DOMAIN k
  BY <1>8
<1>10. \A i \in DOMAIN k : EventReasonAllowed(k[i].reason, q.reasons)
  BY <1>5, <1>8 DEF ToSet
<1>11. \A i \in DOMAIN k : Of(k)[i].reason = k[i].reason
  BY DEF Record
<1>12. Of(k) = <<>> => k = <<>>
  BY <1>8, <1>9
<1> DEFINE r == Of(k)
           u == Of(s)
<1>13. lim = NoLimit => r = u
  BY <1>8
<1>14. \A i \in DOMAIN r : EventReasonAllowed(r[i].reason, q.reasons)
  BY <1>9, <1>10, <1>11
<1> HIDE DEF Of, r, u
<1>15. Answers(q, r, lim, u)
  BY <1>3, <1>4, <1>8, <1>9, <1>12, <1>13, <1>14 DEF Answers, r, u
<1> QED BY <1>15

LEMMA ConditionAnswers ==
  ASSUME NEW q, q.type = "deploymentCondition", IsSequence(q.world.conditions),
         q.limits \in Limits
  PROVE  \E r, lim, u : Answers(q, r, lim, u)
<1> DEFINE none == WithoutLimits(q).limits
           s == WorkloadStatusRecords(q.world)
           conditions == q.world.conditions
           Reasons == ToSet(conditions) \cup {"ReadyReplicas", "NumberReady",
                                              "FailedPods", "LastScheduleTime"}
           S == [reason : Reasons, long : BOOLEAN]
           n == q.limits.records
           lim == NativeRecordLimit(n, Len(s))
           k == Retained(s, lim)
<1>1. /\ AdapterResult(q) = ConditionRecords(q.world, q.limits)
      /\ AdapterResult(WithoutLimits(q)) = ConditionRecords(q.world, none)
  BY WithoutLimitsIs DEF AdapterResult
<1>2. NativeRecordLimit(none.records, Len(s)) = NoLimit
  BY WithoutLimitsIs DEF NativeRecordLimit
<1>3. /\ AdapterResult(q) = Result(q.type, k, lim)
      /\ AdapterResult(WithoutLimits(q)).records = s
  BY <1>1, <1>2 DEF ConditionRecords, Result, Retained
<1>4. Answering(q) = Len(s)
  BY <1>3 DEF Answering
<1>5. s \in Seq(S)
  <2> DEFINE c == [i \in DOMAIN conditions |-> Record(conditions[i], FALSE)]
  <2>1. \A x \in Reasons : Record(x, FALSE) \in S
    BY DEF Record
  <2>2. c \in Seq(S)
    <3>1. conditions \in Seq(ToSet(conditions))
      BY DEF IsSequence
    <3>2. \A i \in 1 .. Len(conditions) : Record(conditions[i], FALSE) \in S
      <4>1. \A i \in 1 .. Len(conditions) : conditions[i] \in Reasons
        BY <3>1
      <4> QED BY <2>1, <4>1
    <3> DEFINE Of(i) == Record(conditions[i], FALSE)
    <3>3. c = [i \in DOMAIN conditions |-> Of(i)]
      OBVIOUS
    <3>4. \A i \in 1 .. Len(conditions) : Of(i) \in S
      BY <3>2
    <3> HIDE DEF conditions, S, Of, c
    <3> QED BY <3>1, <3>3, <3>4
  <2>3. \/ s = c \/ s = <<>>
        \/ \E x \in Reasons : s = Append(c, Record(x, FALSE)) \/ s = <<Record(x, FALSE)>>
    BY DEF WorkloadStatusRecords
  <2> HIDE DEF c, S, s
  <2>4. \A y \in S : <<y>> \in Seq(S) /\ Append(c, y) \in Seq(S)
    BY <2>2
  <2>5. <<>> \in Seq(S)
    OBVIOUS
  <2> QED BY <2>1, <2>2, <2>3, <2>4, <2>5
<1>6. n \in Int
  BY DEF Limits
<1> HIDE DEF s, S, n, lim, k, none
<1>7. lim = NativeRecordLimit(n, Len(s)) /\ k = Retained(s, lim)
  BY DEF lim, k
<1>8. k \in Seq(S) /\ RetainedFrom(s, n, lim, k)
  BY ONLY <1>5, <1>6, <1>7, RetainedIs
<1>9. Answers(q, k, lim, s)
  BY <1>3, <1>4, <1>8 DEF Answers, RetainedFrom
<1> QED BY <1>9

LEMMA RecordsForTyped ==
  ASSUME NEW S, NEW s \in Seq(S)
  PROVE  /\ RecordsFor(s) \in Seq([reason : S, long : BOOLEAN])
         /\ Len(RecordsFor(s)) = Len(s)
<1>1. RecordsFor(s) = [i \in 1 .. Len(s) |-> [reason |-> s[i], long |-> FALSE]]
  BY DEF RecordsFor, Record
<1>2. \A i \in 1 .. Len(s) : [reason |-> s[i], long |-> FALSE]
                                  \in [reason : S, long : BOOLEAN]
  OBVIOUS
<1> QED BY <1>1, <1>2

\* An answer the adapter never cuts short.
LEMMA UnlimitedAnswers ==
  ASSUME NEW q, q.type \in {"probeConfiguration", "serviceConfiguration"},
         NEW S, NEW s \in Seq(S),
         AdapterResult(q) = Result(q.type, RecordsFor(s), NoLimit),
         AdapterResult(WithoutLimits(q)) = Result(q.type, RecordsFor(s), NoLimit)
  PROVE  \E r, lim, u : Answers(q, r, lim, u)
<1> DEFINE r == RecordsFor(s)
<1>1. AdapterResult(q) = Result(q.type, r, NoLimit)
  OBVIOUS
<1>2. AdapterResult(WithoutLimits(q)).records = r
  BY DEF Result
<1>3. Answering(q) = Len(r)
  BY <1>2 DEF Answering
<1>4. r \in Seq([reason : S, long : BOOLEAN])
  BY RecordsForTyped
<1> HIDE DEF r
<1>5. Answers(q, r, NoLimit, r)
  BY <1>1, <1>2, <1>3, <1>4 DEF Answers
<1> QED BY <1>5

\* The ports found are a list, and so are the reasons given for each.
LEMMA SameReasons ==
  ASSUME NEW s, IsSequence(s), NEW T, NEW x
  PROVE  [i \in DOMAIN OnlyIn(s, T) |-> x] \in Seq({x})
<1> DEFINE k == OnlyIn(s, T)
<1>1. k \in Seq(ToSet(s))
  BY OnlyInKeeps DEF IsSequence
<1> HIDE DEF k
<1>2. [i \in DOMAIN k |-> x] \in Seq({x})
  BY <1>1
<1> QED BY <1>2 DEF k

LEMMA ProbeAnswers ==
  ASSUME NEW q, q.type = "probeConfiguration", IsSequence(q.world),
         \A c \in ToSet(q.world) : IsSequence(c.ports)
  PROVE  \E r, lim, u : Answers(q, r, lim, u)
<1> DEFINE Reasons == {"ProbeHandlerUnsupported", "ProbeConfigurationResolved",
                       "ProbePortUnresolved", "ProbeConfigurationMismatch"}
           w == q.world
           Of(c) == ProbeReasons(c, c.readiness) \o ProbeReasons(c, c.liveness)
           all == [i \in DOMAIN w |-> Of(w[i])]
           s == Concatenation(all)
<1>1. /\ AdapterResult(q) = Result(q.type, RecordsFor(s), NoLimit)
      /\ AdapterResult(WithoutLimits(q)) = Result(q.type, RecordsFor(s), NoLimit)
  BY WithoutLimitsIs DEF AdapterResult, ProbeRecords
<1>2. ASSUME NEW c, IsSequence(c.ports), NEW p
      PROVE  ProbeReasons(c, p) \in Seq(Reasons)
  <2> DEFINE matched == PortsAt(c.ports, p.named, p.port)
             found == [i \in DOMAIN matched |-> "ProbeConfigurationResolved"]
  <2>1. found \in Seq({"ProbeConfigurationResolved"})
    BY <1>2, SameReasons DEF PortsAt
  <2>2. \A x \in Seq({"ProbeConfigurationResolved"}) : x \in Seq(Reasons)
    OBVIOUS
  <2>3. \/ ProbeReasons(c, p) = found
        \/ ProbeReasons(c, p) = <<>>
        \/ \E x \in Reasons : ProbeReasons(c, p) = <<x>>
    BY DEF ProbeReasons
  <2> HIDE DEF found, Reasons
  <2>4. <<>> \in Seq(Reasons) /\ \A x \in Reasons : <<x>> \in Seq(Reasons)
    OBVIOUS
  <2>5. found \in Seq(Reasons)
    BY <2>1, <2>2
  <2> QED BY <2>3, <2>4, <2>5
<1>3. w \in Seq(ToSet(w)) /\ \A i \in DOMAIN w : w[i] \in ToSet(w)
  BY DEF IsSequence, ToSet
<1> HIDE DEF Reasons
<1>4. \A i \in DOMAIN w : Of(w[i]) \in Seq(Reasons)
  <2> SUFFICES ASSUME NEW i \in DOMAIN w PROVE Of(w[i]) \in Seq(Reasons)
    OBVIOUS
  <2>1. IsSequence(w[i].ports)
    BY <1>3
  <2>2. /\ ProbeReasons(w[i], w[i].readiness) \in Seq(Reasons)
        /\ ProbeReasons(w[i], w[i].liveness) \in Seq(Reasons)
    BY <1>2, <2>1
  <2> QED BY <2>2, BothInOne
<1> HIDE DEF Of, w
<1>5. all \in Seq(Seq(Reasons))
  BY <1>3, <1>4
<1> HIDE DEF all
<1>6. s \in Seq(Reasons)
  BY <1>5, ConcatenationKeeps
<1> HIDE DEF s
<1> QED BY <1>1, <1>6, UnlimitedAnswers

LEMMA ServiceAnswers ==
  ASSUME NEW q, q.type = "serviceConfiguration",
         IsSequence(q.world.targets), IsSequence(q.world.containers),
         \A c \in ToSet(q.world.containers) : IsSequence(c.ports)
  PROVE  \E r, lim, u : Answers(q, r, lim, u)
<1> DEFINE Reasons == {"ServicePortResolved", "TargetPortUnresolved",
                       "ServicePortMismatch"}
           v == q.world.containers
           w == q.world.targets
           declared == [i \in DOMAIN v |-> v[i].ports]
           ports == Concatenation(declared)
           all == [i \in DOMAIN w |-> ServiceReasons(w[i], ports)]
           s == Concatenation(all)
<1>1. /\ AdapterResult(q) = Result(q.type, RecordsFor(s), NoLimit)
      /\ AdapterResult(WithoutLimits(q)) = Result(q.type, RecordsFor(s), NoLimit)
  BY WithoutLimitsIs DEF AdapterResult, ServiceRecords
<1>2. /\ v \in Seq(ToSet(v)) /\ \A i \in DOMAIN v : v[i] \in ToSet(v)
      /\ w \in Seq(ToSet(w))
  BY DEF IsSequence, ToSet
<1> DEFINE P == UNION {ToSet(c.ports) : c \in ToSet(v)}
<1>3. \A i \in DOMAIN v : v[i].ports \in Seq(P)
  <2> SUFFICES ASSUME NEW i \in DOMAIN v PROVE v[i].ports \in Seq(P)
    OBVIOUS
  <2>1. v[i].ports \in Seq(ToSet(v[i].ports))
    BY <1>2 DEF IsSequence
  <2>2. ToSet(v[i].ports) \subseteq P
    BY <1>2
  <2> HIDE DEF P
  <2> QED BY <2>1, <2>2
<1> HIDE DEF P, v, w, Reasons
<1>4. declared \in Seq(Seq(P))
  BY <1>2, <1>3
<1> HIDE DEF declared
<1>5. ports \in Seq(P)
  BY <1>4, ConcatenationKeeps
<1> HIDE DEF ports
<1>6. IsSequence(ports)
  <2>1. \A i \in 1 .. Len(ports) : ports[i] \in ToSet(ports)
    BY <1>5 DEF ToSet
  <2> QED BY <1>5, <2>1 DEF IsSequence
<1>7. ASSUME NEW t PROVE ServiceReasons(t, ports) \in Seq(Reasons)
  <2> DEFINE matched == PortsAt(ports, t.named, t.port)
             found == [i \in DOMAIN matched |-> "ServicePortResolved"]
  <2>1. found \in Seq({"ServicePortResolved"})
    BY <1>6, SameReasons DEF PortsAt
  <2>2. \A x \in Seq({"ServicePortResolved"}) : x \in Seq(Reasons)
    BY DEF Reasons
  <2>3. \/ ServiceReasons(t, ports) = found
        \/ \E x \in Reasons : ServiceReasons(t, ports) = <<x>>
    BY DEF ServiceReasons, Reasons
  <2> HIDE DEF found
  <2>4. \A x \in Reasons : <<x>> \in Seq(Reasons)
    OBVIOUS
  <2>5. found \in Seq(Reasons)
    BY <2>1, <2>2
  <2> QED BY <2>3, <2>4, <2>5
<1>8. all \in Seq(Seq(Reasons))
  BY <1>2, <1>7
<1> HIDE DEF all
<1>9. s \in Seq(Reasons)
  BY <1>8, ConcatenationKeeps
<1> HIDE DEF s
<1> QED BY <1>1, <1>9, UnlimitedAnswers

\* The pods that crash-loop and the others are all the pods.
LEMMA ByCrashLoopIs ==
  ASSUME NEW pods \in Seq(Seq(STRING))
  PROVE  /\ ByCrashLoop(pods) \in Seq(Seq(STRING))
         /\ Len(ByCrashLoop(pods)) = Len(pods)
         /\ TotalLength(AllReported(ByCrashLoop(pods)))
                = TotalLength(AllReported(pods))
<1> DEFINE T == {p \in ToSet(pods) : PodHasCrashLoopContainer(p)}
           a == OnlyIn(pods, T)
           b == OnlyIn(pods, ToSet(pods) \ T)
<1>1. ByCrashLoop(pods) = a \o b
  BY DEF ByCrashLoop
<1>2. a = OnlyIn(pods, T) /\ b = OnlyIn(pods, ToSet(pods) \ T)
  OBVIOUS
<1> HIDE DEF T, a, b
<1>3. /\ a \in Seq(Seq(STRING)) /\ b \in Seq(Seq(STRING))
      /\ Len(a) + Len(b) = Len(pods)
      /\ TotalLength(AllReported(a)) + TotalLength(AllReported(b))
             = TotalLength(AllReported(pods))
  BY <1>2, SplitReported
<1>4. a \o b \in Seq(Seq(STRING)) /\ Len(a \o b) = Len(a) + Len(b)
  BY <1>3, BothInOne
<1>5. TotalLength(AllReported(a \o b))
          = TotalLength(AllReported(a)) + TotalLength(AllReported(b))
  BY <1>3, ReportedTotals
<1> QED BY <1>1, <1>3, <1>4, <1>5

LEMMA TerminationAnswers ==
  ASSUME NEW q, q.type = "containerTermination", q.world \in Seq(Seq(STRING))
  PROVE  \E r, lim, u : Answers(q, r, lim, u)
<1> DEFINE pods == q.world
           listed == ListedPods(pods)
           selected == Limited(ByCrashLoop(listed), MaxPods)
           s == Concatenation(AllReported(selected))
           r == RecordsFor(s)
           lim == IF Len(listed) > MaxPods
                  THEN [original |-> Len(listed), retained |-> Len(selected)]
                  ELSE NoLimit
<1>1. /\ AdapterResult(q) = Result(q.type, r, lim)
      /\ AdapterResult(WithoutLimits(q)) = Result(q.type, r, lim)
  BY WithoutLimitsIs DEF AdapterResult, TerminationRecords
<1>2. MaxPods \in Nat /\ MaxPods > 0
  BY EvidenceAssumption
<1>3. /\ listed \in Seq(Seq(STRING))
      /\ Len(listed) = Lower(MaxPods + 1, Len(pods))
      /\ Len(pods) <= MaxPods + 1 => listed = pods
  BY <1>2, LimitedIs DEF ListedPods
<1> HIDE DEF listed
<1>4. /\ ByCrashLoop(listed) \in Seq(Seq(STRING))
      /\ Len(ByCrashLoop(listed)) = Len(listed)
      /\ TotalLength(AllReported(ByCrashLoop(listed)))
             = TotalLength(AllReported(listed))
  BY <1>3, ByCrashLoopIs
<1>5. /\ selected \in Seq(Seq(STRING))
      /\ Len(listed) <= MaxPods => selected = ByCrashLoop(listed)
  BY <1>2, <1>4, LimitedIs
<1> HIDE DEF selected
<1>6. AllReported(selected) \in Seq(Seq(STRING))
  BY <1>5, AllReportedTyped
<1>7. s \in Seq(STRING) /\ Len(s) = TotalLength(AllReported(selected))
  BY <1>6, ConcatenationKeeps
<1> HIDE DEF s
<1>8. r \in Seq([reason : STRING, long : BOOLEAN]) /\ Len(r) = Len(s)
  BY <1>7, RecordsForTyped
<1>9. ASSUME lim = NoLimit PROVE Len(r) = Answering(q)
  <2>1. Len(listed) <= MaxPods
    <3> SUFFICES ASSUME Len(listed) > MaxPods PROVE FALSE
      BY <1>2, <1>3
    <3>1. lim.original = Len(listed)
      OBVIOUS
    <3>2. lim.original = 0
      BY <1>9 DEF NoLimit
    <3> QED BY <1>2, <1>3, <3>1, <3>2
  <2>2. Len(pods) <= MaxPods
    BY <1>2, <1>3, <2>1 DEF Lower
  <2>3. Answering(q) = TotalLength(AllReported(pods))
    BY DEF Answering
  <2>4. listed = pods
    BY <1>2, <1>3, <2>2
  <2> QED BY <1>4, <1>5, <1>7, <1>8, <2>1, <2>3, <2>4
<1> HIDE DEF r, lim
<1>10. AdapterResult(WithoutLimits(q)).records = r
  BY <1>1 DEF Result
<1>11. Answers(q, r, lim, r)
  BY <1>1, <1>8, <1>9, <1>10 DEF Answers
<1> QED BY <1>11

LEMMA AdapterAnswers ==
  ASSUME NEW q \in EvidenceQueries
  PROVE  q.limits \in Limits /\ \E r, lim, u : Answers(q, r, lim, u)
<1>1. WorldTyped(q.type, q.world) /\ q.limits \in Limits
  BY EvidenceAssumption
<1>2. q.type \in {"metric", "log", "event", "deploymentCondition", "probeConfiguration",
                  "serviceConfiguration", "containerTermination"}
  BY <1>1 DEF WorldTyped
<1>3. CASE q.type = "metric"
  BY <1>1, <1>3, MetricAnswers DEF WorldTyped
<1>4. CASE q.type = "log"
  BY <1>1, <1>4, LogAnswers DEF WorldTyped
<1>5. CASE q.type = "event"
  BY <1>1, <1>5, EventAnswers DEF WorldTyped
<1>6. CASE q.type = "deploymentCondition"
  BY <1>1, <1>6, ConditionAnswers DEF WorldTyped
<1>7. CASE q.type = "probeConfiguration"
  BY <1>1, <1>7, ProbeAnswers DEF WorldTyped
<1>8. CASE q.type = "serviceConfiguration"
  BY <1>1, <1>8, ServiceAnswers DEF WorldTyped
<1>9. CASE q.type = "containerTermination"
  BY <1>1, <1>9, TerminationAnswers DEF WorldTyped
<1> QED BY <1>1, <1>2, <1>3, <1>4, <1>5, <1>6, <1>7, <1>8, <1>9

-----------------------------------------------------------------------------
(* From the adapter's answer to the observations.                          *)

AllTruncated(obs) ==
    obs # <<>> /\ DOMAIN obs # {} /\ \A i \in DOMAIN obs : obs[i].truncated

Normalized(c, obs) ==
    /\ c.truncated /\ (c.records # <<>> \/ c.type = "containerTermination") =>
          AllTruncated(obs)
    /\ c.truncated /\ c.records = <<>> /\ c.type # "containerTermination" => obs = <<>>
    /\ ~ c.truncated =>
          \/ AllTruncated(obs)
          \/ /\ DOMAIN obs = DOMAIN c.records /\ Len(obs) = Len(c.records)
             /\ \A i \in DOMAIN obs : obs[i].reason = c.records[i].reason

LEMMA NormalizeCases ==
  ASSUME NEW c, NEW S, c.records \in Seq(S), c.truncated \in BOOLEAN,
         NEW obs, obs = NormalizeObservations(c)
  PROVE  Normalized(c, obs)
<1> DEFINE count == Len(c.records)
           n == Lower(count, MaxEvidence)
           truncated == c.truncated \/ count > MaxEvidence
           original == IF c.original > count THEN c.original ELSE count
           retained == IF c.retained > 0 THEN Lower(c.retained, n) ELSE n
           scan == count = 0 /\ c.truncated /\ c.type = "containerTermination"
           alone == [reason |-> NoReason, truncated |-> TRUE,
                     original |-> c.original, retained |-> c.retained]
           Of(i) == [reason |-> c.records[i].reason,
                     truncated |-> truncated \/ c.records[i].long,
                     original |-> original, retained |-> retained]
<1>1. obs = IF scan THEN <<alone>> ELSE [i \in 1 .. n |-> Of(i)]
  BY DEF NormalizeObservations
<1>2. MaxEvidence \in Nat /\ MaxEvidence > 0
  BY EvidenceAssumption
<1>3. count \in Nat /\ DOMAIN c.records = 1 .. count /\ (c.records = <<>> <=> count = 0)
  OBVIOUS
<1>4. /\ n \in Nat /\ n <= count /\ (n = 0 <=> count = 0)
      /\ n = count \/ count > MaxEvidence
  <2> HIDE DEF count
  <2> QED BY <1>2, <1>3 DEF Lower
<1>5. \A i : /\ Of(i).reason = c.records[i].reason
             /\ truncated => Of(i).truncated
  OBVIOUS
<1>6. alone.truncated
  OBVIOUS
<1>7. truncated <=> c.truncated \/ count > MaxEvidence
  OBVIOUS
<1>8. scan <=> count = 0 /\ c.truncated /\ c.type = "containerTermination"
  OBVIOUS
<1> HIDE DEF count, n, truncated, original, retained, scan, alone, Of
<1>9. CASE scan
  <2>1. obs = <<alone>>
    BY <1>1, <1>9
  <2>2. AllTruncated(obs)
    <3>1. DOMAIN <<alone>> = {1} /\ <<alone>>[1] = alone /\ <<alone>> # <<>>
      OBVIOUS
    <3> QED BY <1>6, <2>1, <3>1 DEF AllTruncated
  <2> QED BY <1>3, <1>8, <1>9, <2>2 DEF Normalized
<1>10. CASE ~ scan
  <2>1. obs = [i \in 1 .. n |-> Of(i)]
    BY <1>1, <1>10
  <2>2. obs \in Seq({Of(i) : i \in 1 .. n}) /\ Len(obs) = n /\ DOMAIN obs = 1 .. n
    BY <1>4, <2>1
  <2>3. n = 0 <=> obs = <<>>
    BY <1>4, <2>2
  <2>4. \A i \in DOMAIN obs : obs[i] = Of(i)
    BY <2>1
  <2>5. truncated /\ n # 0 => AllTruncated(obs)
    <3>1. n # 0 => 1 \in DOMAIN obs
      BY <1>4, <2>2
    <3> QED BY <1>5, <2>3, <2>4, <3>1 DEF AllTruncated
  <2>6. ~ truncated => /\ DOMAIN obs = DOMAIN c.records /\ Len(obs) = Len(c.records)
                       /\ \A i \in DOMAIN obs : obs[i].reason = c.records[i].reason
    <3> SUFFICES ASSUME ~ truncated
                 PROVE  /\ DOMAIN obs = DOMAIN c.records /\ Len(obs) = Len(c.records)
                        /\ \A i \in DOMAIN obs : obs[i].reason = c.records[i].reason
      OBVIOUS
    <3>1. n = count
      BY <1>2, <1>3, <1>4, <1>7
    <3>2. \A i \in DOMAIN obs : obs[i].reason = c.records[i].reason
      BY <1>5, <2>4
    <3>3. Len(c.records) = count
      BY DEF count
    <3> QED BY <1>3, <2>2, <3>1, <3>2, <3>3
  <2>7. count > MaxEvidence => n # 0
    BY <1>2, <1>3, <1>4
  <2>8. c.truncated => (c.records # <<>> => AllTruncated(obs))
    BY <1>3, <1>4, <1>7, <2>5
  <2>9. c.truncated /\ c.records = <<>> => obs = <<>> /\ c.type # "containerTermination"
    BY <1>3, <1>4, <1>8, <1>10, <2>3
  <2> QED BY <1>7, <2>5, <2>6, <2>7, <2>8, <2>9 DEF Normalized
<1> QED BY <1>9, <1>10

(* The result after the investigation's own limits and its filter: the     *)
(* adapter's, or a part of it that is marked as truncated.                 *)
LEMMA LimitedAndFiltered ==
  ASSUME NEW t, NEW S, NEW r \in Seq(S), NEW lim, NEW limits \in Limits, NEW reasons,
         t = "event" => \A i \in DOMAIN r : EventReasonAllowed(r[i].reason, reasons),
         NEW c, c = FilterQueryResult(ApplyQueryResultLimits(Result(t, r, lim), limits),
                                      reasons)
  PROVE  /\ c.type = t /\ c.records \in Seq(S) /\ c.truncated \in BOOLEAN
         /\ \/ c.records = r /\ c.truncated = (lim # NoLimit)
            \/ c.records # <<>> /\ c.truncated
<1> DEFINE a == Result(t, r, lim)
           max == MaxQueryResultRecords(t, limits)
           cut == Limited(r, max)
           b == ApplyQueryResultLimits(a, limits)
<1>1. max \in Int
  <2>1. /\ limits.samples \in Int /\ limits.series \in Int /\ limits.entries \in Int
        /\ limits.lines \in Int /\ limits.records \in Int
    BY DEF Limits
  <2>2. MinPositive(limits.samples, limits.series) \in Int /\ LogEntries(limits) \in Int
    BY <2>1 DEF MinPositive, Lower, LogEntries
  <2> QED BY <2>1, <2>2 DEF MaxQueryResultRecords
<1>2. /\ a.type = t /\ a.records = r /\ a.truncated = (lim # NoLimit)
      /\ a.truncated \in BOOLEAN
  BY DEF Result
<1>3. \/ b = a
      \/ /\ max > 0 /\ Len(r) > max
         /\ b = [a EXCEPT !.records = Limited(@, max), !.truncated = TRUE,
                          !.original = Len(a.records), !.retained = max]
  BY <1>1, <1>2 DEF ApplyQueryResultLimits
<1>4. DOMAIN a = {"type", "records", "truncated", "original", "retained"}
  BY DEF Result
<1> HIDE DEF a, max, b
<1>5. cut \in Seq(S) /\ (max > 0 /\ Len(r) > max => cut # <<>>)
      /\ \A i \in DOMAIN cut : i \in DOMAIN r /\ cut[i] = r[i]
  <2>1. /\ cut \in Seq(S)
        /\ Len(cut) = IF max > 0 THEN Lower(max, Len(r)) ELSE Len(r)
        /\ \A i \in 1 .. Len(cut) : cut[i] = r[i]
    BY <1>1, LimitedIs
  <2> HIDE DEF cut
  <2>2. Len(cut) <= Len(r) /\ (max > 0 /\ Len(r) > max => Len(cut) > 0)
    BY <1>1, <2>1 DEF Lower
  <2> QED BY <2>1, <2>2
<1> HIDE DEF cut
<1>6. /\ b.type = t /\ b.records \in Seq(S) /\ b.truncated \in BOOLEAN
      /\ \/ b.records = r /\ b.truncated = (lim # NoLimit)
         \/ b.records # <<>> /\ b.truncated
      /\ \A i \in DOMAIN b.records : i \in DOMAIN r /\ b.records[i] = r[i]
      /\ DOMAIN b = DOMAIN a
  <2>1. CASE b = a
    BY <1>2, <2>1
  <2>2. CASE /\ max > 0 /\ Len(r) > max
             /\ b = [a EXCEPT !.records = Limited(@, max), !.truncated = TRUE,
                              !.original = Len(a.records), !.retained = max]
    <3> DEFINE len == Len(a.records)
    <3> HIDE DEF len
    <3>1. b = [a EXCEPT !.records = cut, !.truncated = TRUE,
                        !.original = len, !.retained = max]
      BY <1>2, <2>2 DEF cut, len
    <3>2. b.type = a.type /\ b.records = cut /\ b.truncated = TRUE /\ DOMAIN b = DOMAIN a
      BY <1>4, <3>1
    <3> QED BY <1>2, <1>5, <2>2, <3>2
  <2> QED BY <1>3, <2>1, <2>2
<1>7. c = FilterQueryResult(b, reasons)
  BY DEF b, a
<1>8. CASE t # "event"
  BY <1>6, <1>7, <1>8 DEF FilterQueryResult
<1>9. CASE t = "event"
  <2> DEFINE x == b.records
             T == {y \in ToSet(x) : EventReasonAllowed(y.reason, reasons)}
             kept == OnlyIn(x, T)
  <2>1. c = [b EXCEPT !.records = kept]
    BY <1>6, <1>7, <1>9 DEF FilterQueryResult
  <2>2. \A i \in DOMAIN x : x[i] \in T
    BY <1>6, <1>9 DEF ToSet
  <2>3. x \in Seq(S)
    BY <1>6
  <2> HIDE DEF T, x
  <2>4. kept = x
    BY <2>2, <2>3, OnlyInAllOrNone
  <2> HIDE DEF kept
  <2>5. c.type = b.type /\ c.truncated = b.truncated /\ c.records = kept
    BY <1>4, <1>6, <2>1
  <2> QED BY <1>6, <2>4, <2>5 DEF x
<1> QED BY <1>8, <1>9

(* What an observed query says: that it was truncated, or all there is.    *)
Tells(q, obs) ==
    \/ AllTruncated(obs)
    \/ /\ Len(obs) = Answering(q) /\ Answering(q) \in Nat
       /\ q.type # "log" =>
             /\ DOMAIN obs = DOMAIN AdapterResult(WithoutLimits(q)).records
             /\ \A i \in DOMAIN obs :
                   obs[i].reason = AdapterResult(WithoutLimits(q)).records[i].reason
       /\ q.type = "log" =>
             \A i \in DOMAIN AdapterResult(WithoutLimits(q)).records :
                 AdapterResult(WithoutLimits(q)).records[i].reason = NoReason

LEMMA ObservedTells ==
  ASSUME NEW q \in EvidenceQueries
  PROVE  Tells(q, Observe(q))
<1>1. q.limits \in Limits /\ \E r, lim, u : Answers(q, r, lim, u)
  BY AdapterAnswers
<1>2. PICK r, lim, u : Answers(q, r, lim, u)
  BY <1>1
<1>3. PICK S : r \in Seq(S)
  BY <1>2 DEF Answers
<1> DEFINE c == FilterQueryResult(
                    ApplyQueryResultLimits(Result(q.type, r, lim), q.limits), q.reasons)
           obs == Observe(q)
           t == q.type
           limits == q.limits
           reasons == q.reasons
<1>4. obs = NormalizeObservations(c)
  BY <1>2 DEF Observe, Answers
<1>5. t = "event" => \A i \in DOMAIN r : EventReasonAllowed(r[i].reason, reasons)
  BY <1>2 DEF Answers
<1>6. c = FilterQueryResult(ApplyQueryResultLimits(Result(t, r, lim), limits), reasons)
      /\ limits \in Limits
  BY <1>1
<1> HIDE DEF c, obs, t, limits, reasons
<1>7. /\ c.type = t /\ c.records \in Seq(S) /\ c.truncated \in BOOLEAN
      /\ \/ c.records = r /\ c.truncated = (lim # NoLimit)
         \/ c.records # <<>> /\ c.truncated
  BY ONLY <1>3, <1>5, <1>6, LimitedAndFiltered
<1>8. Normalized(c, obs)
  BY <1>4, <1>7, NormalizeCases
<1>9. /\ AdapterResult(WithoutLimits(q)).records = u
      /\ lim = NoLimit => Len(r) = Answering(q) /\ (t = "log" \/ r = u)
      /\ lim # NoLimit /\ r = <<>> =>
            \/ t = "containerTermination"
            \/ Answering(q) = 0 /\ (t = "log" \/ u = <<>>)
      /\ t = "log" => \A i \in DOMAIN u : u[i].reason = NoReason
  BY <1>2 DEF Answers, t
<1>10. CASE c.records # <<>> /\ c.truncated
  BY <1>8, <1>10 DEF Normalized, Tells, obs
<1>11. CASE c.records = r /\ c.truncated = (lim # NoLimit) /\ lim # NoLimit /\ r = <<>>
  <2>1. CASE t = "containerTermination"
    BY <1>7, <1>8, <1>11, <2>1 DEF Normalized, Tells, obs
  <2>2. CASE t # "containerTermination"
    <3>1. obs = <<>> /\ Answering(q) = 0 /\ (t = "log" \/ u = <<>>)
      BY <1>7, <1>8, <1>9, <1>11, <2>2 DEF Normalized
    <3>2. Len(<<>>) = 0 /\ DOMAIN <<>> = {}
      OBVIOUS
    <3>3. /\ Len(obs) = Answering(q) /\ Answering(q) \in Nat
          /\ t # "log" => /\ DOMAIN obs = DOMAIN u
                          /\ \A i \in DOMAIN obs : obs[i].reason = u[i].reason
          /\ t = "log" => \A i \in DOMAIN u : u[i].reason = NoReason
      BY <1>9, <3>1, <3>2
    <3> QED BY <1>9, <3>3 DEF Tells, obs, t
  <2> QED BY <2>1, <2>2
<1>12. CASE c.records = r /\ lim = NoLimit /\ ~ c.truncated
  <2>1. CASE AllTruncated(obs)
    BY <2>1 DEF Tells, obs
  <2>2. CASE ~ AllTruncated(obs)
    <3>1. /\ DOMAIN obs = DOMAIN r /\ Len(obs) = Len(r)
          /\ \A i \in DOMAIN obs : obs[i].reason = r[i].reason
      BY <1>8, <1>12, <2>2 DEF Normalized
    <3>2. /\ Len(obs) = Answering(q) /\ Answering(q) \in Nat
          /\ t # "log" => /\ DOMAIN obs = DOMAIN u
                          /\ \A i \in DOMAIN obs : obs[i].reason = u[i].reason
          /\ t = "log" => \A i \in DOMAIN u : u[i].reason = NoReason
      BY <1>3, <1>9, <1>12, <3>1
    <3> QED BY <1>9, <3>2 DEF Tells, obs, t
  <2> QED BY <2>1, <2>2
<1> QED BY <1>7, <1>10, <1>11, <1>12

-----------------------------------------------------------------------------
(* The specifications.                                                     *)

EvidenceInv ==
    /\ query \in EvidenceQueries
    /\ querying = "observed" => observations = Observe(query)

LEMMA EvidenceInvInit ==
  ASSUME EvidenceInit
  PROVE  EvidenceInv
<1>1. /\ query \in EvidenceQueries
      /\ querying = IF OverHTTP(query.type) THEN "ask" ELSE "answered"
  BY Zenon DEF EvidenceInit
<1> QED BY <1>1 DEF EvidenceInv

LEMMA EvidenceInvStep ==
  ASSUME EvidenceInv, [EvidenceNext]_evidenceVars
  PROVE  EvidenceInv' /\ query' = query
             /\ (observations' = observations \/ observations' = Observe(query))
<1> USE DEF EvidenceInv
<1>1. ASSUME NEW response, Attempt(response)
      PROVE  EvidenceInv' /\ query' = query /\ observations' = observations
  BY <1>1 DEF Attempt
<1>2. CASE Retry
  BY <1>2 DEF Retry
<1>3. CASE EndContext
  BY <1>3 DEF EndContext
<1>4. CASE ObserveRecords
  BY <1>4 DEF ObserveRecords
<1>5. CASE StoreSnapshot
  BY <1>5 DEF StoreSnapshot
<1>6. CASE UNCHANGED evidenceVars
  BY <1>6 DEF evidenceVars
<1> QED BY <1>1, <1>2, <1>3, <1>4, <1>5, <1>6 DEF EvidenceNext

LEMMA TruncationFromInv ==
  ASSUME EvidenceInv
  PROVE  TruncationShown
<1> SUFFICES ASSUME querying = "observed", Len(observations) < Answering(query)
             PROVE  /\ observations # <<>>
                    /\ \A i \in DOMAIN observations : observations[i].truncated
  BY DEF TruncationShown
<1>1. Tells(query, observations)
  BY ObservedTells DEF EvidenceInv
<1>2. ~ (Len(observations) = Answering(query) /\ Answering(query) \in Nat)
  OBVIOUS
<1> QED BY <1>1, <1>2 DEF Tells, AllTruncated

(* Whatever the datasource holds and whatever the limits of the query, the *)
(* adapters, the limits of the investigation and the cap on observations   *)
(* (datasource/prometheus, loki, kubernetes, investigation/service.go) do  *)
(* not lose part of the answer without a word: the query is observed as a  *)
(* whole, or something is observed and every observation says truncated.   *)
THEOREM TruncationIsShown == EvidenceSpec => []TruncationShown
<1>1. EvidenceInit => EvidenceInv
  BY EvidenceInvInit
<1>2. EvidenceInv /\ [EvidenceNext]_evidenceVars => EvidenceInv'
  BY EvidenceInvStep
<1>3. EvidenceInv => TruncationShown
  BY TruncationFromInv
<1> QED BY <1>1, <1>2, <1>3, PTL DEF EvidenceSpec

(* A verdict leaves the query alone: an investigation under a profile      *)
(* (investigationrequest_controller.go) observes as one without does.      *)
THEOREM ProfileObserves == ProfileSpec => EvidenceSpec
<1>1. ProfileInit => EvidenceInit
  BY Zenon DEF ProfileInit
<1>2. [ProfileNext]_<<evidenceVars, profileVars>> => [EvidenceNext]_evidenceVars
  <2>1. ASSUME NEW causes, Judge(causes) PROVE UNCHANGED evidenceVars
    BY <2>1, Zenon DEF Judge
  <2> QED BY <2>1, Zenon DEF ProfileNext
<1> QED BY <1>1, <1>2, PTL DEF ProfileSpec, EvidenceSpec

VerdictInv ==
    outcome = "NoIssueFound" =>
        /\ observations = Observe(query)
        /\ HasNoIssue(inquiry.profile, inquiry.asks, ReportedRefs)

LEMMA RequiredIsRelevant ==
  ASSUME NEW profile
  PROVE  RequiredKinds(profile) \subseteq RelevantKinds(profile)
  BY DEF RequiredKinds, RelevantKinds, Scheduling

\* What shows an issue is what a reference is of and what it says.
LEMMA ShowsBySaying ==
  ASSUME NEW profile, NEW a, NEW b, a.kind = b.kind, a.says = b.says
  PROVE  ShowsIssue(profile, a) <=> ShowsIssue(profile, b)
  BY Zenon DEF ShowsIssue

LEMMA SilentLog ==
  ASSUME NEW profile, NEW a, a.kind = "log", a.says = {}
  PROVE  ~ ShowsIssue(profile, a)
  BY DEF ShowsIssue

LEMMA LogSaysNothing == Words("log", NoReason) = {}
<1>1. NoReason # "ImagePullBackOff" /\ NoReason # "CrashLoopBackOff"
  BY Zenon DEF NoReason
<1> QED BY <1>1 DEF Words

LEMMA SoundFromInv ==
  ASSUME EvidenceInv, VerdictInv
  PROVE  NoIssueIsSound
<1> SUFFICES ASSUME outcome = "NoIssueFound",
                    \A i \in DOMAIN observations : ~ observations[i].truncated,
                    query.type \in RequiredKinds(inquiry.profile),
                    NEW ref \in Held
             PROVE  ~ ShowsIssue(inquiry.profile, ref)
  BY DEF NoIssueIsSound
<1> DEFINE u == AdapterResult(WithoutLimits(query)).records
           t == query.type
<1>1. Tells(query, observations)
  BY ObservedTells DEF EvidenceInv, VerdictInv
<1>2. ~ AllTruncated(observations)
  BY DEF AllTruncated
<1>3. /\ t # "log" => /\ DOMAIN observations = DOMAIN u
                      /\ \A i \in DOMAIN observations : observations[i].reason = u[i].reason
      /\ t = "log" => \A i \in DOMAIN u : u[i].reason = NoReason
  BY <1>1, <1>2 DEF Tells
<1>4. PICK i \in DOMAIN u : ref = Ref(t, Words(t, u[i].reason), {}, FALSE)
  BY DEF Held, ToSet
<1>5. ref.kind = t /\ ref.says = Words(t, u[i].reason)
  BY <1>4 DEF Ref
<1> HIDE DEF u, t
<1>6. CASE t = "log"
  BY <1>3, <1>5, <1>6, LogSaysNothing, SilentLog
<1>7. CASE t # "log"
  <2> DEFINE repeats == IF inquiry.retained THEN inquiry.asks ELSE {}
             o == Ref(t, Words(t, observations[i].reason), repeats,
                      observations[i].truncated)
  <2>1. i \in DOMAIN observations /\ observations[i].reason = u[i].reason
    BY <1>3, <1>7
  <2>2. o \in ReportedRefs
    BY <2>1 DEF ReportedRefs, t
  <2>3. o.kind = t /\ o.says = ref.says
    BY <1>5, <2>1 DEF Ref
  <2> HIDE DEF o
  <2>4. o.kind \in RelevantKinds(inquiry.profile)
    BY <2>3, RequiredIsRelevant DEF t
  <2>5. ~ ShowsIssue(inquiry.profile, o)
    BY <2>2, <2>4 DEF VerdictInv, HasNoIssue
  <2> QED BY <1>5, <2>3, <2>5, ShowsBySaying
<1> QED BY <1>6, <1>7

(* NoIssueFound of evaluateEvidenceRequirements can be trusted when no     *)
(* observation is truncated: for every content of the datasource, every    *)
(* limit and every profile, nothing the datasource holds in answer to a    *)
(* query of a required kind shows the profile's issue.                     *)
THEOREM NoIssueFoundIsSound == ProfileSpec => []NoIssueIsSound
<1>1. ProfileInit => EvidenceInv /\ VerdictInv
  <2> SUFFICES ASSUME ProfileInit PROVE EvidenceInv /\ VerdictInv
    OBVIOUS
  <2>1. EvidenceInit
    BY Zenon DEF ProfileInit
  <2>2. outcome # "NoIssueFound"
    BY Zenon DEF ProfileInit
  <2> QED BY <2>1, <2>2, EvidenceInvInit DEF VerdictInv
<1>2. /\ EvidenceInv /\ VerdictInv /\ [ProfileNext]_<<evidenceVars, profileVars>>
      => EvidenceInv' /\ VerdictInv'
  <2> SUFFICES ASSUME EvidenceInv, VerdictInv,
                      [ProfileNext]_<<evidenceVars, profileVars>>
               PROVE  EvidenceInv' /\ VerdictInv'
    OBVIOUS
  <2>1. CASE [EvidenceNext]_evidenceVars /\ UNCHANGED profileVars
    <3>1. /\ EvidenceInv' /\ query' = query
          /\ observations' = observations \/ observations' = Observe(query)
      BY <2>1, EvidenceInvStep
    <3>2. outcome' = outcome /\ inquiry' = inquiry
      BY <2>1 DEF profileVars
    <3>3. ASSUME outcome = "NoIssueFound"
          PROVE  /\ observations' = observations
                 /\ observations = Observe(query)
                 /\ HasNoIssue(inquiry.profile, inquiry.asks, ReportedRefs)
      BY <3>1, <3>3 DEF VerdictInv
    <3>4. observations' = observations => ReportedRefs' = ReportedRefs
      BY <3>1, <3>2 DEF ReportedRefs
    <3> QED BY <3>1, <3>2, <3>3, <3>4 DEF VerdictInv
  <2>2. ASSUME NEW causes, Judge(causes)
        PROVE  EvidenceInv' /\ VerdictInv'
    <3> DEFINE gate == Gate(inquiry.profile, inquiry.asks, ReportedRefs)
    <3>1. querying = "observed" /\ UNCHANGED evidenceVars /\ inquiry' = inquiry
      BY <2>2, Zenon DEF Judge
    <3>2. outcome' = "NoIssueFound" => gate = "noIssue"
      BY <2>2, Zenon DEF Judge
    <3>3. gate = "noIssue" => HasNoIssue(inquiry.profile, inquiry.asks, ReportedRefs)
      BY DEF Gate
    <3>4. query' = query /\ observations' = observations /\ querying' = querying
      BY <3>1 DEF evidenceVars
    <3>5. ReportedRefs' = ReportedRefs
      BY <3>1, <3>4 DEF ReportedRefs
    <3> QED BY <3>1, <3>2, <3>3, <3>4, <3>5 DEF EvidenceInv, VerdictInv
  <2> QED BY <2>1, <2>2 DEF ProfileNext
<1>3. EvidenceInv /\ VerdictInv => NoIssueIsSound
  BY SoundFromInv
<1> QED BY <1>1, <1>2, <1>3, PTL DEF ProfileSpec

-----------------------------------------------------------------------------
(* The model gateway.                                                      *)

Evidences == [kind : STRING, level : Levels, tags : SUBSET STRING,
              redacted : BOOLEAN, text : BOOLEAN]

\* What the gateway holds is evidence and a provider that exists.
HoldsProvider ==
    /\ \A k \in ProviderKeys : providers[k] \in ProviderSpecs \cup {NoProvider}
    /\ current.spec \in ProviderSpecs \cup {NoProvider}
    /\ bundle \in Bundles

(* Between its preparation and the last retry of a request, what is        *)
(* offered was prepared for the current provider, as it was read, and was  *)
(* found in order.                                                         *)
OfferedUnderPolicy ==
    /\ turn \in {"configure", "request"} =>
          /\ PolicyIssue(current.spec, bundle) = ""
          /\ offered = EvidenceFor(current.spec, bundle)
    /\ turn = "request" => Hosted(current.spec)

GatewayInv == HoldsProvider /\ OfferedUnderPolicy /\ SentUnderOwnPolicy

-----------------------------------------------------------------------------
\* Levels are ordered.
LEMMA LevelsOrdered ==
    ASSUME NEW a \in Levels, NEW b \in Levels, NEW c \in Levels, a <= b, b <= c
    PROVE  a <= c
<1>1. a \in Int /\ b \in Int /\ c \in Int
  BY DEF Levels
<1> QED
  BY <1>1

\* No piece is above the level BundleClassification gives the whole.
LEMMA BundleLevelBounds ==
    ASSUME NEW refs, \A ref \in refs : ref.level \in Levels, NEW ref \in refs
    PROVE  ref.level <= BundleLevel(refs) /\ BundleLevel(refs) \in Levels
<1> DEFINE S == {1} \cup {r.level : r \in refs}
<1>1. S \subseteq 0 .. 3 /\ 1 \in S /\ ref.level \in S
  BY DEF Levels
<1> HIDE DEF S
<1>2. \E x \in S : \A y \in S : x >= y
  <2>1. CASE 3 \in S
    BY <1>1, <2>1
  <2>2. CASE 3 \notin S /\ 2 \in S
    BY <1>1, <2>2
  <2>3. CASE 3 \notin S /\ 2 \notin S
    BY <1>1, <2>3
  <2> QED
    BY <2>1, <2>2, <2>3
<1>3. Max(S) \in S /\ \A y \in S : Max(S) >= y
  BY <1>2 DEF Max
<1>4. BundleLevel(refs) = Max(S)
  BY DEF BundleLevel, S
<1> QED
  BY <1>1, <1>3, <1>4 DEF Levels

(* The filter of applyProviderDataPolicy changes nothing of a piece but    *)
(* its sample.                                                             *)
LEMMA FilterKeeps ==
    ASSUME NEW refs, \A r \in refs : r \in Evidences, NEW spec,
           NEW ref \in FilterEvidence(refs, spec)
    PROVE  /\ ref.level \in Levels
           /\ KindAllowed(ref.kind, spec)
           /\ ref.kind = "log" /\ ref.text => spec.logs
<1>1. PICK r \in refs : /\ KindAllowed(r.kind, spec)
                        /\ ref = [r EXCEPT !.text = @ /\ (r.kind = "log" => spec.logs)]
  BY DEF FilterEvidence
<1>2. r \in Evidences
  OBVIOUS
<1>3. ref.kind = r.kind /\ ref.level = r.level
  BY <1>1, <1>2 DEF Evidences
<1>4. ref.text = (r.text /\ (r.kind = "log" => spec.logs))
  BY <1>1, <1>2 DEF Evidences
<1>5. r.level \in Levels
  BY <1>2 DEF Evidences
<1>6. ref.kind = "log" /\ ref.text => spec.logs
  BY <1>3, <1>4
<1> QED
  BY <1>1, <1>3, <1>5, <1>6

\* What a policy raises no issue about is admitted by it piece by piece.
LEMMA PolicyAdmits ==
    ASSUME NEW spec \in ProviderSpecs, NEW evidence \in Bundles,
           Hosted(spec), PolicyIssue(spec, evidence) = ""
    PROVE  /\ spec.external
           /\ \A kinds \in EvidenceFor(spec, evidence).advisories :
                 kinds = {} \/ \E kind \in kinds : KindAllowed(kind, spec)
           /\ \A ref \in EvidenceFor(spec, evidence).refs :
                 /\ KindAllowed(ref.kind, spec)
                 /\ ref.kind = "log" /\ ref.text => spec.logs
                 /\ ref.level <= spec.level
                 /\ ref.tags \cap spec.denied = {}
                 /\ spec.redaction => ref.redacted
<1> DEFINE refs == evidence.refs
           F == FilterEvidence(refs, spec)
           advisories == FilterAdvisories(evidence.advisories, F)
<1>1. spec.external /\ EvaluateProviderPolicy(spec, F)
  BY DEF PolicyIssue
<1>2. /\ EvidenceFor(spec, evidence).refs = F
      /\ EvidenceFor(spec, evidence).advisories = advisories
  BY DEF EvidenceFor
<1>3. \A r \in refs : r \in Evidences
  BY GatewayAssumption DEF Evidences
<1> HIDE DEF refs
<1>12. \A kinds \in advisories : kinds = {} \/ \E kind \in kinds : KindAllowed(kind, spec)
  <2>1. \A r \in F : KindAllowed(r.kind, spec)
    BY <1>3, FilterKeeps
  <2> HIDE DEF F
  <2> QED
    BY <2>1 DEF FilterAdvisories
<1> HIDE DEF F, advisories
<1>4. SUFFICES ASSUME NEW ref \in F
               PROVE  /\ KindAllowed(ref.kind, spec)
                      /\ ref.kind = "log" /\ ref.text => spec.logs
                      /\ ref.level <= spec.level
                      /\ ref.tags \cap spec.denied = {}
                      /\ spec.redaction => ref.redacted
  BY <1>1, <1>2, <1>12
<1>5. \A r \in F : r.level \in Levels
  BY <1>3, FilterKeeps DEF F
<1>6. KindAllowed(ref.kind, spec) /\ (ref.kind = "log" /\ ref.text => spec.logs)
  BY <1>3, FilterKeeps DEF F
<1>7. ref.level <= BundleLevel(F) /\ BundleLevel(F) \in Levels /\ ref.level \in Levels
  BY <1>5, BundleLevelBounds
<1>8. spec.level \in Levels
  BY GatewayAssumption
<1>9. ref.level <= spec.level
  <2>1. BundleLevel(F) <= spec.level
    BY <1>1 DEF EvaluateProviderPolicy
  <2> QED
    BY <2>1, <1>7, <1>8, LevelsOrdered
<1>10. ref.tags \cap spec.denied = {}
  <2>1. (UNION {r.tags : r \in F}) \cap spec.denied = {}
    BY <1>1 DEF EvaluateProviderPolicy
  <2>2. ref.tags \subseteq UNION {r.tags : r \in F}
    OBVIOUS
  <2> QED
    BY <2>1, <2>2
<1>11. spec.redaction => ref.redacted
  BY <1>1 DEF EvaluateProviderPolicy
<1> QED
  BY <1>6, <1>9, <1>10, <1>11

-----------------------------------------------------------------------------
\* Nothing is offered or sent in the beginning.
LEMMA GatewayInitInv == GatewayInit => GatewayInv
<1> SUFFICES ASSUME GatewayInit PROVE GatewayInv
  OBVIOUS
<1>1. HoldsProvider
  <2>1. \A k \in ProviderKeys : providers[k] \in ProviderSpecs \cup {NoProvider}
    BY DEF GatewayInit
  <2>2. PICK k \in ProviderKeys : current = [key |-> k, spec |-> providers[k]]
    BY DEF GatewayInit
  <2>3. current.spec = providers[k]
    BY <2>2
  <2> QED
    BY <2>1, <2>3 DEF HoldsProvider, GatewayInit
<1>2. OfferedUnderPolicy
  BY DEF GatewayInit, OfferedUnderPolicy
<1>3. SentUnderOwnPolicy
  BY DEF GatewayInit, GatewayIdle, SentUnderOwnPolicy
<1> QED
  BY <1>1, <1>2, <1>3 DEF GatewayInv

\* A step that sends nothing keeps what was sent.
LEMMA NothingSent ==
    ASSUME SentUnderOwnPolicy, UNCHANGED sent
    PROVE  SentUnderOwnPolicy'
BY DEF SentUnderOwnPolicy, KindAllowed, Hosted

\* A failed provider leads to the fallback or to the end.
LEMMA FailTurn ==
    ASSUME NEW reason, Fail(reason)
    PROVE  turn' \in {"fallback", "failed"}
BY DEF Fail

\* The request sends what was prepared under the current provider's policy.
LEMMA RequestKeepsPolicy ==
    ASSUME GatewayInv, NEW reply, NEW done,
           RequestProvider(reply, done)
    PROVE  SentUnderOwnPolicy'
<1> DEFINE s0 == [key |-> current.key, spec |-> current.spec, evidence |-> offered]
<1>1. sent' = sent \cup {s0} /\ turn = "request"
  BY DEF RequestProvider
<1>2. /\ Hosted(current.spec)
      /\ PolicyIssue(current.spec, bundle) = ""
      /\ offered = EvidenceFor(current.spec, bundle)
  BY <1>1 DEF GatewayInv, OfferedUnderPolicy
<1>3. current.spec \in ProviderSpecs /\ bundle \in Bundles
  <2>1. ~ Hosted(NoProvider)
    BY DEF Hosted, NoProvider
  <2>2. current.spec # NoProvider
    BY <1>2, <2>1
  <2> QED
    BY <2>2 DEF GatewayInv, HoldsProvider
<1>4. s0.spec = current.spec /\ s0.evidence = offered
  OBVIOUS
<1>5. \A s \in sent' : s \in sent \/ s = s0
  BY <1>1
<1> HIDE DEF s0
<1>6. /\ current.spec.external
      /\ \A kinds \in offered.advisories :
            kinds = {} \/ \E kind \in kinds : KindAllowed(kind, current.spec)
      /\ \A ref \in offered.refs :
            /\ KindAllowed(ref.kind, current.spec)
            /\ ref.kind = "log" /\ ref.text => current.spec.logs
            /\ ref.level <= current.spec.level
            /\ ref.tags \cap current.spec.denied = {}
            /\ current.spec.redaction => ref.redacted
  BY <1>2, <1>3, PolicyAdmits
<1> QED
  BY <1>2, <1>4, <1>5, <1>6 DEF GatewayInv, SentUnderOwnPolicy, KindAllowed, Hosted

\* The fallback is a provider that is there.
LEMMA ResolveKeepsProvider ==
    ASSUME HoldsProvider, NEW readable, ResolveFallback(readable)
    PROVE  HoldsProvider' /\ turn' \in {"failed", "input"} /\ UNCHANGED sent
<1> DEFINE found == Resolved(current.key[1], current.spec.fallback)
           chosen == CHOOSE k \in found : TRUE
<1>1. UNCHANGED <<providers, bundle, sent>> /\ turn' \in {"failed", "input"}
  BY DEF ResolveFallback, Ended
<1>2. CASE UNCHANGED current
  BY <1>1, <1>2 DEF HoldsProvider
<1>3. CASE found # {} /\ current' = [key |-> chosen, spec |-> providers[chosen]]
  <2>1. chosen \in ProviderKeys
    BY <1>3 DEF Resolved
  <2>2. current'.spec = providers[chosen]
    BY <1>3
  <2> QED
    BY <1>1, <2>1, <2>2 DEF HoldsProvider
<1> QED
  BY <1>1, <1>2, <1>3 DEF ResolveFallback

\* Every step keeps the invariant.
LEMMA GatewayNextInv ==
    ASSUME GatewayInv, [GatewayNext]_gatewayVars
    PROVE  GatewayInv'
<1> USE DEF GatewayInv
<1>1. CASE GenerateRCA
  <2>1. HoldsProvider'
    BY <1>1 DEF GenerateRCA, HoldsProvider
  <2>2. turn' \in {"failed", "input"}
    BY <1>1 DEF GenerateRCA
  <2>3. SentUnderOwnPolicy'
    BY <1>1, NothingSent DEF GenerateRCA
  <2> QED
    BY <2>1, <2>2, <2>3 DEF OfferedUnderPolicy
<1>2. CASE InputForProvider
  <2>1. HoldsProvider'
    BY <1>2 DEF InputForProvider, HoldsProvider
  <2>2. SentUnderOwnPolicy'
    BY <1>2, NothingSent DEF InputForProvider
  <2>3. CASE PolicyIssue(current.spec, bundle) # ""
    BY <1>2, <2>1, <2>2, <2>3, FailTurn DEF InputForProvider, OfferedUnderPolicy
  <2>4. CASE PolicyIssue(current.spec, bundle) = ""
    <3>1. /\ turn' = "configure" /\ UNCHANGED <<current, bundle>>
          /\ offered' = EvidenceFor(current.spec, bundle)
      BY <1>2, <2>4 DEF InputForProvider
    <3>2. PolicyIssue(current.spec, bundle)' = PolicyIssue(current.spec, bundle)
      BY <3>1 DEF PolicyIssue, EvaluateProviderPolicy, FilterEvidence, BundleLevel,
                  KindAllowed, Hosted
    <3>3. EvidenceFor(current.spec, bundle)' = EvidenceFor(current.spec, bundle)
      BY <3>1 DEF EvidenceFor, FilterEvidence, FilterAdvisories, KindAllowed, Hosted
    <3> QED
      BY <2>1, <2>2, <2>4, <3>1, <3>2, <3>3 DEF OfferedUnderPolicy
  <2> QED
    BY <2>3, <2>4
<1>3. ASSUME NEW secret, ConfigureProvider(secret)
      PROVE  GatewayInv'
  <2>1. HoldsProvider'
    BY <1>3 DEF ConfigureProvider, HoldsProvider
  <2>2. SentUnderOwnPolicy'
    BY <1>3, NothingSent DEF ConfigureProvider
  <2>3. \/ turn' \in {"succeeded", "fallback", "failed"}
        \/ turn' = "request" /\ Hosted(current.spec)
    BY <1>3, FailTurn DEF ConfigureProvider
  <2>4. turn = "configure" /\ UNCHANGED <<current, bundle, offered>>
    BY <1>3 DEF ConfigureProvider
  <2> QED
    BY <2>1, <2>2, <2>3, <2>4 DEF OfferedUnderPolicy
<1>4. ASSUME NEW reply, NEW done, RequestProvider(reply, done)
      PROVE  GatewayInv'
  <2>1. HoldsProvider'
    BY <1>4 DEF RequestProvider, HoldsProvider
  <2>2. SentUnderOwnPolicy'
    BY <1>4, RequestKeepsPolicy
  <2>3. turn' \in {"succeeded", "fallback", "failed"} \/ UNCHANGED turn
    BY <1>4, FailTurn DEF RequestProvider
  <2>4. UNCHANGED <<current, bundle, offered>>
    BY <1>4 DEF RequestProvider
  <2> QED
    BY <2>1, <2>2, <2>3, <2>4 DEF OfferedUnderPolicy
<1>5. ASSUME NEW readable, ResolveFallback(readable)
      PROVE  GatewayInv'
  BY <1>5, ResolveKeepsProvider, NothingSent DEF OfferedUnderPolicy
<1>6. CASE EditProvider
  <2>1. UNCHANGED <<bundle, current, turn, offered, sent>>
    BY <1>6 DEF EditProvider
  <2>2. \A k \in ProviderKeys : providers'[k] \in ProviderSpecs \cup {NoProvider}
    BY <1>6 DEF EditProvider, HoldsProvider
  <2> QED
    BY <2>1, <2>2, NothingSent DEF HoldsProvider, OfferedUnderPolicy
<1>7. CASE UNCHANGED gatewayVars
  BY <1>7, NothingSent DEF gatewayVars, HoldsProvider, OfferedUnderPolicy
<1> QED
  BY <1>1, <1>2, <1>3, <1>4, <1>5, <1>6, <1>7 DEF GatewayNext, GatewayStep

(* However providers fail, fall back and are edited, a hosted provider is  *)
(* sent only what its own data policy admits (inputForProvider is called   *)
(* for each provider of the chain).                                        *)
THEOREM PolicyRespected == GatewaySpec => []SentUnderOwnPolicy
<1>1. GatewayInit => GatewayInv
  BY GatewayInitInv
<1>2. GatewayInv /\ [GatewayNext]_gatewayVars => GatewayInv'
  BY GatewayNextInv
<1>3. GatewayInv => SentUnderOwnPolicy
  BY DEF GatewayInv
<1> QED
  BY <1>1, <1>2, <1>3, PTL DEF GatewaySpec
=============================================================================
