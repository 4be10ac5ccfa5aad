------------------------- MODULE PeixScenario_proofs ------------------------
(***************************************************************************)
(* Theorems about the integration client and the server it tests itself    *)
(* against, for every finite set of requests.                              *)
(*                                                                         *)
(* The stub: for every number of slots the sorted list it keeps and        *)
(* rebuilds with every move amounts to the queue of AdmissionContract.     *)
(* The list's operations are recursive functions, so the module begins     *)
(* with what they compute.                                                 *)
(*                                                                         *)
(* The client: why it may derive who was admitted when without ever seeing *)
(* that queue, for one slot or two and every queue depth.                  *)
(***************************************************************************)
EXTENDS PeixScenario, FiniteSetTheorems, SequenceTheorems, TLAPS

-----------------------------------------------------------------------------
(* What Kept computes                                                      *)

\* No element of s occurs twice.
Distinct(s) == \A i, j \in 1 .. Len(s) : s[i] = s[j] => i = j

\* a stands before b in s.
Precedes(s, a, b) == \E i, j \in 1 .. Len(s) : i < j /\ s[i] = a /\ s[j] = b

\* f solves the recursive equation of Kept(q, S) up to the n-th element.
KeptUpTo(f, n, q, S) ==
    f = [i \in 0 .. n |-> IF i = 0 THEN <<>>
                          ELSE IF q[i] \in S THEN Append(f[i - 1], q[i]) ELSE f[i - 1]]

\* Induction on the numbers up to m, over a set instead of a predicate.
LEMMA UpToInduction ==
    ASSUME NEW m \in Nat, NEW N, 0 \in N,
           \A n \in 0 .. m - 1 : n \in N => n + 1 \in N
    PROVE  0 .. m \subseteq N
  <1> DEFINE Missing == {n \in 0 .. m : n \notin N}
             Less == {ss \in Nat \X Nat : ss[1] < ss[2]}
  <1> SUFFICES ASSUME Missing # {} PROVE FALSE
    OBVIOUS
  <1>1. IsWellFoundedOn(Less, Nat)
    BY NatLessThanWellFounded DEF OpToRel
  <1>2. Missing \subseteq Nat
    OBVIOUS
  <1>3. PICK x \in Missing : \A y \in Missing : <<y, x>> \notin Less
    <2> HIDE DEF Missing, Less
    <2> QED
      BY <1>1, <1>2, WFMin
  <1>4. x \in 0 .. m /\ x \notin N /\ x # 0
    OBVIOUS
  <1>5. x - 1 \in 0 .. m - 1 /\ x - 1 < x /\ x - 1 \in Nat /\ x \in Nat
    BY <1>4
  <1>6. x - 1 \notin Missing
    BY <1>3, <1>5
  <1>7. x - 1 \in N
    BY <1>5, <1>6
  <1>8. x - 1 + 1 = x
    BY <1>5
  <1> QED
    BY <1>4, <1>5, <1>7, <1>8

\* The equation has a solution, and Kept is the value of one.
LEMMA KeptIsSolution ==
    ASSUME NEW T, NEW q \in Seq(T), NEW S
    PROVE  \E f : KeptUpTo(f, Len(q), q, S) /\ Kept(q, S) = f[Len(q)]
  <1> DEFINE Solved == {n \in Nat : \E f : KeptUpTo(f, n, q, S)}
  <1>1. Len(q) \in Nat
    BY LenProperties
  <1>2. 0 \in Solved
    <2>1. KeptUpTo([i \in 0 .. 0 |-> <<>>], 0, q, S)
      BY DEF KeptUpTo
    <2> QED
      BY <2>1
  <1>3. ASSUME NEW n \in 0 .. Len(q) - 1, n \in Solved PROVE n + 1 \in Solved
    <2>1. PICK f : KeptUpTo(f, n, q, S)
      BY <1>3
    <2>2. n \in Nat
      BY <1>1
    <2> DEFINE last == IF q[n + 1] \in S THEN Append(f[n], q[n + 1]) ELSE f[n]
               g == [i \in 0 .. n + 1 |-> IF i = n + 1 THEN last ELSE f[i]]
    <2>3. \A i \in 0 .. n : g[i] = f[i]
      BY <2>2
    <2>4. g[n + 1] = last
      BY <2>2
    <2>5. \A i \in 0 .. n : f[i] = IF i = 0 THEN <<>>
                                   ELSE IF q[i] \in S THEN Append(f[i - 1], q[i])
                                   ELSE f[i - 1]
      BY <2>1 DEF KeptUpTo
    <2>6. ASSUME NEW i \in 0 .. n + 1
          PROVE  g[i] = IF i = 0 THEN <<>>
                        ELSE IF q[i] \in S THEN Append(g[i - 1], q[i]) ELSE g[i - 1]
      <3>1. CASE i = 0
        BY <2>2, <2>3, <2>5, <3>1
      <3>2. CASE i # 0 /\ i # n + 1
        <4>1. i \in 0 .. n /\ i - 1 \in 0 .. n
          BY <2>2, <3>2
        <4> QED
          BY <2>3, <2>5, <3>2, <4>1
      <3>3. CASE i = n + 1
        <4>1. i # 0 /\ i - 1 = n /\ n \in 0 .. n
          BY <2>2, <3>3
        <4> QED
          BY <2>3, <2>4, <3>3, <4>1
      <3> QED
        BY <3>1, <3>2, <3>3
    <2>7. KeptUpTo(g, n + 1, q, S)
      <3> g = [i \in 0 .. n + 1 |-> g[i]]
        OBVIOUS
      <3> HIDE DEF g
      <3> QED
        BY <2>6 DEF KeptUpTo
    <2> QED
      BY <2>2, <2>7
  <1>4. Len(q) \in Solved
    <2> HIDE DEF Solved
    <2>1. 0 .. Len(q) \subseteq Solved
      BY <1>1, <1>2, <1>3, UpToInduction
    <2> QED
      BY <1>1, <2>1
  <1> DEFINE k == CHOOSE f : KeptUpTo(f, Len(q), q, S)
  <1>5. KeptUpTo(k, Len(q), q, S)
    BY <1>4
  <1>6. Kept(q, S) = k[Len(q)]
    BY DEF Kept, KeptUpTo
  <1> QED
    BY <1>5, <1>6

\* An appended element stands behind all others.
LEMMA AppendOrder ==
    ASSUME NEW T, NEW s \in Seq(T), NEW x \in T
    PROVE  /\ Append(s, x) \in Seq(T)
           /\ ToSet(Append(s, x)) = ToSet(s) \cup {x}
           /\ Distinct(s) /\ x \notin ToSet(s) => Distinct(Append(s, x))
           /\ \A a, b : Precedes(Append(s, x), a, b)
                          <=> Precedes(s, a, b) \/ (a \in ToSet(s) /\ b = x)
  <1> DEFINE t == Append(s, x)
             n == Len(s)
  <1>1. /\ t \in Seq(T) /\ Len(t) = n + 1 /\ n \in Nat
        /\ \A i \in 1 .. n : t[i] = s[i]
        /\ t[n + 1] = x
        /\ DOMAIN s = 1 .. n /\ DOMAIN t = 1 .. n + 1
    BY LenProperties
  <1> HIDE DEF t, n
  <1>2. ToSet(t) = ToSet(s) \cup {x}
    BY <1>1 DEF ToSet
  <1>3. Distinct(s) /\ x \notin ToSet(s) => Distinct(t)
    BY <1>1 DEF Distinct, ToSet, n
  <1>4. ASSUME NEW a, NEW b
        PROVE  Precedes(t, a, b) <=> Precedes(s, a, b) \/ (a \in ToSet(s) /\ b = x)
    <2>1. ASSUME Precedes(t, a, b)
          PROVE  Precedes(s, a, b) \/ (a \in ToSet(s) /\ b = x)
      <3>1. PICK i, j \in 1 .. n + 1 : i < j /\ t[i] = a /\ t[j] = b
        BY <1>1, <2>1 DEF Precedes
      <3>2. i \in 1 .. n /\ s[i] = a /\ a \in ToSet(s)
        BY <1>1, <3>1 DEF ToSet
      <3>3. CASE j = n + 1
        BY <1>1, <3>1, <3>2, <3>3
      <3>4. CASE j \in 1 .. n
        BY <1>1, <3>1, <3>2, <3>4 DEF Precedes, n
      <3> QED
        BY <1>1, <3>3, <3>4
    <2>2. ASSUME Precedes(s, a, b) PROVE Precedes(t, a, b)
      <3>1. PICK i, j \in 1 .. n : i < j /\ s[i] = a /\ s[j] = b
        BY <2>2 DEF Precedes, n
      <3>2. i \in 1 .. n + 1 /\ j \in 1 .. n + 1
        BY <1>1
      <3> QED
        BY <1>1, <3>1, <3>2 DEF Precedes
    <2>3. ASSUME a \in ToSet(s), b = x PROVE Precedes(t, a, b)
      <3>1. PICK i \in 1 .. n : s[i] = a
        BY <1>1, <2>3 DEF ToSet
      <3>2. i \in 1 .. n + 1 /\ n + 1 \in 1 .. n + 1 /\ i < n + 1
        BY <1>1
      <3> QED
        BY <1>1, <2>3, <3>1, <3>2 DEF Precedes
    <2> QED
      BY <2>1, <2>2, <2>3
  <1> QED
    BY <1>1, <1>2, <1>3, <1>4 DEF t

\* In a concatenation the first sequence stands in front of the second.
LEMMA ConcatOrder ==
    ASSUME NEW T, NEW s \in Seq(T), NEW u \in Seq(T)
    PROVE  /\ s \o u \in Seq(T)
           /\ ToSet(s \o u) = ToSet(s) \cup ToSet(u)
           /\ Distinct(s) /\ Distinct(u) /\ ToSet(s) \cap ToSet(u) = {} => Distinct(s \o u)
           /\ \A a, b : Precedes(s \o u, a, b)
                          <=> \/ Precedes(s, a, b)
                              \/ Precedes(u, a, b)
                              \/ a \in ToSet(s) /\ b \in ToSet(u)
  <1> DEFINE t == s \o u
             m == Len(s)
             n == Len(u)
  <1>1. /\ t \in Seq(T) /\ Len(t) = m + n /\ m \in Nat /\ n \in Nat
        /\ \A i \in 1 .. m + n : t[i] = IF i <= m THEN s[i] ELSE u[i - m]
        /\ DOMAIN s = 1 .. m /\ DOMAIN u = 1 .. n /\ DOMAIN t = 1 .. m + n
    <2>1. t \in Seq(T)
      BY ConcatProperties
    <2> QED
      BY <2>1, ConcatProperties, LenProperties
  <1> HIDE DEF t, m, n
  <1>2. \A i \in 1 .. m : i \in 1 .. m + n /\ t[i] = s[i]
    BY <1>1
  <1>3. \A i \in 1 .. n : i + m \in 1 .. m + n /\ t[i + m] = u[i]
    <2> TAKE i \in 1 .. n
    <2>1. i + m \in 1 .. m + n /\ ~(i + m <= m) /\ i + m - m = i
      BY <1>1
    <2> QED
      BY <1>1, <2>1
  <1>4. \A i \in 1 .. m + n : \/ i \in 1 .. m
                              \/ i > m /\ i - m \in 1 .. n /\ i - m + m = i
    BY <1>1
  <1>5. ToSet(t) = ToSet(s) \cup ToSet(u)
    <2>1. /\ \A x : x \in ToSet(t) <=> \E i \in 1 .. m + n : x = t[i]
          /\ \A x : x \in ToSet(s) <=> \E i \in 1 .. m : x = s[i]
          /\ \A x : x \in ToSet(u) <=> \E i \in 1 .. n : x = u[i]
      BY <1>1 DEF ToSet
    <2>2. ASSUME NEW i \in 1 .. m + n PROVE t[i] \in ToSet(s) \cup ToSet(u)
      <3>1. CASE i \in 1 .. m
        BY <1>2, <2>1, <3>1
      <3>2. CASE i - m \in 1 .. n /\ i - m + m = i
        BY <1>3, <2>1, <3>2
      <3> QED
        BY <1>4, <3>1, <3>2
    <2>3. ToSet(s) \subseteq ToSet(t)
      BY <1>2, <2>1
    <2>4. ToSet(u) \subseteq ToSet(t)
      BY <1>3, <2>1
    <2> QED
      BY <2>1, <2>2, <2>3, <2>4
  <1>6. ASSUME Distinct(s), Distinct(u), ToSet(s) \cap ToSet(u) = {} PROVE Distinct(t)
    <2> SUFFICES ASSUME NEW i \in 1 .. m + n, NEW j \in 1 .. m + n, t[i] = t[j]
                 PROVE  i = j
      BY <1>1 DEF Distinct
    <2>1. CASE i \in 1 .. m /\ j \in 1 .. m
      BY <1>2, <1>6, <2>1 DEF Distinct, m
    <2>2. CASE i > m /\ j > m
      <3>1. i - m \in 1 .. n /\ j - m \in 1 .. n /\ u[i - m] = u[j - m]
        BY <1>1, <2>2
      <3>2. i - m = j - m
        BY <1>6, <3>1 DEF Distinct, n
      <3> QED
        BY <1>1, <3>2
    <2>3. \A k, l \in 1 .. m + n : k \in 1 .. m /\ l > m => t[k] # t[l]
      <3> SUFFICES ASSUME NEW k \in 1 .. m + n, NEW l \in 1 .. m + n, k \in 1 .. m, l > m
                   PROVE  t[k] # t[l]
        OBVIOUS
      <3>1. t[k] \in ToSet(s)
        BY <1>1, <1>2 DEF ToSet
      <3>2. l - m \in 1 .. n /\ t[l] = u[l - m]
        BY <1>1
      <3>3. t[l] \in ToSet(u)
        BY <1>1, <3>2 DEF ToSet
      <3> QED
        BY <1>6, <3>1, <3>3
    <2> QED
      BY <1>1, <1>4, <2>1, <2>2, <2>3
  <1>7. ASSUME NEW a, NEW b
        PROVE  Precedes(t, a, b) <=> \/ Precedes(s, a, b)
                                     \/ Precedes(u, a, b)
                                     \/ a \in ToSet(s) /\ b \in ToSet(u)
    <2>1. ASSUME Precedes(t, a, b)
          PROVE  \/ Precedes(s, a, b)
                 \/ Precedes(u, a, b)
                 \/ a \in ToSet(s) /\ b \in ToSet(u)
      <3>1. PICK i, j \in 1 .. m + n : i < j /\ t[i] = a /\ t[j] = b
        BY <1>1, <2>1 DEF Precedes
      <3>2. CASE j \in 1 .. m
        <4>1. i \in 1 .. m
          BY <1>1, <3>1, <3>2
        <4> QED
          BY <1>2, <3>1, <3>2, <4>1 DEF Precedes, m
      <3>3. CASE i > m
        <4>1. i - m \in 1 .. n /\ j - m \in 1 .. n /\ i - m < j - m
              /\ t[i] = u[i - m] /\ t[j] = u[j - m]
          BY <1>1, <3>1, <3>3
        <4> QED
          BY <3>1, <4>1 DEF Precedes, n
      <3>4. CASE i \in 1 .. m /\ j > m
        <4>1. j - m \in 1 .. n /\ t[j] = u[j - m] /\ t[i] = s[i]
          BY <1>1, <3>4
        <4> QED
          BY <1>1, <3>1, <3>4, <4>1 DEF ToSet
      <3> QED
        BY <1>1, <1>4, <3>2, <3>3, <3>4
    <2>2. ASSUME Precedes(s, a, b) PROVE Precedes(t, a, b)
      <3>1. PICK i, j \in 1 .. m : i < j /\ s[i] = a /\ s[j] = b
        BY <2>2 DEF Precedes, m
      <3> QED
        BY <1>1, <1>2, <3>1 DEF Precedes
    <2>3. ASSUME Precedes(u, a, b) PROVE Precedes(t, a, b)
      <3>1. PICK i, j \in 1 .. n : i < j /\ u[i] = a /\ u[j] = b
        BY <2>3 DEF Precedes, n
      <3>2. i + m \in 1 .. m + n /\ j + m \in 1 .. m + n /\ i + m < j + m
        BY <1>1, <3>1
      <3>3. t[i + m] = a /\ t[j + m] = b
        BY <1>3, <3>1
      <3> QED
        BY <1>1, <3>2, <3>3 DEF Precedes
    <2>4. ASSUME a \in ToSet(s), b \in ToSet(u) PROVE Precedes(t, a, b)
      <3>1. PICK i \in 1 .. m, j \in 1 .. n : s[i] = a /\ u[j] = b
        BY <1>1, <2>4 DEF ToSet
      <3>2. i \in 1 .. m + n /\ j + m \in 1 .. m + n /\ i < j + m
        BY <1>1
      <3>3. t[i] = a /\ t[j + m] = b
        BY <1>2, <1>3, <3>1
      <3> QED
        BY <1>1, <3>2, <3>3 DEF Precedes
    <2> QED
      BY <2>1, <2>2, <2>3, <2>4
  <1> QED
    BY <1>1, <1>5, <1>6, <1>7 DEF t

\* Kept(q, S) has the elements of q that are in S, in the order of q.
LEMMA KeptOrder ==
    ASSUME NEW T, NEW q \in Seq(T), Distinct(q), NEW S
    PROVE  /\ Kept(q, S) \in Seq(T)
           /\ ToSet(Kept(q, S)) = ToSet(q) \cap S
           /\ Distinct(Kept(q, S))
           /\ \A a, b : Precedes(Kept(q, S), a, b)
                          <=> a \in S /\ b \in S /\ Precedes(q, a, b)
  <1> DEFINE m == Len(q)
  <1>1. m \in Nat /\ DOMAIN q = 1 .. m /\ \A i \in 1 .. m : q[i] \in T
    BY LenProperties, ElementOfSeq
  <1>2. PICK f : KeptUpTo(f, m, q, S) /\ Kept(q, S) = f[m]
    BY KeptIsSolution
  <1>3. /\ f[0] = <<>>
        /\ \A n \in 0 .. m - 1 :
              f[n + 1] = IF q[n + 1] \in S THEN Append(f[n], q[n + 1]) ELSE f[n]
    <2>1. \A i \in 0 .. m : f[i] = IF i = 0 THEN <<>>
                                   ELSE IF q[i] \in S THEN Append(f[i - 1], q[i])
                                   ELSE f[i - 1]
      BY <1>2 DEF KeptUpTo
    <2>2. 0 \in 0 .. m /\ \A n \in 0 .. m - 1 : n + 1 \in 0 .. m /\ n + 1 # 0 /\ n + 1 - 1 = n
      BY <1>1
    <2> QED
      BY <2>1, <2>2
  <1> DEFINE First(n) == {q[i] : i \in 1 .. n}
             Right(n) == /\ f[n] \in Seq(T)
                         /\ ToSet(f[n]) = First(n) \cap S
                         /\ Distinct(f[n])
                         /\ \A a, b : Precedes(f[n], a, b)
                               <=> /\ a \in S /\ b \in S
                                   /\ \E i, j \in 1 .. n : i < j /\ q[i] = a /\ q[j] = b
             Done == {n \in Nat : Right(n)}
  <1>4. 0 \in Done
    <2>1. <<>> \in Seq(T) /\ Len(<<>>) = 0 /\ ToSet(<<>>) = {}
      BY EmptySeq DEF ToSet
    <2>2. Distinct(<<>>) /\ \A a, b : ~Precedes(<<>>, a, b)
      BY <2>1 DEF Distinct, Precedes
    <2>3. f[0] \in Seq(T) /\ ToSet(f[0]) = {} /\ Distinct(f[0])
          /\ \A a, b : ~Precedes(f[0], a, b)
      BY <1>3, <2>1, <2>2
    <2>4. First(0) = {} /\ \A i, j \in 1 .. 0 : FALSE
      OBVIOUS
    <2>5. Right(0)
      <3> HIDE DEF First
      <3> QED
        BY <2>3, <2>4
    <2> QED
      BY <2>5
  <1>5. ASSUME NEW n \in 0 .. m - 1, n \in Done PROVE n + 1 \in Done
    <2>1. /\ n \in Nat /\ n + 1 \in 1 .. m /\ q[n + 1] \in T
          /\ 1 .. n + 1 = 1 .. n \cup {n + 1}
          /\ \A i \in 1 .. n : i \in 1 .. m /\ i # n + 1 /\ i < n + 1
      BY <1>1
    <2>2. q[n + 1] \notin First(n)
      <3> SUFFICES ASSUME NEW i \in 1 .. n, q[i] = q[n + 1] PROVE FALSE
        OBVIOUS
      <3> QED
        BY <2>1 DEF Distinct
    <2>3. First(n + 1) = First(n) \cup {q[n + 1]}
      BY <2>1
    <2>4. \A a, b : (\E i, j \in 1 .. n + 1 : i < j /\ q[i] = a /\ q[j] = b)
                      <=> \/ \E i, j \in 1 .. n : i < j /\ q[i] = a /\ q[j] = b
                          \/ a \in First(n) /\ b = q[n + 1]
      <3> TAKE a, b
      <3>1. ASSUME NEW i \in 1 .. n + 1, NEW j \in 1 .. n + 1, i < j, q[i] = a, q[j] = b
            PROVE  \/ i \in 1 .. n /\ j \in 1 .. n
                   \/ a \in First(n) /\ b = q[n + 1]
        <4>1. i \in 1 .. n
          BY <2>1, <3>1
        <4> QED
          BY <2>1, <3>1, <4>1
      <3>2. ASSUME a \in First(n), b = q[n + 1]
            PROVE  \E i, j \in 1 .. n + 1 : i < j /\ q[i] = a /\ q[j] = b
        BY <2>1, <3>2
      <3> QED
        BY <2>1, <3>1, <3>2
    <2>5. Right(n)
      BY <1>5
    <2>6. CASE q[n + 1] \in S
      <3>1. f[n + 1] = Append(f[n], q[n + 1])
        BY <1>3, <2>6
      <3>2. q[n + 1] \notin ToSet(f[n])
        BY <2>2, <2>5
      <3> HIDE DEF First
      <3> DEFINE g == f[n]
      <3>3. /\ Append(g, q[n + 1]) \in Seq(T)
            /\ ToSet(Append(g, q[n + 1])) = ToSet(g) \cup {q[n + 1]}
            /\ Distinct(Append(g, q[n + 1]))
            /\ \A a, b : Precedes(Append(g, q[n + 1]), a, b)
                          <=> Precedes(g, a, b) \/ (a \in ToSet(g) /\ b = q[n + 1])
        <4> HIDE DEF g
        <4>1. g \in Seq(T) /\ Distinct(g) /\ q[n + 1] \notin ToSet(g)
          BY <2>5, <3>2 DEF g
        <4> QED
          BY <2>1, <4>1, AppendOrder
      <3>4. ToSet(f[n + 1]) = First(n + 1) \cap S
        BY <2>3, <2>5, <2>6, <3>1, <3>3
      <3>5. \A a, b : Precedes(f[n + 1], a, b)
                        <=> /\ a \in S /\ b \in S
                            /\ \E i, j \in 1 .. n + 1 : i < j /\ q[i] = a /\ q[j] = b
        <4> TAKE a, b
        <4>1. Precedes(f[n + 1], a, b) <=> Precedes(g, a, b) \/ (a \in ToSet(g) /\ b = q[n + 1])
          BY <3>1, <3>3
        <4>2. a \in ToSet(g) <=> a \in First(n) /\ a \in S
          BY <2>5
        <4>3. Precedes(g, a, b)
                <=> a \in S /\ b \in S /\ \E i, j \in 1 .. n : i < j /\ q[i] = a /\ q[j] = b
          BY <2>5
        <4> QED
          BY <2>4, <2>6, <4>1, <4>2, <4>3
      <3>6. Right(n + 1)
        BY <3>1, <3>3, <3>4, <3>5
      <3> QED
        BY <2>1, <3>6
    <2>7. CASE q[n + 1] \notin S
      <3>1. f[n + 1] = f[n]
        BY <1>3, <2>7
      <3> HIDE DEF First
      <3>2. Right(n + 1)
        BY <2>3, <2>4, <2>5, <2>7, <3>1
      <3> QED
        BY <2>1, <3>2
    <2> QED
      BY <2>6, <2>7
  <1>6. Right(m)
    <2>1. m \in Done
      <3> HIDE DEF Done
      <3>1. 0 .. m \subseteq Done
        BY <1>1, <1>4, <1>5, UpToInduction
      <3> QED
        BY <1>1, <3>1
    <2> QED
      BY <2>1
  <1>7. First(m) = ToSet(q)
    BY <1>1 DEF ToSet
  <1> QED
    BY <1>2, <1>6, <1>7 DEF Precedes

-----------------------------------------------------------------------------
(* The line in front of the slots                                          *)

\* a is served before b, both being in q with the priorities pr.
Before(pr, q, a, b) ==
    \/ pr[a] = "interactive" /\ pr[b] = "background"
    \/ pr[a] = pr[b] /\ Precedes(q, a, b)

\* The queue q in the order in which _pump_locked serves it, with the priorities pr.
Ranks(pr, q) == Kept(q, {w \in Requests : pr[w] = "interactive"})
                  \o Kept(q, {w \in Requests : pr[w] = "background"})

Queueable(pr, q) ==
    q \in Seq(Requests) /\ Distinct(q) /\ \A w \in ToSet(q) : pr[w] \in Valid

\* ToSet in terms of positions.
LEMMA Members ==
    ASSUME NEW T, NEW s \in Seq(T)
    PROVE  /\ Len(s) \in Nat /\ DOMAIN s = 1 .. Len(s)
           /\ \A x : x \in ToSet(s) <=> \E i \in 1 .. Len(s) : s[i] = x
           /\ ToSet(s) \subseteq T
           /\ ToSet(s) = {} <=> s = <<>>
  <1>1. Len(s) \in Nat /\ DOMAIN s = 1 .. Len(s) /\ \A i \in 1 .. Len(s) : s[i] \in T
    BY LenProperties, ElementOfSeq
  <1>2. s # <<>> => 1 \in 1 .. Len(s)
    BY <1>1, EmptySeq
  <1>3. ToSet(<<>>) = {}
    BY EmptySeq DEF ToSet
  <1> QED
    BY <1>1, <1>2, <1>3 DEF ToSet

\* A sequence without repetitions is as long as its set of elements is large.
LEMMA DistinctSize ==
    ASSUME NEW T, NEW s \in Seq(T), Distinct(s)
    PROVE  IsFiniteSet(ToSet(s)) /\ Cardinality(ToSet(s)) = Len(s)
  <1>1. Len(s) \in Nat /\ DOMAIN s = 1 .. Len(s) /\ s \in [1 .. Len(s) -> T]
    BY LenProperties
  <1>2. s \in [1 .. Len(s) -> ToSet(s)]
    BY <1>1 DEF ToSet
  <1>3. s \in Bijection(1 .. Len(s), ToSet(s))
    BY <1>1, <1>2 DEF Bijection, Injection, Surjection, IsInjective, Distinct, ToSet
  <1>4. IsFiniteSet(1 .. Len(s)) /\ Cardinality(1 .. Len(s)) = Len(s)
    BY <1>1, FS_Interval
  <1>5. ExistsBijection(1 .. Len(s), ToSet(s))
    BY <1>3 DEF ExistsBijection
  <1> QED
    BY <1>4, <1>5, FS_Bijection

\* _pump_locked's order: the interactive class, then the background class, each in the
\* order of the list.
LEMMA RanksOrder ==
    ASSUME NEW pr, NEW q, Queueable(pr, q)
    PROVE  /\ Ranks(pr, q) \in Seq(Requests)
           /\ ToSet(Ranks(pr, q)) = ToSet(q)
           /\ Distinct(Ranks(pr, q))
           /\ \A a, b \in ToSet(q) : Precedes(Ranks(pr, q), a, b) <=> Before(pr, q, a, b)
  <1> DEFINE I == {w \in Requests : pr[w] = "interactive"}
             B == {w \in Requests : pr[w] = "background"}
             s == Kept(q, I)
             u == Kept(q, B)
  <1>1. q \in Seq(Requests) /\ Distinct(q) /\ ToSet(q) \subseteq Requests
    BY Members DEF Queueable
  <1>2. I \cap B = {} /\ ToSet(q) \subseteq I \cup B
    BY <1>1 DEF Queueable, Valid
  <1>3. /\ s \in Seq(Requests) /\ ToSet(s) = ToSet(q) \cap I /\ Distinct(s)
        /\ \A a, b : Precedes(s, a, b) <=> a \in I /\ b \in I /\ Precedes(q, a, b)
    <2> HIDE DEF I
    <2> QED
      BY <1>1, KeptOrder
  <1>4. /\ u \in Seq(Requests) /\ ToSet(u) = ToSet(q) \cap B /\ Distinct(u)
        /\ \A a, b : Precedes(u, a, b) <=> a \in B /\ b \in B /\ Precedes(q, a, b)
    <2> HIDE DEF B
    <2> QED
      BY <1>1, KeptOrder
  <1>5. /\ s \o u \in Seq(Requests)
        /\ ToSet(s \o u) = ToSet(q)
        /\ Distinct(s \o u)
        /\ \A a, b : Precedes(s \o u, a, b)
                       <=> \/ a \in I /\ b \in I /\ Precedes(q, a, b)
                           \/ a \in B /\ b \in B /\ Precedes(q, a, b)
                           \/ a \in ToSet(q) \cap I /\ b \in ToSet(q) \cap B
    <2> HIDE DEF I, B, s, u
    <2>1. ToSet(s) \cap ToSet(u) = {}
      BY <1>2, <1>3, <1>4
    <2>2. /\ s \o u \in Seq(Requests)
          /\ ToSet(s \o u) = ToSet(s) \cup ToSet(u)
          /\ Distinct(s \o u)
          /\ \A a, b : Precedes(s \o u, a, b)
                         <=> \/ Precedes(s, a, b)
                             \/ Precedes(u, a, b)
                             \/ a \in ToSet(s) /\ b \in ToSet(u)
      BY <1>3, <1>4, <2>1, ConcatOrder
    <2> QED
      BY <1>2, <1>3, <1>4, <2>2
  <1>6. Ranks(pr, q) = s \o u
    BY DEF Ranks
  <1>7. ASSUME NEW a \in ToSet(q), NEW b \in ToSet(q)
        PROVE  Precedes(s \o u, a, b) <=> Before(pr, q, a, b)
    <2>1. pr[a] \in Valid /\ pr[b] \in Valid /\ a \in Requests /\ b \in Requests
      BY <1>1 DEF Queueable
    <2>2. /\ a \in I <=> pr[a] = "interactive"
          /\ a \in B <=> pr[a] = "background"
          /\ b \in I <=> pr[b] = "interactive"
          /\ b \in B <=> pr[b] = "background"
      BY <2>1
    <2> HIDE DEF I, B, s, u
    <2> QED
      BY <1>5, <2>1, <2>2 DEF Before, Valid
  <1> QED
    BY <1>5, <1>6, <1>7

\* Whoever stands before the i-th of a sequence without repetitions.
LEMMA FirstOnes ==
    ASSUME NEW T, NEW s \in Seq(T), Distinct(s), NEW k \in 1 .. Len(s)
    PROVE  /\ {s[i] : i \in 1 .. k - 1} = {a \in ToSet(s) : Precedes(s, a, s[k])}
           /\ \A i \in DOMAIN s : s[i] = s[k] => i = k
  <1>1. /\ Len(s) \in Nat /\ DOMAIN s = 1 .. Len(s)
        /\ \A x : x \in ToSet(s) <=> \E i \in 1 .. Len(s) : s[i] = x
    BY Members
  <1>2. \A i \in 1 .. Len(s) : s[i] = s[k] => i = k
    BY DEF Distinct
  <1>3. \A i \in 1 .. k - 1 : i \in 1 .. Len(s) /\ i < k
    BY <1>1
  <1>4. ASSUME NEW a
        PROVE  a \in {s[i] : i \in 1 .. k - 1} <=> Precedes(s, a, s[k])
    <2>1. ASSUME NEW i \in 1 .. Len(s), NEW j \in 1 .. Len(s), i < j, s[j] = s[k]
          PROVE  i \in 1 .. k - 1
      BY <1>1, <1>2, <2>1
    <2> QED
      BY <1>3, <2>1 DEF Precedes
  <1>5. ASSUME NEW a, Precedes(s, a, s[k]) PROVE a \in ToSet(s)
    BY <1>1, <1>5 DEF Precedes
  <1> QED
    BY <1>1, <1>2, <1>4, <1>5

\* The requests AheadOf counts are the queued ones that are served before r.
LEMMA AheadOfLine ==
    ASSUME Queueable(priority, waiters), NEW r
    PROVE  AheadOf(r) = IF r \in ToSet(waiters)
                          THEN {a \in ToSet(waiters) : Before(priority, waiters, a, r)}
                          ELSE {}
  <1> DEFINE R == Ranks(priority, waiters)
             place == CHOOSE i \in DOMAIN R : R[i] = r
  <1>1. AheadOf(r) = IF r \notin ToSet(waiters) THEN {} ELSE {R[i] : i \in 1 .. place - 1}
    BY DEF AheadOf, ServiceOrder, Among, Ranks
  <1>2. CASE r \in ToSet(waiters)
    <2>1. /\ R \in Seq(Requests) /\ ToSet(R) = ToSet(waiters) /\ Distinct(R)
          /\ \A a, b \in ToSet(waiters) : Precedes(R, a, b) <=> Before(priority, waiters, a, b)
      BY RanksOrder
    <2> HIDE DEF R
    <2>2. place \in 1 .. Len(R) /\ R[place] = r
      BY <1>2, <2>1, Members
    <2> HIDE DEF place
    <2>3. {R[i] : i \in 1 .. place - 1} = {a \in ToSet(R) : Precedes(R, a, R[place])}
      BY <2>1, <2>2, FirstOnes
    <2> QED
      BY <1>1, <1>2, <2>1, <2>2, <2>3
  <1> QED
    BY <1>1, <1>2

-----------------------------------------------------------------------------
(* The inductive invariant                                                 *)

Released == {records[i][1] : i \in DOMAIN records}

\* Who is in the list has not been admitted, and waits or has just stopped waiting.
WaitersWait ==
    /\ Distinct(waiters)
    /\ \A r \in ToSet(waiters) :
          /\ r \notin ToSet(admitted)
          /\ phase[r] \in {"queued", "timedOut"}
          /\ priority[r] \in Valid

\* Who serves has a slot; who waits is in the list or has been admitted meanwhile; a slot
\* is given back by a thread that ends.
PlacesAgree ==
    /\ \A r \in ToSet(admitted) : /\ phase[r] \notin {"outside", "received"}
                                  /\ priority[r] \in Valid
    /\ \A r \in Requests :
          /\ phase[r] \in {"queued", "timedOut"} => r \in ToSet(waiters) \cup ToSet(admitted)
          /\ phase[r] \in Serving => r \in HeldBy
    /\ \A r \in Released : phase[r] = "closed"

\* `active` counts the slots that are held, also the ones of waiters that were refused
\* after their admission; nobody waits beside a free slot; the list is bounded.
SlotsCounted ==
    /\ active = Cardinality(HeldBy)
    /\ active <= MaxActive
    /\ waiters # <<>> => active = MaxActive
    /\ Cardinality(ToSet(waiters)) <= MaxQueueDepth

IInv ==
    /\ TypeOK
    /\ WaitersWait
    /\ PlacesAgree
    /\ SlotsCounted

\* What every action reads of the invariant.
LEMMA Queued ==
    ASSUME IInv
    PROVE  /\ Queueable(priority, waiters)
           /\ ToSet(waiters) \subseteq Requests
           /\ ToSet(admitted) \subseteq Requests
           /\ HeldBy \subseteq Requests /\ IsFiniteSet(HeldBy)
           /\ HeldBy \cap ToSet(waiters) = {}
           /\ IsFiniteSet(ToSet(waiters)) /\ Cardinality(ToSet(waiters)) = Len(waiters)
           /\ ToSet(waiters) = {} <=> waiters = <<>>
           /\ Len(waiters) \in Nat
           /\ HeldBy = ToSet(admitted) \ Released
  <1>1. waiters \in Seq(Requests) /\ admitted \in Seq(Requests)
    BY DEF IInv, TypeOK
  <1>2. /\ ToSet(waiters) \subseteq Requests /\ ToSet(admitted) \subseteq Requests
        /\ ToSet(waiters) = {} <=> waiters = <<>>
        /\ Len(waiters) \in Nat
    BY <1>1, Members
  <1>3. Queueable(priority, waiters)
    BY <1>1 DEF IInv, WaitersWait, Queueable
  <1>4. IsFiniteSet(ToSet(waiters)) /\ Cardinality(ToSet(waiters)) = Len(waiters)
    BY <1>1, DistinctSize DEF IInv, WaitersWait
  <1>5. HeldBy = ToSet(admitted) \ Released
    BY DEF HeldBy, Released
  <1>6. HeldBy \subseteq Requests /\ IsFiniteSet(HeldBy)
    BY <1>2, <1>5, StubAssumption, FS_Subset
  <1> QED
    BY <1>2, <1>3, <1>4, <1>5, <1>6 DEF IInv, WaitersWait

\* The requests in W, at most one, are the next to be admitted.
Grants(W) == IF W = {} THEN admitted' = admitted
             ELSE \E w \in W : W = {w} /\ admitted' = Append(admitted, w)

\* _pump_locked over a queue q that is empty, or meets at most one free slot, or is one
\* arrival: it grants nothing, or one slot to the waiter that is served first.
LEMMA PumpGrants ==
    ASSUME TypeOK, NEW q, Queueable(priority, q), NEW held \in Nat, held <= MaxActive,
           Len(q) <= 1 \/ MaxActive - held <= 1, Pump(q, held)
    PROVE  \E W \in SUBSET ToSet(q) :
              /\ waiters' \in Seq(Requests) /\ Distinct(waiters')
              /\ ToSet(waiters') = ToSet(q) \ W
              /\ \A a, b : Precedes(waiters', a, b)
                             <=> a \notin W /\ b \notin W /\ Precedes(q, a, b)
              /\ admitted' \in Seq(Requests)
              /\ ToSet(admitted') = ToSet(admitted) \cup W /\ Grants(W)
              /\ peak' \in Nat
              /\ IF held = MaxActive \/ ToSet(q) = {}
                   THEN W = {} /\ active' = held
                   ELSE /\ active' = held + 1
                        /\ \E w \in ToSet(q) :
                              /\ W = {w}
                              /\ \A a \in ToSet(q) : ~Before(priority, q, a, w)
  <1> DEFINE R == Ranks(priority, q)
             room == IF held < MaxActive THEN MaxActive - held ELSE 0
             size == IF room < Len(R) THEN room ELSE Len(R)
             granted == SubSeq(R, 1, size)
             W == ToSet(granted)
             kept == Kept(q, Requests \ W)
  <1>1. q \in Seq(Requests) /\ Distinct(q)
    BY DEF Queueable
  <1>2. /\ R \in Seq(Requests) /\ ToSet(R) = ToSet(q) /\ Distinct(R)
        /\ \A a, b \in ToSet(q) : Precedes(R, a, b) <=> Before(priority, q, a, b)
    BY RanksOrder
  <1>3. /\ waiters' = kept
        /\ admitted' = admitted \o granted
        /\ active' = held + Len(granted)
        /\ peak' = IF granted # <<>> /\ held + Len(granted) > peak
                   THEN held + Len(granted) ELSE peak
    BY DEF Pump, ServiceOrder, Among, Ranks
  <1> HIDE DEF R
  <1>4. Len(R) \in Nat /\ Len(q) \in Nat /\ Len(R) = Len(q) /\ (ToSet(q) = {} <=> Len(q) = 0)
    <2>1. Len(R) \in Nat /\ Len(q) \in Nat /\ (ToSet(q) = {} <=> q = <<>>)
      BY <1>1, <1>2, Members
    <2>2. Len(R) = Len(q)
      BY <1>1, <1>2, DistinctSize
    <2> QED
      BY <1>1, <2>1, <2>2, EmptySeq
  <1>5. MaxActive \in Nat /\ size \in 0 .. 1 /\ size <= Len(R)
        /\ (size = 0 <=> held = MaxActive \/ ToSet(q) = {})
    BY <1>4, StubAssumption
  <1> HIDE DEF size
  <1>6. granted \in Seq(Requests) /\ Len(granted) = size
        /\ \A i \in 1 .. size : granted[i] = R[i]
    <2>1. \A i \in 1 .. size : i \in 1 .. Len(R) /\ R[i] \in Requests
      BY <1>2, <1>4, <1>5, ElementOfSeq
    <2>2. /\ granted \in Seq(Requests)
          /\ Len(granted) = IF 1 <= size THEN size - 1 + 1 ELSE 0
          /\ \A i \in 1 .. size - 1 + 1 : granted[i] = R[1 + i - 1]
      BY <1>5, <2>1, SubSeqProperties
    <2> QED
      BY <1>5, <2>2
  <1> HIDE DEF granted
  <1>7. W \subseteq ToSet(q)
    <2>1. \A x : x \in W <=> \E i \in 1 .. size : granted[i] = x
      BY <1>6, Members
    <2>2. \A i \in 1 .. size : R[i] \in ToSet(R)
      BY <1>2, <1>4, <1>5, Members
    <2> QED
      BY <1>2, <1>6, <2>1, <2>2
  <1>8. ToSet(q) \subseteq Requests
    BY <1>1, Members
  <1>9. /\ waiters' \in Seq(Requests) /\ Distinct(waiters')
        /\ ToSet(waiters') = ToSet(q) \ W
        /\ \A a, b : Precedes(waiters', a, b)
                       <=> a \notin W /\ b \notin W /\ Precedes(q, a, b)
    <2>1. /\ kept \in Seq(Requests) /\ Distinct(kept)
          /\ ToSet(kept) = ToSet(q) \cap (Requests \ W)
          /\ \A a, b : Precedes(kept, a, b)
                <=> a \in Requests \ W /\ b \in Requests \ W /\ Precedes(q, a, b)
      <3> HIDE DEF W
      <3> QED
        BY <1>1, KeptOrder
    <2>2. \A a, b : Precedes(q, a, b) => a \in Requests /\ b \in Requests
      BY <1>1, <1>8, Members DEF Precedes
    <2> QED
      BY <1>3, <1>8, <2>1, <2>2
  <1>10. admitted' \in Seq(Requests) /\ ToSet(admitted') = ToSet(admitted) \cup W
    BY <1>3, <1>6, ConcatOrder DEF TypeOK
  <1>11. peak' \in Nat
    BY <1>3, <1>5, <1>6 DEF TypeOK
  <1>12. IF held = MaxActive \/ ToSet(q) = {}
           THEN W = {} /\ active' = held
           ELSE /\ active' = held + 1
                /\ \E w \in ToSet(q) :
                      /\ W = {w}
                      /\ \A a \in ToSet(q) : ~Before(priority, q, a, w)
    <2>1. \A x : x \in W <=> \E i \in 1 .. size : granted[i] = x
      BY <1>6, Members
    <2> HIDE DEF W
    <2>2. CASE size = 0
      <3>1. W = {}
        BY <2>1, <2>2
      <3> QED
        BY <1>3, <1>5, <1>6, <2>2, <3>1
    <2>3. CASE size = 1
      <3>1. 1 \in 1 .. Len(R)
        BY <1>4, <1>5, <2>3
      <3>2. granted[1] = R[1] /\ 1 .. 1 = {1}
        BY <1>6, <2>3
      <3>3. W = {R[1]}
        BY <2>1, <2>3, <3>2
      <3>4. {R[i] : i \in 1 .. 1 - 1} = {a \in ToSet(R) : Precedes(R, a, R[1])}
        BY <1>2, <3>1, FirstOnes
      <3>5. \A a \in ToSet(q) : ~Precedes(R, a, R[1])
        BY <1>2, <3>4
      <3>6. R[1] \in ToSet(q)
        BY <1>7, <3>3
      <3>7. \A a \in ToSet(q) : ~Before(priority, q, a, R[1])
        BY <1>2, <3>5, <3>6
      <3> QED
        BY <1>3, <1>5, <1>6, <2>3, <3>3, <3>6, <3>7
    <2> QED
      BY <1>5, <2>2, <2>3
  <1>13. Grants(W)
    <2>1. admitted \in Seq(Requests) /\ (\A x : x \in W <=> \E i \in 1 .. size : granted[i] = x)
      BY <1>6, Members DEF TypeOK
    <2> HIDE DEF W
    <2>2. CASE size = 0
      <3>1. W = {} /\ granted = <<>>
        BY <1>6, <2>1, <2>2, EmptySeq
      <3> QED
        BY <1>3, <2>1, <3>1, ConcatEmptySeq DEF Grants
    <2>3. CASE size = 1
      <3>1. W = {granted[1]} /\ granted[1] \in Requests
        <4>1. 1 .. 1 = {1}
          OBVIOUS
        <4> QED
          BY <1>6, <2>1, <2>3, <4>1, ElementOfSeq
      <3>2. granted = <<granted[1]>>
        <4>1. /\ <<granted[1]>> \in Seq(Requests) /\ Len(<<granted[1]>>) = 1
              /\ \A i \in 1 .. 1 : granted[i] = <<granted[1]>>[i]
          BY <3>1
        <4> QED
          BY <1>6, <2>3, <4>1, SeqEqual
      <3>3. admitted' = Append(admitted, granted[1])
        BY <1>3, <2>1, <3>1, <3>2, AppendIsConcat
      <3> QED
        BY <3>1, <3>3 DEF Grants
    <2> QED
      BY <1>5, <2>2, <2>3
  <1> HIDE DEF W
  <1> QED
    BY <1>7, <1>9, <1>10, <1>11, <1>12, <1>13

\* Counting keeps the counters numbers.
LEMMA BumpType ==
    ASSUME TypeOK, NEW names
    PROVE  Bump(names) \in [CounterNames -> Nat]
  BY DEF Bump, TypeOK

\* An arrival that is not refused gets a free slot at once, and only while the list is
\* empty; else it becomes the last of the list.
LEMMA EnqueueEffect ==
    ASSUME IInv, NEW r \in Requests, Enqueue(r)
    PROVE  /\ r \notin ToSet(waiters) /\ r \notin ToSet(admitted) /\ r \notin HeldBy
           /\ waiters' \in Seq(Requests) /\ Distinct(waiters')
           /\ admitted' \in Seq(Requests) /\ peak' \in Nat
           /\ \/ /\ active < MaxActive /\ active' = active + 1
                 /\ ToSet(waiters) = {} /\ ToSet(waiters') = {}
                 /\ ToSet(admitted') = ToSet(admitted) \cup {r}
                 /\ admitted' = Append(admitted, r)
                 /\ HeldBy' = HeldBy \cup {r}
              \/ /\ active = MaxActive /\ active' = active
                 /\ Len(waiters) < MaxQueueDepth
                 /\ ToSet(waiters') = ToSet(waiters) \cup {r}
                 /\ \A a, b : Precedes(waiters', a, b)
                                <=> Precedes(waiters, a, b) \/ (a \in ToSet(waiters) /\ b = r)
                 /\ admitted' = admitted
                 /\ HeldBy' = HeldBy
  <1> DEFINE q == Append(waiters, r)
  <1>1. /\ r \notin ToSet(waiters) /\ r \notin ToSet(admitted) /\ r \notin HeldBy
        /\ r \notin Released
    BY DEF IInv, WaitersWait, PlacesAgree, Enqueue, HeldBy
  <1>2. TypeOK /\ waiters \in Seq(Requests) /\ Distinct(waiters) /\ active \in Nat
        /\ active <= MaxActive /\ MaxActive \in Nat /\ records \in Seq(Requests \X {"cancelled", "finished"})
    BY StubAssumption DEF IInv, TypeOK, WaitersWait, SlotsCounted
  <1>3. /\ q \in Seq(Requests) /\ ToSet(q) = ToSet(waiters) \cup {r} /\ Distinct(q)
        /\ \A a, b : Precedes(q, a, b)
                       <=> Precedes(waiters, a, b) \/ (a \in ToSet(waiters) /\ b = r)
    BY <1>1, <1>2, AppendOrder
  <1>4. Queueable(priority, q)
    BY <1>3 DEF Queueable, Enqueue, IInv, WaitersWait
  <1>5. Len(q) <= 1 \/ MaxActive - active <= 1
    <2>1. waiters # <<>> => active = MaxActive
      BY DEF IInv, SlotsCounted
    <2>2. waiters = <<>> => Len(q) = 1
      BY EmptySeq
    <2> QED
      BY <1>2, <2>1, <2>2
  <1>6. Pump(q, active) /\ records' = records /\ ~QueueFull
    BY DEF Enqueue
  <1> HIDE DEF q
  <1>7. PICK W \in SUBSET ToSet(q) :
              /\ waiters' \in Seq(Requests) /\ Distinct(waiters')
              /\ ToSet(waiters') = ToSet(q) \ W
              /\ \A a, b : Precedes(waiters', a, b)
                             <=> a \notin W /\ b \notin W /\ Precedes(q, a, b)
              /\ admitted' \in Seq(Requests)
              /\ ToSet(admitted') = ToSet(admitted) \cup W /\ Grants(W)
              /\ peak' \in Nat
              /\ IF active = MaxActive \/ ToSet(q) = {}
                   THEN W = {} /\ active' = active
                   ELSE /\ active' = active + 1
                        /\ \E w \in ToSet(q) :
                              /\ W = {w}
                              /\ \A a \in ToSet(q) : ~Before(priority, q, a, w)
    BY <1>2, <1>4, <1>5, <1>6, PumpGrants
  <1>8. Released' = Released
    BY <1>6 DEF Released
  <1>9. HeldBy' = ToSet(admitted') \ Released'
    BY DEF HeldBy, Released
  <1>10. HeldBy = ToSet(admitted) \ Released
    BY Queued
  <1>11. CASE active < MaxActive
    <2>1. ToSet(waiters) = {} /\ ToSet(q) = {r}
      BY <1>2, <1>3, <1>11, Queued DEF IInv, SlotsCounted
    <2>2. W = {r} /\ active' = active + 1
      BY <1>2, <1>7, <1>11, <2>1
    <2>3. HeldBy' = HeldBy \cup {r}
      BY <1>1, <1>7, <1>8, <1>9, <1>10, <2>2
    <2>4. admitted' = Append(admitted, r)
      BY <1>7, <2>2 DEF Grants
    <2> QED
      BY <1>1, <1>7, <1>11, <2>1, <2>2, <2>3, <2>4
  <1>12. CASE active = MaxActive
    <2>1. W = {} /\ active' = active
      BY <1>7, <1>12
    <2>2. HeldBy' = HeldBy /\ admitted' = admitted
      BY <1>7, <1>8, <1>9, <1>10, <2>1 DEF Grants
    <2>3. Len(waiters) < MaxQueueDepth
      BY <1>6, Queued, StubAssumption DEF QueueFull
    <2>4. \A a, b : Precedes(waiters', a, b) <=> Precedes(q, a, b)
      BY <1>7, <2>1
    <2> QED
      BY <1>1, <1>3, <1>7, <1>12, <2>1, <2>2, <2>3, <2>4
  <1> QED
    BY <1>2, <1>11, <1>12

\* The slot of r goes to the waiters in W: to nobody if the list is empty, else to the one
\* that has nobody before it.
HandsOver(r, W) ==
    /\ ToSet(waiters') = ToSet(waiters) \ W
    /\ \A a, b : Precedes(waiters', a, b)
                   <=> a \notin W /\ b \notin W /\ Precedes(waiters, a, b)
    /\ ToSet(admitted') = ToSet(admitted) \cup W /\ Grants(W)
    /\ HeldBy' = (HeldBy \ {r}) \cup W
    /\ IF ToSet(waiters) = {} THEN W = {} /\ active' = active - 1
       ELSE /\ active' = active
            /\ \E w \in ToSet(waiters) :
                  /\ W = {w}
                  /\ \A a \in ToSet(waiters) :
                        ~Before(priority, waiters, a, w)

\* A slot that is given back goes to the first in line, if anybody waits.
LEMMA ReleaseEffect ==
    ASSUME IInv, NEW r \in Requests, phase[r] \in Serving,
           NEW f \in {"cancelled", "finished"}, Release(r, f), UNCHANGED priority
    PROVE  /\ r \in HeldBy
           /\ Released' = Released \cup {r}
           /\ waiters' \in Seq(Requests) /\ Distinct(waiters')
           /\ admitted' \in Seq(Requests) /\ peak' \in Nat
           /\ records' \in Seq(Requests \X {"cancelled", "finished"})
           /\ \E W \in SUBSET ToSet(waiters) : HandsOver(r, W)
  <1>1. TypeOK /\ active \in Nat /\ active <= MaxActive /\ MaxActive \in Nat
        /\ records \in Seq(Requests \X {"cancelled", "finished"})
    BY StubAssumption DEF IInv, TypeOK, SlotsCounted
  <1>2. r \in HeldBy
    BY DEF IInv, PlacesAgree
  <1>3. active > 0
    <2>1. Cardinality(HeldBy) # 0
      BY <1>2, Queued, FS_EmptySet
    <2> QED
      BY <1>1, <2>1 DEF IInv, SlotsCounted
  <1> DEFINE held == active - 1
  <1>4. /\ held \in Nat /\ held < MaxActive /\ held + 1 = active
        /\ (IF active > 0 THEN active - 1 ELSE 0) = held
    BY <1>1, <1>3
  <1>5. Pump(waiters, held)
    BY <1>4 DEF Release
  <1>6. Len(waiters) <= 1 \/ MaxActive - held <= 1
    <2>1. waiters = <<>> => Len(waiters) = 0
      BY EmptySeq
    <2>2. waiters # <<>> => active = MaxActive
      BY DEF IInv, SlotsCounted
    <2> QED
      BY <1>1, <1>4, <2>1, <2>2
  <1> HIDE DEF held
  <1>7. PICK W \in SUBSET ToSet(waiters) :
              /\ waiters' \in Seq(Requests) /\ Distinct(waiters')
              /\ ToSet(waiters') = ToSet(waiters) \ W
              /\ \A a, b : Precedes(waiters', a, b)
                             <=> a \notin W /\ b \notin W /\ Precedes(waiters, a, b)
              /\ admitted' \in Seq(Requests)
              /\ ToSet(admitted') = ToSet(admitted) \cup W /\ Grants(W)
              /\ peak' \in Nat
              /\ IF held = MaxActive \/ ToSet(waiters) = {}
                   THEN W = {} /\ active' = held
                   ELSE /\ active' = held + 1
                        /\ \E w \in ToSet(waiters) :
                              /\ W = {w}
                              /\ \A a \in ToSet(waiters) : ~Before(priority, waiters, a, w)
    <2>1. Queueable(priority, waiters) /\ held <= MaxActive
      BY <1>1, <1>4, Queued
    <2> QED
      BY <1>1, <1>4, <1>5, <1>6, <2>1, PumpGrants
  <1>8. /\ records' = Append(records, <<r, f>>)
        /\ records' \in Seq(Requests \X {"cancelled", "finished"})
    BY <1>1 DEF Release
  <1>9. Released' = Released \cup {r}
    <2> DEFINE n == Len(records)
    <2>1. /\ n \in Nat /\ DOMAIN records = 1 .. n /\ DOMAIN records' = 1 .. n + 1
          /\ \A i \in 1 .. n : records'[i] = records[i]
          /\ records'[n + 1] = <<r, f>>
      BY <1>1, <1>8, LenProperties
    <2> HIDE DEF n
    <2>2. Released' = {records'[i][1] : i \in 1 .. n + 1}
      BY <2>1 DEF Released
    <2>3. 1 .. n + 1 = 1 .. n \cup {n + 1}
      BY <2>1
    <2>4. Released = {records[i][1] : i \in 1 .. n}
      BY <2>1 DEF Released
    <2>5. records'[n + 1][1] = r
      BY <2>1
    <2>6. \A i \in 1 .. n : records'[i][1] = records[i][1]
      BY <2>1
    <2> QED
      BY <2>2, <2>3, <2>4, <2>5, <2>6
  <1>10. HeldBy' = ToSet(admitted') \ Released' /\ HeldBy = ToSet(admitted) \ Released
    BY DEF HeldBy, Released
  <1>11. W \cap Released = {} /\ r \notin W
    BY <1>2, Queued DEF IInv, WaitersWait, PlacesAgree
  <1>12. HeldBy' = (HeldBy \ {r}) \cup W
    BY <1>7, <1>9, <1>10, <1>11
  <1>13. IF ToSet(waiters) = {} THEN W = {} /\ active' = active - 1
         ELSE /\ active' = active
              /\ \E w \in ToSet(waiters) :
                    /\ W = {w}
                    /\ \A a \in ToSet(waiters) : ~Before(priority, waiters, a, w)
    BY <1>1, <1>4, <1>7
  <1>14. HandsOver(r, W)
    BY <1>7, <1>12, <1>13 DEF HandsOver
  <1> QED
    BY <1>2, <1>7, <1>8, <1>9, <1>14

\* The list and the slots as the invariant sees them, when neither moves.
LEMMA SameSlots ==
    ASSUME UNCHANGED <<waiters, admitted, active, records>>
    PROVE  /\ HeldBy' = HeldBy /\ Released' = Released
           /\ ToSet(waiters') = ToSet(waiters) /\ ToSet(admitted') = ToSet(admitted)
           /\ SlotsCounted => SlotsCounted'
  <1>1. HeldBy' = HeldBy /\ Released' = Released
    BY DEF HeldBy, Released
  <1> QED
    BY <1>1 DEF SlotsCounted

\* A thread that moves on without the lock.
LEMMA MoveKeeps ==
    ASSUME IInv, NEW r \in Requests, NEW p \in Phases,
           phase' = [phase EXCEPT ![r] = p],
           UNCHANGED <<waiters, admitted, active, records>>,
           priority' \in [Requests -> Priorities],
           \A q \in Requests : priority'[q] # priority[q] => phase[r] = "outside" /\ q = r,
           \/ phase[r] \in {"outside", "received"} /\ p \in {"received", "closed"}
           \/ phase[r] = "queued" /\ p = "timedOut"
           \/ phase[r] = "queued" /\ p = "prefill" /\ r \in ToSet(admitted)
           \/ phase[r] \in Serving /\ p \in Serving
    PROVE  (WaitersWait /\ PlacesAgree /\ SlotsCounted)'
  <1>1. /\ HeldBy' = HeldBy /\ Released' = Released /\ SlotsCounted'
        /\ ToSet(waiters') = ToSet(waiters) /\ ToSet(admitted') = ToSet(admitted)
    BY SameSlots DEF IInv
  <1>2. phase \in [Requests -> Phases] /\ ToSet(waiters) \subseteq Requests
        /\ ToSet(admitted) \subseteq Requests /\ HeldBy = ToSet(admitted) \ Released
    BY Queued DEF IInv, TypeOK
  <1>3. \A q \in Requests : phase'[q] = IF q = r THEN p ELSE phase[q]
    BY <1>2
  <1>4. /\ r \in ToSet(waiters) => phase[r] \in {"queued", "timedOut"}
        /\ r \in ToSet(admitted) => phase[r] \notin {"outside", "received"}
        /\ r \in Released => phase[r] = "closed"
        /\ r \in ToSet(waiters) => r \notin ToSet(admitted)
    BY DEF IInv, WaitersWait, PlacesAgree
  <1>5. WaitersWait'
    <2>1. Distinct(waiters')
      BY DEF IInv, WaitersWait
    <2>2. ASSUME NEW q \in ToSet(waiters)
          PROVE  /\ q \notin ToSet(admitted)
                 /\ phase'[q] \in {"queued", "timedOut"}
                 /\ priority'[q] \in Valid
      BY <1>2, <1>3, <1>4 DEF IInv, WaitersWait, Serving
    <2> QED
      BY <1>1, <2>1, <2>2 DEF WaitersWait
  <1>6. PlacesAgree'
    <2>1. ASSUME NEW q \in ToSet(admitted)
          PROVE  phase'[q] \notin {"outside", "received"} /\ priority'[q] \in Valid
      BY <1>2, <1>3, <1>4 DEF IInv, PlacesAgree, Serving
    <2>2. ASSUME NEW q \in Requests
          PROVE  /\ phase'[q] \in {"queued", "timedOut"}
                       => q \in ToSet(waiters) \cup ToSet(admitted)
                 /\ phase'[q] \in Serving => q \in HeldBy
      BY <1>2, <1>3, <1>4 DEF IInv, PlacesAgree, Serving
    <2>3. ASSUME NEW q \in Released PROVE phase'[q] = "closed"
      <3>1. phase[q] = "closed"
        BY DEF IInv, PlacesAgree
      <3> QED
        BY <1>2, <1>3, <3>1, <1>4 DEF Serving
    <2> QED
      BY <1>1, <2>1, <2>2, <2>3 DEF PlacesAgree
  <1> QED
    BY <1>1, <1>5, <1>6

\* A waiter that gives up leaves the list, if it is still there; if it was admitted
\* meanwhile, its slot stays held.
LEMMA RejectEffect ==
    ASSUME IInv, NEW r \in Requests, RejectTimeout(r)
    PROVE  /\ r \notin Released
           /\ waiters' \in Seq(Requests) /\ Distinct(waiters')
           /\ ToSet(waiters') = ToSet(waiters) \ {r}
           /\ \A a, b : Precedes(waiters', a, b)
                          <=> a # r /\ b # r /\ Precedes(waiters, a, b)
           /\ HeldBy' = HeldBy /\ Released' = Released
  <1>1. waiters \in Seq(Requests) /\ Distinct(waiters)
    BY DEF IInv, TypeOK, WaitersWait
  <1>2. ToSet(waiters) \subseteq Requests
    BY Queued
  <1>3. /\ waiters' \in Seq(Requests) /\ Distinct(waiters')
        /\ ToSet(waiters') = ToSet(waiters) \cap (Requests \ {r})
        /\ \A a, b : Precedes(waiters', a, b)
               <=> a \in Requests \ {r} /\ b \in Requests \ {r} /\ Precedes(waiters, a, b)
    BY <1>1, KeptOrder DEF RejectTimeout
  <1>4. \A a, b : Precedes(waiters, a, b) => a \in Requests /\ b \in Requests
    BY <1>1, <1>2, Members DEF Precedes
  <1>5. HeldBy' = HeldBy /\ Released' = Released
    BY DEF RejectTimeout, HeldBy, Released
  <1>6. r \notin Released
    BY DEF RejectTimeout, IInv, PlacesAgree
  <1> QED
    BY <1>2, <1>3, <1>4, <1>5, <1>6

\* Typing is kept by every step.
LEMMA TypeStep == IInv /\ [Next]_vars => TypeOK'
  <1> SUFFICES ASSUME IInv, [Next]_vars PROVE TypeOK'
    OBVIOUS
  <1>0. TypeOK
    BY DEF IInv
  <1>1. ASSUME NEW r \in Requests, NEW p \in Priorities, NEW s \in BOOLEAN, Connect(r, p, s)
        PROVE  TypeOK'
    BY <1>0, <1>1 DEF Connect, TypeOK, Goto, Request, Slots, Phases
  <1>2. ASSUME NEW r \in Requests,
               RefuseInvalid(r) \/ Wake(r) \/ WaitElapses(r) \/ SendFrame(r)
                 \/ SendTrailer(r) \/ SendBuffered(r)
        PROVE  TypeOK'
    BY <1>0, <1>2 DEF RefuseInvalid, Wake, WaitElapses, SendFrame, SendTrailer,
                      SendBuffered, TypeOK, Goto, Send, Request, Slots, Phases, Serving
  <1>3. ASSUME NEW r \in Requests, RefuseFull(r) PROVE TypeOK'
    <2>1. counters' \in [CounterNames -> Nat]
      BY <1>0, <1>3, BumpType DEF RefuseFull
    <2> QED
      BY <1>0, <1>3, <2>1 DEF RefuseFull, TypeOK, Goto, Send, Request, Phases
  <1>4. ASSUME NEW r \in Requests, Enqueue(r) PROVE TypeOK'
    <2>1. waiters' \in Seq(Requests) /\ admitted' \in Seq(Requests) /\ peak' \in Nat
          /\ active' \in Nat
      BY <1>0, <1>4, EnqueueEffect DEF TypeOK
    <2> QED
      BY <1>0, <1>4, <2>1 DEF Enqueue, TypeOK, Goto, Request, Phases
  <1>5. ASSUME NEW r \in Requests, RejectTimeout(r) PROVE TypeOK'
    <2>1. counters' \in [CounterNames -> Nat]
      BY <1>0, <1>5, BumpType DEF RejectTimeout
    <2>2. waiters' \in Seq(Requests)
      BY <1>5, RejectEffect
    <2> QED
      BY <1>0, <1>5, <2>1, <2>2 DEF RejectTimeout, TypeOK, Goto, Send, Request, Phases
  <1>6. ASSUME NEW r \in Requests, Finish(r) \/ NoticeHangup(r) PROVE TypeOK'
    <2>1. PICK f \in {"cancelled", "finished"} : Release(r, f)
      BY <1>6 DEF Finish, NoticeHangup
    <2>2. phase[r] \in Serving /\ UNCHANGED <<Request, gone, answer>>
      BY <1>6 DEF Finish, NoticeHangup, Serving
    <2>3. counters' \in [CounterNames -> Nat]
      BY <1>0, <2>1, BumpType DEF Release
    <2>4. UNCHANGED priority
      BY <2>2 DEF Request
    <2>5. /\ waiters' \in Seq(Requests) /\ admitted' \in Seq(Requests) /\ peak' \in Nat
          /\ records' \in Seq(Requests \X {"cancelled", "finished"})
          /\ active' \in {active, active - 1}
          /\ r \in HeldBy
      <3>1. /\ waiters' \in Seq(Requests) /\ admitted' \in Seq(Requests) /\ peak' \in Nat
            /\ records' \in Seq(Requests \X {"cancelled", "finished"})
            /\ r \in HeldBy
            /\ \E W \in SUBSET ToSet(waiters) : HandsOver(r, W)
        BY <2>1, <2>2, <2>4, ReleaseEffect
      <3>2. active' \in {active, active - 1}
        BY <3>1 DEF HandsOver
      <3> QED
        BY <3>1, <3>2
    <2>6. active' \in Nat
      <3>1. active # 0
        BY <2>5, Queued, FS_EmptySet DEF IInv, SlotsCounted
      <3> QED
        BY <1>0, <2>5, <3>1 DEF TypeOK
    <2> QED
      BY <1>0, <2>1, <2>2, <2>3, <2>5, <2>6 DEF Release, TypeOK, Request, Phases
  <1>7. ASSUME NEW r \in Requests, HangUp(r) PROVE TypeOK'
    BY <1>0, <1>7 DEF HangUp, TypeOK, Request, Slots
  <1>8. CASE Stop
    BY <1>0, <1>8 DEF Stop, TypeOK, Slots
  <1>9. CASE UNCHANGED vars
    BY <1>0, <1>9 DEF vars, TypeOK
  <1> QED
    BY <1>1, <1>2, <1>3, <1>4, <1>5, <1>6, <1>7, <1>8, <1>9 DEF Next, Thread

\* Enqueue keeps the invariant: a free slot is taken only beside an empty list.
LEMMA EnqueueKeeps ==
    ASSUME IInv, NEW r \in Requests, Enqueue(r)
    PROVE  (WaitersWait /\ PlacesAgree /\ SlotsCounted)'
  <1>1. /\ phase \in [Requests -> Phases] /\ phase' = [phase EXCEPT ![r] = "queued"]
        /\ priority' = priority /\ priority[r] \in Valid /\ phase[r] = "received"
        /\ records' = records
    BY DEF Enqueue, Goto, Request, IInv, TypeOK
  <1>2. \A q \in Requests : phase'[q] = IF q = r THEN "queued" ELSE phase[q]
    BY <1>1
  <1>3. /\ ToSet(waiters) \subseteq Requests /\ ToSet(admitted) \subseteq Requests
        /\ HeldBy \subseteq Requests /\ IsFiniteSet(HeldBy)
        /\ HeldBy = ToSet(admitted) \ Released /\ IsFiniteSet(ToSet(waiters))
        /\ Cardinality(ToSet(waiters)) = Len(waiters) /\ Len(waiters) \in Nat
    BY Queued
  <1>4. /\ r \notin ToSet(waiters) /\ r \notin ToSet(admitted) /\ r \notin HeldBy
        /\ waiters' \in Seq(Requests) /\ Distinct(waiters')
        /\ \/ /\ active < MaxActive /\ active' = active + 1
              /\ ToSet(waiters) = {} /\ ToSet(waiters') = {}
              /\ ToSet(admitted') = ToSet(admitted) \cup {r}
              /\ HeldBy' = HeldBy \cup {r}
           \/ /\ active = MaxActive /\ active' = active
              /\ Len(waiters) < MaxQueueDepth
              /\ ToSet(waiters') = ToSet(waiters) \cup {r}
              /\ ToSet(admitted') = ToSet(admitted)
              /\ HeldBy' = HeldBy
    BY EnqueueEffect
  <1>5. Released' = Released /\ r \notin Released
    BY <1>1 DEF Released, IInv, PlacesAgree
  <1>6. WaitersWait'
    BY <1>1, <1>2, <1>3, <1>4 DEF IInv, WaitersWait
  <1>7. PlacesAgree'
    <2>1. ASSUME NEW q \in ToSet(admitted')
          PROVE  phase'[q] \notin {"outside", "received"} /\ priority'[q] \in Valid
      BY <1>1, <1>2, <1>3, <1>4 DEF IInv, PlacesAgree
    <2>2. ASSUME NEW q \in Requests
          PROVE  /\ phase'[q] \in {"queued", "timedOut"}
                       => q \in ToSet(waiters') \cup ToSet(admitted')
                 /\ phase'[q] \in Serving => q \in HeldBy'
      BY <1>1, <1>2, <1>3, <1>4 DEF IInv, PlacesAgree, Serving
    <2>3. ASSUME NEW q \in Released PROVE phase'[q] = "closed"
      <3>1. q \in Requests /\ q # r /\ phase[q] = "closed"
        <4>1. records \in Seq(Requests \X {"cancelled", "finished"})
          BY DEF IInv, TypeOK
        <4>2. \A i \in DOMAIN records : records[i] \in Requests \X {"cancelled", "finished"}
          BY <4>1, LenProperties, ElementOfSeq
        <4> QED
          BY <1>5, <4>2 DEF Released, IInv, PlacesAgree
      <3> QED
        BY <1>2, <3>1
    <2> QED
      BY <1>5, <2>1, <2>2, <2>3 DEF PlacesAgree
  <1>8. SlotsCounted'
    <2>1. active' = Cardinality(HeldBy')
      BY <1>3, <1>4, FS_AddElement DEF IInv, SlotsCounted
    <2>2. active' <= MaxActive
      BY <1>4, StubAssumption DEF IInv, SlotsCounted, TypeOK
    <2>3. waiters' # <<>> => active' = MaxActive
      BY <1>4, Members
    <2>4. Cardinality(ToSet(waiters')) <= MaxQueueDepth
      <3>1. CASE ToSet(waiters') = {}
        BY <3>1, FS_EmptySet, StubAssumption
      <3>2. CASE ToSet(waiters') = ToSet(waiters) \cup {r} /\ Len(waiters) < MaxQueueDepth
        <4>1. Cardinality(ToSet(waiters')) = Len(waiters) + 1
          BY <1>3, <1>4, <3>2, FS_AddElement
        <4> QED
          BY <1>3, <3>2, <4>1, StubAssumption
      <3> QED
        BY <1>4, <3>1, <3>2
    <2> QED
      BY <2>1, <2>2, <2>3, <2>4 DEF SlotsCounted
  <1> QED
    BY <1>6, <1>7, <1>8

\* RejectTimeout keeps the invariant, whether the waiter is still in the list or not.
LEMMA RejectKeeps ==
    ASSUME IInv, NEW r \in Requests, RejectTimeout(r)
    PROVE  (WaitersWait /\ PlacesAgree /\ SlotsCounted)'
  <1>1. /\ phase \in [Requests -> Phases] /\ phase' = [phase EXCEPT ![r] = "closed"]
        /\ priority' = priority /\ admitted' = admitted /\ active' = active
    BY DEF RejectTimeout, Goto, Request, IInv, TypeOK
  <1>2. \A q \in Requests : phase'[q] = IF q = r THEN "closed" ELSE phase[q]
    BY <1>1
  <1>3. /\ ToSet(waiters) \subseteq Requests /\ ToSet(admitted) \subseteq Requests
        /\ HeldBy = ToSet(admitted) \ Released /\ IsFiniteSet(ToSet(waiters))
        /\ ToSet(waiters) = {} <=> waiters = <<>>
    BY Queued
  <1>4. /\ r \notin Released
        /\ waiters' \in Seq(Requests) /\ Distinct(waiters')
        /\ ToSet(waiters') = ToSet(waiters) \ {r}
        /\ HeldBy' = HeldBy /\ Released' = Released
    BY RejectEffect
  <1>5. WaitersWait'
    BY <1>1, <1>2, <1>3, <1>4 DEF IInv, WaitersWait
  <1>6. PlacesAgree'
    <2>1. \A q \in ToSet(admitted') :
             phase'[q] \notin {"outside", "received"} /\ priority'[q] \in Valid
      BY <1>1, <1>2, <1>3 DEF IInv, PlacesAgree
    <2>2. ASSUME NEW q \in Requests
          PROVE  /\ phase'[q] \in {"queued", "timedOut"}
                       => q \in ToSet(waiters') \cup ToSet(admitted')
                 /\ phase'[q] \in Serving => q \in HeldBy'
      BY <1>1, <1>2, <1>4 DEF IInv, PlacesAgree, Serving
    <2>3. \A q \in Released' : phase'[q] = "closed"
      BY <1>1, <1>4 DEF IInv, PlacesAgree
    <2> QED
      BY <2>1, <2>2, <2>3 DEF PlacesAgree
  <1>7. SlotsCounted'
    <2>1. waiters' # <<>> => waiters # <<>>
      BY <1>3, <1>4, Members
    <2>2. Cardinality(ToSet(waiters')) <= MaxQueueDepth
      <3>1. Cardinality(ToSet(waiters')) <= Cardinality(ToSet(waiters))
            /\ Cardinality(ToSet(waiters')) \in Nat /\ Cardinality(ToSet(waiters)) \in Nat
        BY <1>3, <1>4, FS_Subset, FS_CardinalityType
      <3> QED
        BY <3>1, StubAssumption DEF IInv, SlotsCounted
    <2> QED
      BY <1>1, <1>4, <2>1, <2>2 DEF IInv, SlotsCounted
  <1> QED
    BY <1>5, <1>6, <1>7

\* A release keeps the invariant: the slot is handed over or the list is empty.
LEMMA ReleaseKeeps ==
    ASSUME IInv, NEW r \in Requests, phase[r] \in Serving,
           NEW f \in {"cancelled", "finished"}, Release(r, f), UNCHANGED priority
    PROVE  (WaitersWait /\ PlacesAgree /\ SlotsCounted)'
  <1>1. phase \in [Requests -> Phases] /\ phase' = [phase EXCEPT ![r] = "closed"]
    BY DEF Release, IInv, TypeOK
  <1>2. \A q \in Requests : phase'[q] = IF q = r THEN "closed" ELSE phase[q]
    BY <1>1
  <1>3. /\ ToSet(waiters) \subseteq Requests /\ ToSet(admitted) \subseteq Requests
        /\ HeldBy \subseteq Requests /\ IsFiniteSet(HeldBy)
        /\ HeldBy = ToSet(admitted) \ Released /\ IsFiniteSet(ToSet(waiters))
        /\ HeldBy \cap ToSet(waiters) = {}
        /\ ToSet(waiters) = {} <=> waiters = <<>>
    BY Queued
  <1>4. /\ r \in HeldBy /\ Released' = Released \cup {r}
        /\ waiters' \in Seq(Requests) /\ Distinct(waiters')
    BY ReleaseEffect
  <1>0. PICK W \in SUBSET ToSet(waiters) : HandsOver(r, W)
    BY ReleaseEffect
  <1>5. /\ ToSet(waiters') = ToSet(waiters) \ W
        /\ ToSet(admitted') = ToSet(admitted) \cup W
        /\ HeldBy' = (HeldBy \ {r}) \cup W
        /\ IF ToSet(waiters) = {} THEN W = {} /\ active' = active - 1
           ELSE active' = active /\ \E w \in ToSet(waiters) : W = {w}
    BY <1>0 DEF HandsOver
  <1>6. r \notin ToSet(waiters) /\ r \notin W
    BY <1>3, <1>4
  <1>7. WaitersWait'
    BY <1>2, <1>3, <1>4, <1>5, <1>6 DEF IInv, WaitersWait
  <1>8. PlacesAgree'
    <2>1. ASSUME NEW q \in ToSet(admitted')
          PROVE  phase'[q] \notin {"outside", "received"} /\ priority'[q] \in Valid
      BY <1>2, <1>3, <1>5 DEF IInv, PlacesAgree, WaitersWait
    <2>2. ASSUME NEW q \in Requests
          PROVE  /\ phase'[q] \in {"queued", "timedOut"}
                       => q \in ToSet(waiters') \cup ToSet(admitted')
                 /\ phase'[q] \in Serving => q \in HeldBy'
      BY <1>2, <1>5 DEF IInv, PlacesAgree, Serving
    <2>3. \A q \in Released' : phase'[q] = "closed"
      BY <1>1, <1>4 DEF IInv, PlacesAgree
    <2> QED
      BY <2>1, <2>2, <2>3 DEF PlacesAgree
  <1>9. SlotsCounted'
    <2>1. /\ active = Cardinality(HeldBy) /\ active \in Nat /\ active <= MaxActive
          /\ MaxActive \in Nat /\ MaxQueueDepth \in Nat
          /\ waiters # <<>> => active = MaxActive
          /\ Cardinality(ToSet(waiters)) <= MaxQueueDepth
      BY StubAssumption DEF IInv, SlotsCounted, TypeOK
    <2>2. IsFiniteSet(HeldBy \ {r}) /\ Cardinality(HeldBy \ {r}) = active - 1
      BY <1>3, <1>4, <2>1, FS_RemoveElement
    <2>3. active' = Cardinality(HeldBy')
      <3>1. CASE W = {} /\ active' = active - 1
        BY <1>5, <2>2, <3>1
      <3>2. ASSUME NEW w \in ToSet(waiters), W = {w}, active' = active
            PROVE  active' = Cardinality(HeldBy')
        <4>1. w \notin HeldBy \ {r}
          BY <1>3
        <4>2. Cardinality((HeldBy \ {r}) \cup {w}) = active - 1 + 1
          BY <2>2, <4>1, FS_AddElement
        <4> QED
          BY <1>5, <2>1, <3>2, <4>2
      <3> QED
        BY <1>5, <3>1, <3>2
    <2>4. active' <= MaxActive
      BY <1>5, <2>1
    <2>5. waiters' # <<>> => active' = MaxActive
      <3>1. ToSet(waiters') # {} => ToSet(waiters) # {}
        BY <1>5
      <3> QED
        BY <1>3, <1>4, <1>5, <2>1, <3>1, Members
    <2>6. Cardinality(ToSet(waiters')) <= MaxQueueDepth
      <3>1. Cardinality(ToSet(waiters')) <= Cardinality(ToSet(waiters))
            /\ Cardinality(ToSet(waiters')) \in Nat /\ Cardinality(ToSet(waiters)) \in Nat
        BY <1>3, <1>5, FS_Subset, FS_CardinalityType
      <3> QED
        BY <2>1, <3>1
    <2> QED
      BY <2>3, <2>4, <2>5, <2>6 DEF SlotsCounted
  <1> QED
    BY <1>7, <1>8, <1>9

LEMMA InvariantInitially == Init => IInv
  <1> SUFFICES ASSUME Init PROVE IInv
    OBVIOUS
  <1>1. ToSet(<<>>) = {} /\ <<>> \in Seq(Requests)
        /\ <<>> \in Seq(Requests \X {"cancelled", "finished"})
        /\ Len(<<>>) = 0 /\ DOMAIN <<>> = {}
    BY EmptySeq DEF ToSet
  <1>2. TypeOK
    BY <1>1 DEF Init, TypeOK, Phases, Serving, Priorities, Valid, CounterNames
  <1>3. Released = {} /\ HeldBy = {}
    BY <1>1 DEF Init, Released, HeldBy
  <1>4. WaitersWait
    BY <1>1 DEF Init, WaitersWait, Distinct
  <1>5. PlacesAgree
    BY <1>1, <1>3 DEF Init, PlacesAgree, Serving
  <1>6. SlotsCounted
    <2>1. Cardinality(HeldBy) = 0 /\ Cardinality(ToSet(waiters)) = 0
      BY <1>1, <1>3, FS_EmptySet DEF Init
    <2>2. MaxActive \in Nat /\ MaxQueueDepth \in Nat
      BY StubAssumption
    <2> QED
      BY <2>1, <2>2 DEF Init, SlotsCounted
  <1> QED
    BY <1>2, <1>4, <1>5, <1>6 DEF IInv

LEMMA InvariantStep == IInv /\ [Next]_vars => IInv'
  <1> SUFFICES ASSUME IInv, [Next]_vars PROVE IInv'
    OBVIOUS
  <1>0. TypeOK' /\ TypeOK
    BY TypeStep DEF IInv
  <1>1. ASSUME NEW r \in Requests, NEW p \in Priorities, NEW s \in BOOLEAN, Connect(r, p, s)
        PROVE  (WaitersWait /\ PlacesAgree /\ SlotsCounted)'
    <2>1. /\ phase' = [phase EXCEPT ![r] = "received"] /\ phase[r] = "outside"
          /\ UNCHANGED <<waiters, admitted, active, records>>
      BY <1>1 DEF Connect, Goto, Slots
    <2>2. priority' \in [Requests -> Priorities]
      BY <1>0 DEF TypeOK
    <2>3. \A q \in Requests : priority'[q] # priority[q] => q = r
      BY <1>0, <1>1 DEF Connect, TypeOK
    <2>4. "received" \in Phases
      BY DEF Phases
    <2> QED
      BY <2>1, <2>2, <2>3, <2>4, MoveKeeps
  <1>2. ASSUME NEW r \in Requests,
               RefuseInvalid(r) \/ RefuseFull(r) \/ Wake(r) \/ WaitElapses(r)
                 \/ SendFrame(r) \/ SendTrailer(r) \/ SendBuffered(r)
        PROVE  (WaitersWait /\ PlacesAgree /\ SlotsCounted)'
    <2>1. UNCHANGED <<waiters, admitted, active, records, priority>>
      BY <1>2 DEF RefuseInvalid, RefuseFull, Wake, WaitElapses, SendFrame, SendTrailer,
                  SendBuffered, Slots, Request
    <2>2. PICK p \in Phases :
             /\ phase' = [phase EXCEPT ![r] = p]
             /\ \/ phase[r] \in {"outside", "received"} /\ p \in {"received", "closed"}
                \/ phase[r] = "queued" /\ p = "timedOut"
                \/ phase[r] = "queued" /\ p = "prefill" /\ r \in ToSet(admitted)
                \/ phase[r] \in Serving /\ p \in Serving
      BY <1>2 DEF RefuseInvalid, RefuseFull, Wake, WaitElapses, SendFrame, SendTrailer,
                  SendBuffered, Goto, Phases, Serving
    <2>3. priority' \in [Requests -> Priorities]
      BY <1>0 DEF TypeOK
    <2> QED
      BY <2>1, <2>2, <2>3, MoveKeeps
  <1>3. ASSUME NEW r \in Requests, Enqueue(r)
        PROVE  (WaitersWait /\ PlacesAgree /\ SlotsCounted)'
    BY <1>3, EnqueueKeeps
  <1>4. ASSUME NEW r \in Requests, RejectTimeout(r)
        PROVE  (WaitersWait /\ PlacesAgree /\ SlotsCounted)'
    BY <1>4, RejectKeeps
  <1>5. ASSUME NEW r \in Requests, Finish(r) \/ NoticeHangup(r)
        PROVE  (WaitersWait /\ PlacesAgree /\ SlotsCounted)'
    <2>1. PICK f \in {"cancelled", "finished"} : Release(r, f)
      BY <1>5 DEF Finish, NoticeHangup
    <2>2. phase[r] \in Serving /\ UNCHANGED priority
      BY <1>5 DEF Finish, NoticeHangup, Serving, Request
    <2> QED
      BY <2>1, <2>2, ReleaseKeeps
  <1>6. ASSUME UNCHANGED <<phase, priority, waiters, admitted, active, records>>
        PROVE  (WaitersWait /\ PlacesAgree /\ SlotsCounted)'
    <2>1. /\ HeldBy' = HeldBy /\ Released' = Released /\ SlotsCounted'
          /\ ToSet(waiters') = ToSet(waiters) /\ ToSet(admitted') = ToSet(admitted)
      BY <1>6, SameSlots DEF IInv
    <2>2. WaitersWait' /\ PlacesAgree'
      BY <1>6, <2>1 DEF IInv, WaitersWait, PlacesAgree
    <2> QED
      BY <2>1, <2>2
  <1>7. ASSUME NEW r \in Requests, HangUp(r)
        PROVE  (WaitersWait /\ PlacesAgree /\ SlotsCounted)'
    BY <1>6, <1>7 DEF HangUp, Slots, Request
  <1>8. ASSUME Stop \/ UNCHANGED vars
        PROVE  (WaitersWait /\ PlacesAgree /\ SlotsCounted)'
    BY <1>6, <1>8 DEF Stop, Slots, vars
  <1> QED
    BY <1>0, <1>1, <1>2, <1>3, <1>4, <1>5, <1>7, <1>8 DEF Next, Thread, IInv

\* The stub's list, slots and threads agree in every reachable state.
THEOREM Invariance == Spec => []IInv
  BY InvariantInitially, InvariantStep, PTL DEF Spec

-----------------------------------------------------------------------------
(* The refinement                                                          *)

\* What the contract sees of a request.
StatusAgrees ==
    \A r \in Requests :
        /\ StatusOf(r) \in {"outside", "queued", "holding", "gone"}
        /\ StatusOf(r) = "queued" <=> r \in ToSet(waiters)
        /\ StatusOf(r) = "holding" <=> r \in HeldBy
        /\ StatusOf(r) = "outside" <=> phase[r] \in {"outside", "received"}
                                         \/ priority[r] \notin Valid

LEMMA StatusView == IInv => StatusAgrees
  <1> SUFFICES ASSUME IInv, NEW r \in Requests
               PROVE  /\ StatusOf(r) \in {"outside", "queued", "holding", "gone"}
                      /\ StatusOf(r) = "queued" <=> r \in ToSet(waiters)
                      /\ StatusOf(r) = "holding" <=> r \in HeldBy
                      /\ StatusOf(r) = "outside" <=> phase[r] \in {"outside", "received"}
                                                       \/ priority[r] \notin Valid
    BY DEF StatusAgrees
  <1>1. HeldBy \cap ToSet(waiters) = {} /\ HeldBy = ToSet(admitted) \ Released
    BY Queued
  <1>2. r \in ToSet(waiters) => phase[r] \notin {"outside", "received"} /\ priority[r] \in Valid
    BY DEF IInv, WaitersWait
  <1>3. r \in HeldBy => phase[r] \notin {"outside", "received"} /\ priority[r] \in Valid
    BY <1>1 DEF IInv, PlacesAgree
  <1> QED
    BY <1>1, <1>2, <1>3 DEF StatusOf

\* Who is ahead of a queued request.
Line(r) == IF r \in ToSet(waiters)
             THEN {a \in ToSet(waiters) : Before(priority, waiters, a, r)}
             ELSE {}

AheadAgrees == \A r \in Requests : AheadOf(r) = Line(r)

LEMMA AheadView == IInv => AheadAgrees
  BY Queued, AheadOfLine DEF Line, AheadAgrees

\* The contract's instance has its own copy of Cardinality.
LEMMA SameCardinality == \A S : Contract!Cardinality(S) = Cardinality(S)
  BY DEF Cardinality, Contract!Cardinality

\* The queue and the slots of the contract.
LEMMA SetsView ==
    ASSUME IInv
    PROVE  /\ Contract!Queue = ToSet(waiters) /\ Contract!Slots = HeldBy
           /\ Contract!Cardinality(Contract!Slots) = active
           /\ Contract!Cardinality(Contract!Queue) = Len(waiters)
  <1>1. \A r \in Requests : /\ StatusOf(r) = "queued" <=> r \in ToSet(waiters)
                            /\ StatusOf(r) = "holding" <=> r \in HeldBy
    BY StatusView DEF StatusAgrees
  <1>2. Contract!Queue = ToSet(waiters) /\ Contract!Slots = HeldBy
    BY <1>1, Queued DEF Contract!Queue, Contract!Slots
  <1> QED
    BY <1>2, Queued, SameCardinality DEF IInv, SlotsCounted

\* A step that moves nobody in the queue or into or out of a slot.
LEMMA SameView ==
    ASSUME IInv, IInv', waiters' = waiters, HeldBy' = HeldBy,
           \A q \in Requests :
              /\ StatusOf(q)' = "outside" <=> StatusOf(q) = "outside"
              /\ StatusOf(q) # "outside" => priority'[q] = priority[q]
    PROVE  UNCHANGED Contract!vars
  <1>1. StatusAgrees /\ AheadAgrees
    BY StatusView, AheadView
  <1>2. StatusAgrees' /\ AheadAgrees'
    BY StatusView, AheadView, PTL
  <1>3. \A q \in Requests : StatusOf(q)' = StatusOf(q)
    BY <1>1, <1>2 DEF StatusAgrees
  <1>6. ASSUME NEW q \in Requests PROVE Line(q)' = Line(q)
    <2>1. \A a \in ToSet(waiters) : priority'[a] = priority[a]
      BY <1>1, Queued DEF StatusAgrees
    <2> QED
      BY <2>1 DEF Line, Before
  <1>7. \A q \in Requests : AheadOf(q)' = AheadOf(q)
    BY <1>1, <1>2, <1>6 DEF AheadAgrees
  <1> QED
    BY <1>3, <1>7 DEF Contract!vars

\* Who precedes somebody in the list is in it, and so is the other.
LEMMA PrecedesWithin ==
    ASSUME IInv, NEW a, NEW b, Precedes(waiters, a, b)
    PROVE  a \in ToSet(waiters) /\ b \in ToSet(waiters)
  <1>1. waiters \in Seq(Requests)
    BY DEF IInv, TypeOK
  <1> QED
    BY <1>1, Members DEF Precedes

\* The contract's class of a queued request is its priority.
LEMMA ClassOfQueued ==
    ASSUME IInv, NEW q \in ToSet(waiters)
    PROVE  StatusOf(q) # "outside" /\ q \in Requests
  BY StatusView, Queued DEF StatusAgrees

\* A refusal at the door is the contract's, for a full queue.
LEMMA RefuseFullImplements ==
    ASSUME IInv, IInv', NEW r \in Requests, RefuseFull(r)
    PROVE  Contract!Next
  <1>1. StatusAgrees /\ AheadAgrees
    BY StatusView, AheadView
  <1>2. StatusAgrees' /\ AheadAgrees'
    BY StatusView, AheadView, PTL
  <1>3. /\ waiters' = waiters /\ HeldBy' = HeldBy /\ priority' = priority
        /\ phase' = [phase EXCEPT ![r] = "closed"] /\ phase[r] = "received"
        /\ priority[r] \in Valid /\ phase \in [Requests -> Phases] /\ QueueFull
    BY DEF RefuseFull, Request, HeldBy, Goto, IInv, TypeOK
  <1>4. \A q \in Requests : StatusOf(q)' = IF q = r THEN "gone" ELSE StatusOf(q)
    BY <1>1, <1>2, <1>3 DEF StatusAgrees
  <1>5. StatusOf(r) = "outside"
    BY <1>1, <1>3 DEF StatusAgrees
  <1>6. \A q \in Requests : AheadOf(q)' = AheadOf(q)
    BY <1>1, <1>2, <1>3 DEF AheadAgrees, Line, Before
  <1>7. Contract!Cardinality(Contract!Slots) = MaxActive /\ Contract!Cardinality(Contract!Queue) = MaxQueueDepth
    <2>1. Contract!Cardinality(Contract!Slots) = active /\ Contract!Cardinality(Contract!Queue) = Len(waiters)
      BY SetsView
    <2>2. Len(waiters) \in Nat /\ Len(waiters) <= MaxQueueDepth
      BY Queued DEF IInv, SlotsCounted
    <2>3. Len(waiters) = MaxQueueDepth /\ Len(waiters) # 0
      BY <1>3, <2>2, StubAssumption DEF QueueFull
    <2>4. waiters # <<>>
      BY <2>3, EmptySeq
    <2> QED
      BY <2>1, <2>3, <2>4 DEF IInv, SlotsCounted
  <1>8. Contract!TurnAway(r, priority[r])
    BY <1>3, <1>4, <1>5, <1>6, <1>7 DEF Contract!TurnAway, Contract!Arrive
  <1> QED
    BY <1>3, <1>8 DEF Contract!Next, Valid

\* An arrival is admitted at once, or joins the line at the end of its class.
LEMMA EnqueueImplements ==
    ASSUME IInv, IInv', NEW r \in Requests, Enqueue(r)
    PROVE  Contract!Next
  <1>1. StatusAgrees /\ AheadAgrees
    BY StatusView, AheadView
  <1>2. StatusAgrees' /\ AheadAgrees'
    BY StatusView, AheadView, PTL
  <1>3. /\ priority' = priority /\ priority[r] \in Valid
        /\ phase' = [phase EXCEPT ![r] = "queued"] /\ phase[r] = "received"
        /\ phase \in [Requests -> Phases]
    BY DEF Enqueue, Request, Goto, IInv, TypeOK
  <1>4. StatusOf(r) = "outside"
    BY <1>1, <1>3 DEF StatusAgrees
  <1>5. CASE /\ active < MaxActive
             /\ ToSet(waiters) = {} /\ ToSet(waiters') = {}
             /\ HeldBy' = HeldBy \cup {r}
    <2>1. \A q \in Requests : StatusOf(q)' = IF q = r THEN "holding" ELSE StatusOf(q)
      BY <1>1, <1>2, <1>3, <1>5 DEF StatusAgrees
    <2>2. \A q \in Requests : AheadOf(q)' = AheadOf(q)
      BY <1>1, <1>2, <1>5 DEF AheadAgrees, Line
    <2>3. Contract!Queue = {} /\ Contract!Cardinality(Contract!Slots) < MaxActive
      BY <1>5, SetsView
    <2>4. Contract!Admit(r, priority[r])
      BY <1>3, <1>4, <2>1, <2>2, <2>3 DEF Contract!Admit, Contract!Arrive
    <2> QED
      BY <1>3, <2>4 DEF Contract!Next, Valid
  <1>6. CASE /\ active = MaxActive /\ Len(waiters) < MaxQueueDepth
             /\ r \notin ToSet(waiters)
             /\ ToSet(waiters') = ToSet(waiters) \cup {r}
             /\ \A a, b : Precedes(waiters', a, b)
                            <=> Precedes(waiters, a, b) \/ (a \in ToSet(waiters) /\ b = r)
             /\ HeldBy' = HeldBy
    <2>1. \A q \in Requests : StatusOf(q)' = IF q = r THEN "queued" ELSE StatusOf(q)
      BY <1>1, <1>2, <1>3, <1>6 DEF StatusAgrees
    <2>2. \A w \in ToSet(waiters) : priority[w] \in Valid
      BY DEF IInv, WaitersWait
    <2>3. \A a : ~Precedes(waiters, a, r) /\ ~Precedes(waiters, r, a)
      BY <1>6, PrecedesWithin
    <2>4. Line(r)' = {w \in ToSet(waiters) :
                         priority[w] = "interactive" \/ priority[r] = "background"}
      <3>1. ~Before(priority, waiters', r, r)
        BY <1>6, <2>3 DEF Before
      <3>2. ASSUME NEW w \in ToSet(waiters)
            PROVE  Before(priority, waiters', w, r)
                     <=> priority[w] = "interactive" \/ priority[r] = "background"
        BY <1>3, <1>6, <2>2, <3>2 DEF Before, Valid
      <3> QED
        BY <1>3, <1>6, <3>1, <3>2 DEF Line
    <2>5. ASSUME NEW q \in ToSet(waiters)
          PROVE  Line(q)' = IF priority[q] = "background" /\ priority[r] = "interactive"
                            THEN Line(q) \cup {r} ELSE Line(q)
      <3>1. Before(priority, waiters', r, q)
              <=> priority[q] = "background" /\ priority[r] = "interactive"
        BY <1>3, <1>6, <2>2, <2>3, <2>5 DEF Before, Valid
      <3>2. \A w \in ToSet(waiters) :
               Before(priority, waiters', w, q) <=> Before(priority, waiters, w, q)
        BY <1>6, <2>5 DEF Before
      <3> QED
        BY <1>3, <1>6, <2>5, <3>1, <3>2 DEF Line
    <2>6. \A q \in Requests : q \notin ToSet(waiters') => AheadOf(q) = {} /\ AheadOf(q)' = {}
      BY <1>1, <1>2, <1>6 DEF AheadAgrees, Line
    <2>7. /\ \A w \in ToSet(waiters) : w \in Requests /\ StatusOf(w) # "outside"
          /\ Contract!Queue = ToSet(waiters)
      BY ClassOfQueued, SetsView
    <2>8. \A q \in Requests : AheadOf(q)' =
            IF q = r
              THEN {w \in ToSet(waiters) :
                       priority[w] = "interactive" \/ priority[r] = "background"}
            ELSE IF q \in ToSet(waiters) /\ priority[q] = "background"
                      /\ priority[r] = "interactive"
              THEN AheadOf(q) \cup {r}
            ELSE AheadOf(q)
      BY <1>1, <1>2, <1>6, <2>4, <2>5, <2>6 DEF AheadAgrees
    <2>9. Contract!Cardinality(Contract!Slots) = MaxActive
          /\ Contract!Cardinality(Contract!Queue) < MaxQueueDepth
      BY <1>6, SetsView
    <2>10. Contract!Arrive(r, priority[r], "queued")
      BY <1>3, <1>4, <2>1 DEF Contract!Arrive
    <2>11. Contract!Join(r, priority[r])
      BY <2>7, <2>8, <2>9, <2>10 DEF Contract!Join
    <2> QED
      BY <1>3, <2>11 DEF Contract!Next, Valid
  <1> QED
    BY <1>5, <1>6, EnqueueEffect

\* A waiter that gives up leaves the contract's queue; one that was admitted before it took
\* the lock goes on holding its slot.
LEMMA RejectImplements ==
    ASSUME IInv, IInv', NEW r \in Requests, RejectTimeout(r)
    PROVE  Contract!Next \/ UNCHANGED Contract!vars
  <1>1. StatusAgrees /\ AheadAgrees
    BY StatusView, AheadView
  <1>2. StatusAgrees' /\ AheadAgrees'
    BY StatusView, AheadView, PTL
  <1>3. /\ priority' = priority
        /\ phase' = [phase EXCEPT ![r] = "closed"] /\ phase[r] = "timedOut"
        /\ phase \in [Requests -> Phases]
    BY DEF RejectTimeout, Request, Goto, IInv, TypeOK
  <1>4. /\ ToSet(waiters') = ToSet(waiters) \ {r}
        /\ \A a, b : Precedes(waiters', a, b)
                       <=> a # r /\ b # r /\ Precedes(waiters, a, b)
        /\ HeldBy' = HeldBy
    BY RejectEffect
  <1>5. ASSUME NEW q \in Requests
        PROVE  AheadOf(q)' = IF q = r THEN {} ELSE AheadOf(q) \ {r}
    <2>1. Line(q)' = IF q = r THEN {} ELSE Line(q) \ {r}
      BY <1>3, <1>4 DEF Line, Before
    <2> QED
      BY <1>1, <1>2, <2>1 DEF AheadAgrees
  <1>6. CASE r \in ToSet(waiters)
    <2>1. \A q \in Requests : StatusOf(q)' = IF q = r THEN "gone" ELSE StatusOf(q)
      <3>1. r \notin HeldBy /\ priority[r] \in Valid
        BY <1>6, Queued DEF IInv, WaitersWait
      <3> QED
        BY <1>1, <1>2, <1>3, <1>4, <3>1 DEF StatusAgrees
    <2>2. r \in Contract!Queue /\ StatusOf(r) # "outside"
      BY <1>6, SetsView, ClassOfQueued
    <2>3. Contract!Leave(r)
      BY <1>3, <1>5, <2>1, <2>2 DEF Contract!Leave
    <2> QED
      BY <2>3 DEF Contract!Next
  <1>7. CASE r \notin ToSet(waiters)
    <2>1. r \in HeldBy
      <3>1. r \in ToSet(admitted) /\ r \notin Released
        BY <1>3, <1>7, RejectEffect DEF IInv, PlacesAgree
      <3> QED
        BY <3>1, Queued
    <2>2. \A q \in Requests : StatusOf(q)' = StatusOf(q)
      BY <1>1, <1>2, <1>3, <1>4, <1>7, <2>1 DEF StatusAgrees
    <2>3. \A q \in Requests : AheadOf(q)' = AheadOf(q)
      <3>1. AheadOf(r) = {} /\ \A q \in Requests : r \notin AheadOf(q)
        BY <1>1, <1>7 DEF AheadAgrees, Line
      <3> QED
        BY <1>5, <3>1
    <2> QED
      BY <1>3, <2>2, <2>3 DEF Contract!vars
  <1> QED
    BY <1>6, <1>7

\* A slot that comes back is vacated, or handed to the first in line.
LEMMA ReleaseImplements ==
    ASSUME IInv, IInv', NEW r \in Requests, phase[r] \in Serving,
           NEW f \in {"cancelled", "finished"}, Release(r, f), UNCHANGED priority
    PROVE  Contract!Next
  <1>1. StatusAgrees /\ AheadAgrees
    BY StatusView, AheadView
  <1>2. StatusAgrees' /\ AheadAgrees'
    BY StatusView, AheadView, PTL
  <1>3. phase' = [phase EXCEPT ![r] = "closed"] /\ phase \in [Requests -> Phases]
    BY DEF Release, IInv, TypeOK
  <1>4. r \in HeldBy /\ r \notin ToSet(waiters) /\ priority[r] \in Valid
    BY ReleaseEffect, Queued DEF IInv, PlacesAgree
  <1>5. PICK W \in SUBSET ToSet(waiters) : HandsOver(r, W)
    BY ReleaseEffect
  <1>6. /\ ToSet(waiters') = ToSet(waiters) \ W
        /\ \A a, b : Precedes(waiters', a, b)
                       <=> a \notin W /\ b \notin W /\ Precedes(waiters, a, b)
        /\ HeldBy' = (HeldBy \ {r}) \cup W
    BY <1>5 DEF HandsOver
  <1>7. r \in Contract!Slots
    BY <1>4, SetsView
  <1>8. CASE ToSet(waiters) = {}
    <2>1. W = {} /\ ToSet(waiters') = {} /\ HeldBy' = HeldBy \ {r}
      BY <1>6, <1>8
    <2>2. \A q \in Requests : StatusOf(q)' = IF q = r THEN "gone" ELSE StatusOf(q)
      BY <1>1, <1>2, <1>3, <1>4, <1>8, <2>1 DEF StatusAgrees
    <2>3. \A q \in Requests : AheadOf(q)' = AheadOf(q)
      BY <1>1, <1>2, <1>8, <2>1 DEF AheadAgrees, Line
    <2>4. Contract!Queue = {} /\ StatusOf(r) # "outside"
      BY <1>1, <1>4, <1>8, SetsView DEF StatusAgrees
    <2>5. Contract!Vacate(r)
      BY <1>7, <2>2, <2>3, <2>4 DEF Contract!Vacate
    <2> QED
      BY <2>5 DEF Contract!Next
  <1>9. CASE ToSet(waiters) # {}
    <2>1. PICK w \in ToSet(waiters) :
             W = {w} /\ \A a \in ToSet(waiters) : ~Before(priority, waiters, a, w)
      BY <1>5, <1>9 DEF HandsOver
    <2>2. w \in Requests /\ w # r /\ w \in Contract!Queue /\ priority[w] \in Valid
      BY <1>4, Queued, SetsView DEF IInv, WaitersWait
    <2>3. \A q \in Requests : StatusOf(q)' = IF q = w THEN "holding"
                                             ELSE IF q = r THEN "gone" ELSE StatusOf(q)
      BY <1>1, <1>2, <1>3, <1>4, <1>6, <2>1, <2>2 DEF StatusAgrees
    <2>4. AheadOf(w) = {}
      BY <1>1, <2>1, <2>2 DEF AheadAgrees, Line
    <2>5. ASSUME NEW q \in Requests PROVE AheadOf(q)' = AheadOf(q) \ {w}
      <3>1. CASE q = w
        <4>1. AheadOf(w)' = {}
          BY <1>2, <1>6, <2>1, <2>2 DEF AheadAgrees, Line
        <4> QED
          BY <2>4, <3>1, <4>1
      <3>2. CASE q # w
        <4>1. Line(q)' = Line(q) \ {w}
          BY <1>6, <2>1, <3>2 DEF Line, Before
        <4> QED
          BY <1>1, <1>2, <4>1 DEF AheadAgrees
      <3> QED
        BY <3>1, <3>2
    <2>6. StatusOf(r) # "outside" /\ StatusOf(w) # "outside"
      BY <1>1, <1>4, <2>1, <2>2 DEF StatusAgrees
    <2>7. Contract!HandOver(r, w)
      BY <1>7, <2>2, <2>3, <2>4, <2>5, <2>6 DEF Contract!HandOver
    <2> QED
      BY <2>2, <2>7 DEF Contract!Next
  <1> QED
    BY <1>8, <1>9

LEMMA StepImplements ==
    IInv /\ IInv' /\ [Next]_vars => [Contract!Next]_(Contract!vars)
  <1> SUFFICES ASSUME IInv, IInv', [Next]_vars
               PROVE  Contract!Next \/ UNCHANGED Contract!vars
    OBVIOUS
  <1>1. ASSUME NEW r \in Requests, RefuseFull(r) PROVE Contract!Next
    BY <1>1, RefuseFullImplements
  <1>2. ASSUME NEW r \in Requests, Enqueue(r) PROVE Contract!Next
    BY <1>2, EnqueueImplements
  <1>3. ASSUME NEW r \in Requests, RejectTimeout(r)
        PROVE  Contract!Next \/ UNCHANGED Contract!vars
    BY <1>3, RejectImplements
  <1>4. ASSUME NEW r \in Requests, Finish(r) \/ NoticeHangup(r) PROVE Contract!Next
    <2>1. PICK f \in {"cancelled", "finished"} : Release(r, f)
      BY <1>4 DEF Finish, NoticeHangup
    <2>2. phase[r] \in Serving /\ UNCHANGED priority
      BY <1>4 DEF Finish, NoticeHangup, Serving, Request
    <2> QED
      BY <2>1, <2>2, ReleaseImplements
  <1>5. ASSUME NEW r \in Requests,
               \/ \E p \in Priorities, s \in BOOLEAN : Connect(r, p, s)
               \/ RefuseInvalid(r) \/ Wake(r) \/ WaitElapses(r)
               \/ SendFrame(r) \/ SendTrailer(r) \/ SendBuffered(r) \/ HangUp(r)
        PROVE  UNCHANGED Contract!vars
    <2>1. waiters' = waiters /\ HeldBy' = HeldBy
      BY <1>5 DEF Connect, RefuseInvalid, Wake, WaitElapses, SendFrame, SendTrailer,
                  SendBuffered, HangUp, Slots, HeldBy
    <2>2. StatusAgrees /\ StatusAgrees'
      BY StatusView, PTL
    <2>3. \A q \in Requests :
             /\ (phase'[q] \in {"outside", "received"} \/ priority'[q] \notin Valid)
                  <=> (phase[q] \in {"outside", "received"} \/ priority[q] \notin Valid)
             /\ phase[q] \notin {"outside", "received"} => priority'[q] = priority[q]
      <3>1. phase \in [Requests -> Phases] /\ priority \in [Requests -> Priorities]
        BY DEF IInv, TypeOK
      <3>2. CASE \E p \in Priorities, s \in BOOLEAN : Connect(r, p, s)
        BY <3>1, <3>2 DEF Connect, Goto
      <3>3. CASE RefuseInvalid(r)
        BY <3>1, <3>3 DEF RefuseInvalid, Goto, Request
      <3>4. CASE Wake(r) \/ WaitElapses(r)
        BY <3>1, <3>4 DEF Wake, WaitElapses, Goto, Request
      <3>5. CASE SendFrame(r) \/ SendTrailer(r) \/ SendBuffered(r)
        BY <3>1, <3>5 DEF SendFrame, SendTrailer, SendBuffered, Goto, Request
      <3>6. CASE HangUp(r)
        BY <3>6 DEF HangUp, Request
      <3> QED
        BY <1>5, <3>2, <3>3, <3>4, <3>5, <3>6
    <2> QED
      BY <2>1, <2>2, <2>3, SameView DEF StatusAgrees
  <1>6. ASSUME Stop \/ UNCHANGED vars PROVE UNCHANGED Contract!vars
    <2>1. UNCHANGED <<waiters, admitted, records, phase, priority>>
      BY <1>6 DEF Stop, Slots, vars
    <2>2. HeldBy' = HeldBy
      BY <2>1 DEF HeldBy
    <2>3. \A q \in Requests : StatusOf(q)' = StatusOf(q)
      BY <2>1, <2>2 DEF StatusOf
    <2> QED
      BY <2>1, <2>2, <2>3, SameView
  <1> QED
    BY <1>1, <1>2, <1>3, <1>4, <1>5, <1>6 DEF Next, Thread

\* The stub admits as the real scheduler's contract says, for every number of clients, one
\* slot or two and every queue depth: through refusals, hang-ups, timeouts, and the slot
\* that a waiter loses when it is admitted after its wait has elapsed.
THEOREM StubKeepsTheContract == Spec => StubImplementsContract
  <1>1. Init => Contract!Init
    <2> SUFFICES ASSUME Init PROVE Contract!Init
      OBVIOUS
    <2>1. ToSet(<<>>) = {} /\ DOMAIN <<>> = {}
      BY EmptySeq DEF ToSet
    <2>2. \A r \in Requests : StatusOf(r) = "outside" /\ AheadOf(r) = {}
      BY <2>1 DEF Init, StatusOf, HeldBy, AheadOf
    <2> QED
      BY <2>2 DEF Contract!Init
  <1> QED
    BY <1>1, StepImplements, Invariance, PTL
       DEF Spec, StubImplementsContract, Contract!Spec

-----------------------------------------------------------------------------
(* The workload                                                            *)

\* The priorities of the running scenario's tasks; "urgent" is not a class of the queue.
TaskPriority ==
    [i \in Requests |-> IF i \in DOMAIN Tasks THEN Tasks[i].priority ELSE "urgent"]

\* What the proofs read of the envelopes.
LEMMA WorkloadFacts ==
    ASSUME scenario \in DOMAIN Workload
    PROVE  /\ scenario \in {"pair", "burst", "cancel"}
           /\ DOMAIN Tasks \subseteq Requests
           /\ \A i \in DOMAIN Tasks : /\ Tasks[i].priority \in Priorities
                                      /\ Tasks[i].streams \in BOOLEAN
           /\ Staged => Admittable = 1 .. 4
           /\ Staged <=> scenario \in {"burst", "cancel"}
  <1>1. DOMAIN Workload = {"pair", "burst", "cancel"}
    BY DEF Workload
  <1>2. CASE scenario = "pair"
    <2>1. /\ DOMAIN Tasks = 1 .. 2
          /\ \A i \in 1 .. 2 : /\ Tasks[i].priority \in {"interactive", "background"}
                               /\ Tasks[i].streams \in BOOLEAN
      <3>1. Tasks = <<Envelope("interactive", TRUE), Envelope("background", TRUE)>>
        BY <1>2 DEF Tasks, Workload
      <3>2. DOMAIN Tasks = 1 .. 2
        BY <3>1
      <3>3. /\ Tasks[1].priority = "interactive" /\ Tasks[1].streams = TRUE
            /\ Tasks[2].priority = "background" /\ Tasks[2].streams = TRUE
        BY <3>1 DEF Envelope
      <3>4. 1 .. 2 = {1, 2}
        OBVIOUS
      <3> QED
        BY <3>2, <3>3, <3>4
    <2> QED
      BY <1>2, <2>1, TasksAssumption DEF Staged, Priorities, Valid
  <1>3. CASE scenario = "burst"
    <2>1. /\ DOMAIN Tasks = 1 .. 4
          /\ \A i \in 1 .. 4 : /\ Tasks[i].priority \in {"interactive", "background"}
                               /\ Tasks[i].streams \in BOOLEAN
      <3>1. Tasks = <<Envelope("background", TRUE), Envelope("interactive", TRUE),
                      Envelope("interactive", TRUE), Envelope("background", FALSE)>>
        BY <1>3 DEF Tasks, Workload
      <3>2. DOMAIN Tasks = 1 .. 4
        BY <3>1
      <3>3. /\ Tasks[1].priority = "background" /\ Tasks[1].streams = TRUE
            /\ Tasks[2].priority = "interactive" /\ Tasks[2].streams = TRUE
            /\ Tasks[3].priority = "interactive" /\ Tasks[3].streams = TRUE
            /\ Tasks[4].priority = "background" /\ Tasks[4].streams = FALSE
        BY <3>1 DEF Envelope
      <3>4. 1 .. 4 = {1, 2, 3, 4}
        OBVIOUS
      <3> QED
        BY <3>2, <3>3, <3>4
    <2> QED
      BY <1>3, <2>1, TasksAssumption DEF Staged, Priorities, Valid, Admittable
  <1>4. CASE scenario = "cancel"
    <2>1. /\ DOMAIN Tasks = 1 .. 5
          /\ \A i \in 1 .. 4 : /\ Tasks[i].priority \in {"interactive", "background"}
                               /\ Tasks[i].streams \in BOOLEAN
          /\ Tasks[5].priority = "urgent" /\ Tasks[5].streams = FALSE
      <3>1. Tasks = <<Envelope("background", TRUE), Envelope("background", TRUE),
                      Envelope("interactive", TRUE), Envelope("background", TRUE),
                      Envelope("urgent", FALSE)>>
        BY <1>4 DEF Tasks, Workload
      <3>2. DOMAIN Tasks = 1 .. 5
        BY <3>1
      <3>3. /\ Tasks[1].priority = "background" /\ Tasks[1].streams = TRUE
            /\ Tasks[2].priority = "background" /\ Tasks[2].streams = TRUE
            /\ Tasks[3].priority = "interactive" /\ Tasks[3].streams = TRUE
            /\ Tasks[4].priority = "background" /\ Tasks[4].streams = TRUE
            /\ Tasks[5].priority = "urgent" /\ Tasks[5].streams = FALSE
        BY <3>1 DEF Envelope
      <3>4. 1 .. 4 = {1, 2, 3, 4}
        OBVIOUS
      <3> QED
        BY <3>2, <3>3, <3>4
    <2>2. 1 .. 5 = 1 .. 4 \cup {5} /\ 5 \notin 1 .. 4
      OBVIOUS
    <2> QED
      BY <1>4, <2>1, <2>2, TasksAssumption DEF Staged, Priorities, Valid, Admittable
  <1> QED
    BY <1>1, <1>2, <1>3, <1>4

-----------------------------------------------------------------------------
(* The inductive invariant                                                 *)

\* A task connects when it has been sent, once and with its own priority; only the victim
\* of the cancel scenario hangs up.
TasksAreThemselves ==
    /\ scenario \in DOMAIN Workload
    /\ sent \in Seq(DOMAIN Tasks)
    /\ Distinct(sent)
    /\ gone \subseteq {Victim}
    /\ gone # {} \/ step \in {"refuse", "abort", "hangup"} => scenario = "cancel"
    /\ \A i \in Requests :
          phase[i] # "outside" => i \in ToSet(sent) /\ priority[i] = Tasks[i].priority

\* Who waits has no answer yet; a 503 is the last thing a thread writes.
AnswersAgree ==
    \A i \in Requests :
        /\ phase[i] \in {"outside", "received", "queued", "timedOut"} => answer[i] = "none"
        /\ answer[i] = "503" => phase[i] = "closed"

AdmittedOnce == Distinct(admitted) /\ Released \subseteq ToSet(admitted)

\* The tasks of a staged scenario reach the queue in the order in which they are sent.
ArrivalOrder ==
    Staged => \A a, b : Precedes(sent, a, b) /\ phase[b] # "outside"
                           => phase[a] \notin {"outside", "received"}

\* Until the first release the list is the end of that order.
LineOrder ==
    Staged /\ Released = {} =>
        /\ \A a, b : Precedes(waiters, a, b) => Precedes(sent, a, b)
        /\ \A a \in ToSet(admitted), b \in ToSet(waiters) : Precedes(sent, a, b)

\* The orchestrator is behind the observation of the full queue.
FilledSteps == {"stamp", "refuse", "abort", "hangup", "measure", "collect", "done"}

\* The victim is not aborted before it has been served.
VictimHeard ==
    scenario = "cancel" /\ step \in {"count", "stage2"} \cup FilledSteps
        => answer[Victim] # "none"

\* No admittable task has timed out in the queue.
NobodyLost == \A i \in Admittable : answer[i] = "503" => scenario = "cancel" /\ i = Victim

\* The admissions so far are those the client derives: the first submissions at once, and
\* then a beginning of the ranked ones; the others stand in the list, in that order.
InLine ==
    /\ MaxActive <= Len(admitted)
    /\ {admitted[i] : i \in 1 .. MaxActive} = ToSet(Immediate)
    /\ \A k \in 1 .. Len(Ranked) :
          IF MaxActive + k <= Len(admitted) THEN admitted[MaxActive + k] = Ranked[k]
          ELSE Ranked[k] \in ToSet(waiters)
    /\ \A w \in ToSet(waiters) :
          \E k \in 1 .. Len(Ranked) : Ranked[k] = w /\ MaxActive + k > Len(admitted)
    /\ \A a, b \in ToSet(waiters) :
          Precedes(Ranked, a, b) => Before(TaskPriority, waiters, a, b)

\* Once the full queue has been observed every task has come, and the line moves as derived
\* unless a task of it is lost.
AllArrived ==
    Staged /\ step \in FilledSteps =>
        /\ \A i \in Admittable : phase[i] \notin {"outside", "received"}
        /\ scenario = "cancel" => Victim \in ToSet(admitted)
        /\ NobodyLost => InLine

ScenarioInv ==
    /\ IInv
    /\ TasksAreThemselves
    /\ AnswersAgree
    /\ AdmittedOnce
    /\ ArrivalOrder
    /\ LineOrder
    /\ VictimHeard
    /\ AllArrived

-----------------------------------------------------------------------------
(* What a thread does                                                      *)

\* The thread of r goes to p and leaves its client with the answer a.
Moves(r, p, a) ==
    /\ phase' = [phase EXCEPT ![r] = p] /\ answer' = [answer EXCEPT ![r] = a]
    /\ UNCHANGED <<accepting, priority, streams, gone>>
    /\ phase[r] \notin {"outside", "closed"} /\ p \notin {"outside", "received"}
    /\ p \in {"queued", "timedOut"} => phase[r] \in {"received", "queued"} /\ a = answer[r]
    /\ a # answer[r] => a # "none" /\ (a = "503" => p = "closed")

LEMMA ThreadMoves ==
    ASSUME TypeOK, NEW r \in Requests, Thread(r)
    PROVE  \E p \in Phases, a \in {"none", "partial", "complete", "400", "429", "503"} :
              Moves(r, p, a)
  <1>1. /\ answer \in [Requests -> {"none", "partial", "complete", "400", "429", "503"}]
        /\ phase \in [Requests -> Phases]
    BY DEF TypeOK
  <1>2. answer' = answer => answer' = [answer EXCEPT ![r] = answer[r]]
    BY <1>1
  <1>3. ASSUME NEW p \in Phases, p \notin {"outside", "received"}, Goto(r, p),
               answer' = answer, phase[r] \notin {"outside", "closed"},
               UNCHANGED <<accepting, priority, streams, gone>>,
               p \in {"queued", "timedOut"} => phase[r] \in {"received", "queued"}
        PROVE  Moves(r, p, answer[r])
    BY <1>2, <1>3 DEF Moves, Goto
  <1>4. ASSUME NEW p \in Phases, p \notin {"outside", "received", "queued", "timedOut"},
               NEW a \in {"partial", "complete", "400", "429", "503"},
               Goto(r, p), Send(r, a), phase[r] \notin {"outside", "closed"},
               UNCHANGED <<accepting, priority, streams, gone>>, a = "503" => p = "closed"
        PROVE  Moves(r, p, IF r \in gone THEN answer[r] ELSE a)
    BY <1>1, <1>4 DEF Moves, Goto, Send
  <1>5. CASE Enqueue(r)
    BY <1>1, <1>3, <1>5 DEF Enqueue, Request, Phases
  <1>6. CASE Wake(r) \/ WaitElapses(r)
    BY <1>1, <1>3, <1>6 DEF Wake, WaitElapses, Request, Phases, Serving
  <1>7. CASE Finish(r) \/ NoticeHangup(r)
    <2>1. Goto(r, "closed")
      BY <1>7 DEF Finish, NoticeHangup, Release, Goto
    <2> QED
      BY <1>1, <1>3, <1>7, <2>1 DEF Finish, NoticeHangup, Request, Phases
  <1>8. CASE RefuseInvalid(r) \/ RefuseFull(r) \/ RejectTimeout(r)
    <2>1. PICK a \in {"400", "429", "503"} : Send(r, a)
      BY <1>8 DEF RefuseInvalid, RefuseFull, RejectTimeout
    <2>2. /\ Goto(r, "closed") /\ phase[r] \notin {"outside", "closed"}
          /\ UNCHANGED <<accepting, priority, streams, gone>> /\ "closed" \in Phases
      BY <1>8 DEF RefuseInvalid, RefuseFull, RejectTimeout, Request, Phases
    <2>3. Moves(r, "closed", IF r \in gone THEN answer[r] ELSE a)
      BY <1>4, <2>1, <2>2
    <2> QED
      BY <1>1, <2>2, <2>3
  <1>9. CASE SendFrame(r) \/ SendTrailer(r) \/ SendBuffered(r)
    <2>1. PICK a \in {"partial", "complete"} : Send(r, a)
      BY <1>9 DEF SendFrame, SendTrailer, SendBuffered
    <2>2. PICK p \in {"sending", "finishing"} : Goto(r, p)
      BY <1>9 DEF SendFrame, SendTrailer, SendBuffered
    <2>3. /\ phase[r] \notin {"outside", "closed"}
          /\ UNCHANGED <<accepting, priority, streams, gone>> /\ p \in Phases
      BY <1>9 DEF SendFrame, SendTrailer, SendBuffered, Request, Phases, Serving
    <2>4. Moves(r, p, IF r \in gone THEN answer[r] ELSE a)
      BY <1>4, <2>1, <2>2, <2>3
    <2> QED
      BY <1>1, <2>3, <2>4
  <1> QED
    BY <1>5, <1>6, <1>7, <1>8, <1>9 DEF Thread

\* A thread that serves ends and gives its slot back.
GivesBack(r) ==
    /\ phase[r] \in Serving /\ UNCHANGED <<priority, answer>>
    /\ \E f \in {"cancelled", "finished"} : Release(r, f)

\* What a thread does to the list: nothing, or it is one of three.
LEMMA ThreadLists ==
    ASSUME NEW r \in Requests, Thread(r)
    PROVE  \/ UNCHANGED <<waiters, admitted, records>>
           \/ Enqueue(r)
           \/ RejectTimeout(r)
           \/ GivesBack(r)
  BY DEF GivesBack, Thread, RefuseInvalid, RefuseFull, Wake, WaitElapses, SendFrame, SendTrailer,
         SendBuffered, Slots, Request, Finish, NoticeHangup, Serving

-----------------------------------------------------------------------------
(* What the orchestrator, the watcher and the server do                    *)

\* The client reads the server: it sends a task, or hangs up for the victim, or only moves
\* on and takes samples.
LEMMA ClientSteps ==
    ASSUME Orchestrate \/ WatcherReads \/ WatcherStamps
    PROVE  /\ scenario' = scenario
           /\ UNCHANGED vars \/ (AbortVictim /\ sent' = sent)
           /\ sent' = sent \/ (UNCHANGED step /\ \E i \in DOMAIN Tasks : Submit(i))
           /\ step' \in {"refuse", "abort", "hangup"} =>
                 scenario = "cancel" \/ step \in {"refuse", "abort", "hangup"}
  BY DEF Orchestrate, Submit, PairSubmitted, SlotsOccupied, CheckHold, CountReleases,
         ObserveQueue, StampObserved, RefusalSeen, PrepareAbort, AbortVictim,
         MeasureRelease, Collect, WatcherReads, WatcherStamps, Quiet, Proceed, Abandon, At

\* The server takes a connection in its turn, or one of its threads does a step.
LEMMA ServerSteps ==
    ASSUME scenario \in DOMAIN Workload, ServerStep
    PROVE  /\ UNCHANGED clientVars
           /\ \E i \in DOMAIN Tasks : Arrives(i) \/ Thread(i)
           /\ Next
  <1>1. PICK i \in DOMAIN Tasks : Arrives(i) \/ Thread(i)
    BY DEF ServerStep
  <1>2. i \in Requests /\ Tasks[i].priority \in Priorities /\ Tasks[i].streams \in BOOLEAN
    BY WorkloadFacts
  <1>3. Arrives(i) => Connect(i, Tasks[i].priority, Tasks[i].streams)
    BY DEF Arrives
  <1> QED
    BY <1>1, <1>2, <1>3 DEF ServerStep, Next

\* The stub's invariant survives the scenario, also the victim's hang-up behind the end
\* of its thread.
LEMMA StubInvariantStep ==
    ASSUME IInv, scenario \in DOMAIN Workload, [ScenarioNext]_allVars
    PROVE  IInv'
  <1>1. CASE UNCHANGED vars
    BY <1>1, InvariantStep
  <1>2. CASE ServerStep
    BY <1>2, ServerSteps, InvariantStep
  <1>3. CASE AbortVictim
    <2>1. UNCHANGED <<Request, phase, Slots, answer>> /\ gone' = gone \cup {1}
      BY <1>3 DEF AbortVictim, Victim
    <2>2. TypeOK'
      BY <2>1, TasksAssumption DEF IInv, TypeOK, Request, Slots
    <2>3. /\ HeldBy' = HeldBy /\ Released' = Released /\ SlotsCounted'
          /\ ToSet(waiters') = ToSet(waiters) /\ ToSet(admitted') = ToSet(admitted)
      BY <2>1, SameSlots DEF IInv, Slots
    <2>4. WaitersWait' /\ PlacesAgree'
      BY <2>1, <2>3 DEF IInv, WaitersWait, PlacesAgree, Request, Slots
    <2> QED
      BY <2>2, <2>3, <2>4 DEF IInv
  <1> QED
    BY <1>1, <1>2, <1>3, ClientSteps DEF ScenarioNext, allVars

\* Tasks stay themselves.
LEMMA TasksStep ==
    ASSUME IInv, TasksAreThemselves, [ScenarioNext]_allVars
    PROVE  TasksAreThemselves'
  <1>1. /\ phase \in [Requests -> Phases] /\ priority \in [Requests -> Priorities]
        /\ sent \in Seq(DOMAIN Tasks) /\ Distinct(sent)
    BY DEF IInv, TypeOK, TasksAreThemselves
  <1>2. CASE UNCHANGED allVars
    BY <1>2 DEF TasksAreThemselves, allVars, vars, clientVars, Tasks
  <1>3. CASE Orchestrate \/ WatcherReads \/ WatcherStamps
    <2>1. /\ scenario' = scenario /\ Tasks' = Tasks
          /\ UNCHANGED vars \/ (AbortVictim /\ sent' = sent)
          /\ sent' = sent \/ (UNCHANGED step /\ \E i \in DOMAIN Tasks : Submit(i))
          /\ step' \in {"refuse", "abort", "hangup"} =>
                 scenario = "cancel" \/ step \in {"refuse", "abort", "hangup"}
      BY <1>3, ClientSteps DEF Tasks
    <2>2. UNCHANGED <<phase, priority>>
      BY <2>1 DEF vars, AbortVictim, Request
    <2>3. /\ gone' \subseteq {Victim}
          /\ gone' # {} \/ step' \in {"refuse", "abort", "hangup"} => scenario' = "cancel"
      BY <2>1 DEF vars, AbortVictim, At, TasksAreThemselves
    <2>4. /\ sent' \in Seq(DOMAIN Tasks) /\ Distinct(sent')
          /\ ToSet(sent) \subseteq ToSet(sent')
      <3>1. CASE sent' = sent
        BY <1>1, <3>1
      <3>2. ASSUME NEW i \in DOMAIN Tasks, Submit(i)
            PROVE  /\ sent' \in Seq(DOMAIN Tasks) /\ Distinct(sent')
                   /\ ToSet(sent) \subseteq ToSet(sent')
        <4>1. sent' = Append(sent, i) /\ i \notin ToSet(sent)
          BY <3>2 DEF Submit
        <4> QED
          BY <1>1, <4>1, AppendOrder
      <3> QED
        BY <2>1, <3>1, <3>2
    <2> QED
      BY <2>1, <2>2, <2>3, <2>4 DEF TasksAreThemselves
  <1>4. CASE ServerStep
    <2>1. UNCHANGED clientVars /\ Tasks' = Tasks
      BY <1>4, ServerSteps DEF TasksAreThemselves, clientVars, Tasks
    <2>2. PICK i \in DOMAIN Tasks : Arrives(i) \/ Thread(i)
      BY <1>4, ServerSteps DEF TasksAreThemselves
    <2>3. i \in Requests
      BY WorkloadFacts DEF TasksAreThemselves
    <2>4. /\ gone' = gone
          /\ \A q \in Requests : phase'[q] # "outside" =>
                 q \in ToSet(sent) /\ priority'[q] = Tasks[q].priority
      <3>1. CASE Arrives(i)
        <4>1. /\ i \in ToSet(sent) /\ phase' = [phase EXCEPT ![i] = "received"]
              /\ priority' = [priority EXCEPT ![i] = Tasks[i].priority] /\ gone' = gone
          BY <3>1 DEF Arrives, Connect, Goto
        <4> QED
          BY <1>1, <2>3, <4>1 DEF TasksAreThemselves
      <3>2. CASE Thread(i)
        <4>1. PICK p \in Phases, a \in {"none", "partial", "complete", "400", "429", "503"} :
                 Moves(i, p, a)
          BY <2>3, <3>2, ThreadMoves DEF IInv
        <4> QED
          BY <1>1, <2>3, <4>1 DEF Moves, TasksAreThemselves
      <3> QED
        BY <2>2, <3>1, <3>2
    <2> QED
      BY <2>1, <2>4 DEF TasksAreThemselves, clientVars
  <1> QED
    BY <1>2, <1>3, <1>4 DEF ScenarioNext

\* Answers stay in step with the threads.
LEMMA AnswersStep ==
    ASSUME IInv, TasksAreThemselves, AnswersAgree, [ScenarioNext]_allVars
    PROVE  /\ AnswersAgree'
           /\ \A q \in Requests : /\ answer[q] # "none" => answer'[q] # "none"
                                  /\ answer[q] = "503" => answer'[q] = "503"
  <1>1. /\ phase \in [Requests -> Phases]
        /\ answer \in [Requests -> {"none", "partial", "complete", "400", "429", "503"}]
    BY DEF IInv, TypeOK
  <1>2. CASE UNCHANGED <<phase, answer>>
    BY <1>2 DEF AnswersAgree
  <1>3. CASE Orchestrate \/ WatcherReads \/ WatcherStamps
    BY <1>2, <1>3, ClientSteps DEF vars, AbortVictim
  <1>4. CASE ServerStep
    <2>1. PICK i \in DOMAIN Tasks : Arrives(i) \/ Thread(i)
      BY <1>4, ServerSteps DEF TasksAreThemselves
    <2>2. i \in Requests
      BY WorkloadFacts DEF TasksAreThemselves
    <2>3. CASE Arrives(i)
      <3>1. /\ phase[i] = "outside" /\ phase' = [phase EXCEPT ![i] = "received"]
            /\ answer' = answer
        BY <2>3 DEF Arrives, Connect, Goto
      <3> QED
        BY <1>1, <2>2, <3>1 DEF AnswersAgree
    <2>4. CASE Thread(i)
      <3>1. PICK p \in Phases, a \in {"none", "partial", "complete", "400", "429", "503"} :
               Moves(i, p, a)
        BY <2>2, <2>4, ThreadMoves DEF IInv
      <3>2. /\ \A q \in Requests : phase'[q] = IF q = i THEN p ELSE phase[q]
            /\ \A q \in Requests : answer'[q] = IF q = i THEN a ELSE answer[q]
        BY <1>1, <3>1 DEF Moves
      <3> QED
        BY <2>2, <3>1, <3>2 DEF Moves, AnswersAgree
    <2> QED
      BY <2>1, <2>3, <2>4
  <1> QED
    BY <1>2, <1>3, <1>4 DEF ScenarioNext, allVars, vars

\* What a step does to the list and the slots.
LEMMA ListSteps ==
    ASSUME scenario \in DOMAIN Workload, [ScenarioNext]_allVars
    PROVE  \/ UNCHANGED <<waiters, admitted, records>>
           \/ /\ UNCHANGED clientVars
              /\ \E i \in DOMAIN Tasks :
                    i \in Requests /\ (Enqueue(i) \/ RejectTimeout(i) \/ GivesBack(i))
  <1>1. CASE UNCHANGED allVars
    BY <1>1 DEF allVars, vars
  <1>2. CASE Orchestrate \/ WatcherReads \/ WatcherStamps
    BY <1>2, ClientSteps DEF vars, AbortVictim, Slots
  <1>3. CASE ServerStep
    <2>1. PICK i \in DOMAIN Tasks : Arrives(i) \/ Thread(i)
      BY <1>3, ServerSteps
    <2>2. i \in Requests
      BY WorkloadFacts
    <2>3. UNCHANGED clientVars
      BY <1>3, ServerSteps
    <2>4. Arrives(i) => UNCHANGED <<waiters, admitted, records>>
      BY DEF Arrives, Connect, Slots
    <2> QED
      BY <2>1, <2>2, <2>3, <2>4, ThreadLists
  <1> QED
    BY <1>1, <1>2, <1>3 DEF ScenarioNext

\* Nobody is admitted twice, and only who was admitted gives a slot back.
LEMMA AdmittedGrows ==
    ASSUME admitted \in Seq(Requests), Distinct(admitted), NEW W \in SUBSET Requests,
           W \cap ToSet(admitted) = {}, Grants(W)
    PROVE  Distinct(admitted') /\ ToSet(admitted') = ToSet(admitted) \cup W
  <1>1. CASE W = {}
    BY <1>1 DEF Grants
  <1>2. CASE W # {}
    <2>1. PICK w \in W : W = {w} /\ admitted' = Append(admitted, w)
      BY <1>2 DEF Grants
    <2> QED
      BY <2>1, AppendOrder
  <1> QED
    BY <1>1, <1>2

LEMMA AdmittedStep ==
    ASSUME IInv, TasksAreThemselves, AdmittedOnce, [ScenarioNext]_allVars
    PROVE  AdmittedOnce'
  <1>1. admitted \in Seq(Requests) /\ Distinct(admitted) /\ Released \subseteq ToSet(admitted)
    BY DEF IInv, TypeOK, AdmittedOnce
  <1>2. CASE UNCHANGED <<waiters, admitted, records>>
    BY <1>2 DEF AdmittedOnce, Released
  <1>3. ASSUME NEW i \in Requests, Enqueue(i)
        PROVE  AdmittedOnce'
    <2>1. /\ i \notin ToSet(admitted)
          /\ admitted' = admitted \/ admitted' = Append(admitted, i)
      BY <1>3, EnqueueEffect
    <2>2. Released' = Released
      BY <1>3 DEF Enqueue, Released
    <2>3. Distinct(Append(admitted, i)) /\ ToSet(admitted) \subseteq ToSet(Append(admitted, i))
      BY <1>1, <2>1, AppendOrder
    <2>4. Distinct(admitted') /\ ToSet(admitted) \subseteq ToSet(admitted')
      BY <1>1, <2>1, <2>3
    <2> QED
      BY <1>1, <2>2, <2>4 DEF AdmittedOnce
  <1>4. ASSUME NEW i \in Requests, RejectTimeout(i)
        PROVE  AdmittedOnce'
    <2>1. admitted' = admitted /\ Released' = Released
      BY <1>4 DEF RejectTimeout, Released
    <2> QED
      BY <1>1, <2>1 DEF AdmittedOnce
  <1>5. ASSUME NEW i \in Requests, GivesBack(i)
        PROVE  AdmittedOnce'
    <2>1. PICK f \in {"cancelled", "finished"} : Release(i, f)
      BY <1>5 DEF GivesBack
    <2>2. /\ i \in HeldBy /\ Released' = Released \cup {i}
          /\ \E W \in SUBSET ToSet(waiters) : HandsOver(i, W)
      BY <1>5, <2>1, ReleaseEffect DEF GivesBack
    <2>3. PICK W \in SUBSET ToSet(waiters) : Grants(W)
      BY <2>2 DEF HandsOver
    <2>4. W \subseteq Requests /\ W \cap ToSet(admitted) = {}
      BY Queued DEF IInv, WaitersWait
    <2>5. Distinct(admitted') /\ ToSet(admitted') = ToSet(admitted) \cup W
      BY <1>1, <2>3, <2>4, AdmittedGrows
    <2>6. i \in ToSet(admitted)
      BY <2>2 DEF HeldBy
    <2> QED
      BY <1>1, <2>2, <2>5, <2>6 DEF AdmittedOnce
  <1> QED
    BY <1>2, <1>3, <1>4, <1>5, ListSteps DEF TasksAreThemselves

\* Arrivals keep to the order of submission.
LEMMA ArrivalStep ==
    ASSUME IInv, TasksAreThemselves, ArrivalOrder, [ScenarioNext]_allVars
    PROVE  ArrivalOrder'
  <1>1. /\ phase \in [Requests -> Phases] /\ sent \in Seq(DOMAIN Tasks) /\ Distinct(sent)
    BY DEF IInv, TypeOK, TasksAreThemselves
  <1>2. CASE UNCHANGED <<sent, phase, scenario>>
    BY <1>2 DEF ArrivalOrder, Staged
  <1>3. CASE Orchestrate \/ WatcherReads \/ WatcherStamps
    <2>1. /\ scenario' = scenario /\ phase' = phase
          /\ sent' = sent \/ \E i \in DOMAIN Tasks : Submit(i)
      BY <1>3, ClientSteps DEF vars, AbortVictim
    <2>2. ASSUME NEW i \in DOMAIN Tasks, Submit(i) PROVE ArrivalOrder'
      <3>1. sent' = Append(sent, i) /\ i \notin ToSet(sent) /\ i \in Requests
        BY <2>2, WorkloadFacts DEF Submit, TasksAreThemselves
      <3>2. phase[i] = "outside"
        BY <3>1 DEF TasksAreThemselves
      <3>3. \A a, b : Precedes(sent', a, b) => Precedes(sent, a, b) \/ b = i
        BY <1>1, <3>1, AppendOrder
      <3> QED
        BY <2>1, <3>2, <3>3 DEF ArrivalOrder, Staged
    <2> QED
      BY <1>2, <2>1, <2>2
  <1>4. CASE ServerStep
    <2>1. PICK i \in DOMAIN Tasks : Arrives(i) \/ Thread(i)
      BY <1>4, ServerSteps DEF TasksAreThemselves
    <2>2. i \in Requests /\ UNCHANGED clientVars
      BY <1>4, ServerSteps, WorkloadFacts DEF TasksAreThemselves
    <2> SUFFICES ASSUME Staged, NEW a, NEW b, Precedes(sent, a, b), phase'[b] # "outside"
                 PROVE  phase'[a] \notin {"outside", "received"}
      BY <2>2 DEF ArrivalOrder, Staged, clientVars
    <2>3. /\ a \in Requests /\ b \in Requests /\ a # b
      BY <1>1, Members, WorkloadFacts DEF Precedes, Distinct, TasksAreThemselves
    <2>4. CASE Arrives(i)
      <3>1. /\ phase[i] = "outside"
            /\ \A q \in Requests : phase'[q] = IF q = i THEN "received" ELSE phase[q]
        BY <1>1, <2>2, <2>4 DEF Arrives, Connect, Goto
      <3>2. CASE b = i
        <4>1. PICK m, n \in 1 .. Len(sent) : m < n /\ sent[m] = a /\ sent[n] = b
          BY DEF Precedes
        <4>2. Len(sent) \in Nat /\ DOMAIN sent = 1 .. Len(sent)
          BY <1>1, Members
        <4>3. ~ \E k \in 1 .. m : sent[k] = i
          BY <1>1, <3>2, <4>1, <4>2 DEF Distinct
        <4>4. phase[a] \notin {"outside", "received"}
          BY <2>3, <2>4, <3>2, <4>1, <4>2, <4>3 DEF Arrives
        <4> QED
          BY <2>3, <3>1, <3>2, <4>4
      <3>3. CASE b # i
        <4>1. phase[a] \notin {"outside", "received"}
          BY <2>3, <3>1, <3>3 DEF ArrivalOrder
        <4> QED
          BY <2>3, <3>1, <4>1
      <3> QED
        BY <3>2, <3>3
    <2>5. CASE Thread(i)
      <3>1. PICK p \in Phases, c \in {"none", "partial", "complete", "400", "429", "503"} :
               Moves(i, p, c)
        BY <2>2, <2>5, ThreadMoves DEF IInv
      <3>2. /\ \A q \in Requests : phase'[q] = IF q = i THEN p ELSE phase[q]
            /\ phase[i] # "outside" /\ p \notin {"outside", "received"}
        BY <1>1, <3>1 DEF Moves
      <3> QED
        BY <2>3, <3>2 DEF ArrivalOrder
    <2> QED
      BY <2>1, <2>4, <2>5
  <1> QED
    BY <1>2, <1>3, <1>4 DEF ScenarioNext, allVars, vars, clientVars

\* Who is in the queue, or beyond it, was sent before the one that is about to enter it.
LEMMA ArrivesLast ==
    ASSUME TasksAreThemselves, ArrivalOrder, Staged, NEW i \in Requests, NEW x \in Requests,
           phase[i] = "received", phase[x] \notin {"outside", "received"}
    PROVE  Precedes(sent, x, i)
  <1>1. sent \in Seq(DOMAIN Tasks) /\ i \in ToSet(sent) /\ x \in ToSet(sent) /\ x # i
    BY DEF TasksAreThemselves
  <1>2. PICK m, n \in 1 .. Len(sent) : sent[m] = x /\ sent[n] = i
    BY <1>1, Members
  <1>3. ~Precedes(sent, i, x)
    BY DEF ArrivalOrder
  <1>4. Len(sent) \in Nat /\ m # n /\ ~(n < m)
    BY <1>1, <1>2, <1>3, Members DEF Precedes
  <1>5. m < n
    BY <1>4
  <1> QED
    BY <1>2, <1>5 DEF Precedes

\* Up to the first release the list goes on in the order of submission.
LEMMA LineStep ==
    ASSUME IInv, TasksAreThemselves, ArrivalOrder, LineOrder, [ScenarioNext]_allVars
    PROVE  LineOrder'
  <1> SUFFICES ASSUME Staged', Released' = {}
               PROVE  /\ \A a, b : Precedes(waiters', a, b) => Precedes(sent', a, b)
                      /\ \A a \in ToSet(admitted'), b \in ToSet(waiters') :
                             Precedes(sent', a, b)
    BY DEF LineOrder
  <1>1. /\ sent \in Seq(DOMAIN Tasks) /\ Staged
        /\ \A a, b : Precedes(sent, a, b) => Precedes(sent', a, b)
    <2>1. CASE Orchestrate \/ WatcherReads \/ WatcherStamps
      <3>1. /\ scenario' = scenario
            /\ sent' = sent \/ \E i \in DOMAIN Tasks : Submit(i)
        BY <2>1, ClientSteps
      <3>2. ASSUME NEW i \in DOMAIN Tasks, Submit(i), NEW a, NEW b, Precedes(sent, a, b)
            PROVE  Precedes(sent', a, b)
        BY <3>2, AppendOrder DEF Submit, TasksAreThemselves
      <3> QED
        BY <3>1, <3>2 DEF Staged, TasksAreThemselves
    <2>2. CASE UNCHANGED clientVars
      BY <2>2 DEF clientVars, Staged, TasksAreThemselves
    <2> QED
      BY <2>1, <2>2, ServerSteps DEF ScenarioNext, allVars, TasksAreThemselves
  <1>2. CASE UNCHANGED <<waiters, admitted, records>>
    BY <1>1, <1>2 DEF LineOrder, Released
  <1>3. ASSUME NEW i \in Requests, Enqueue(i), UNCHANGED clientVars
        PROVE  /\ \A a, b : Precedes(waiters', a, b) => Precedes(sent', a, b)
               /\ \A a \in ToSet(admitted'), b \in ToSet(waiters') : Precedes(sent', a, b)
    <2>1. Released = {} /\ phase[i] = "received"
      BY <1>3 DEF Enqueue, Released
    <2>2. \A a \in ToSet(admitted) \cup ToSet(waiters) : Precedes(sent, a, i)
      <3>1. ToSet(admitted) \cup ToSet(waiters) \subseteq Requests
        BY Queued
      <3>2. \A a \in ToSet(admitted) \cup ToSet(waiters) :
                 phase[a] \notin {"outside", "received"}
        BY DEF IInv, WaitersWait, PlacesAgree
      <3> QED
        BY <1>1, <2>1, <3>1, <3>2, ArrivesLast
    <2>3. \/ ToSet(waiters') = {} /\ waiters' \in Seq(Requests)
          \/ /\ ToSet(waiters') = ToSet(waiters) \cup {i} /\ admitted' = admitted
             /\ \A a, b : Precedes(waiters', a, b)
                             <=> Precedes(waiters, a, b) \/ (a \in ToSet(waiters) /\ b = i)
      BY <1>3, EnqueueEffect
    <2>4. CASE ToSet(waiters') = {} /\ waiters' \in Seq(Requests)
      BY <2>4, Members DEF Precedes
    <2> QED
      BY <1>1, <2>1, <2>2, <2>3, <2>4 DEF LineOrder
  <1>4. ASSUME NEW i \in Requests, RejectTimeout(i)
        PROVE  /\ \A a, b : Precedes(waiters', a, b) => Precedes(sent', a, b)
               /\ \A a \in ToSet(admitted'), b \in ToSet(waiters') : Precedes(sent', a, b)
    <2>1. /\ Released' = Released /\ ToSet(waiters') \subseteq ToSet(waiters)
          /\ \A a, b : Precedes(waiters', a, b) => Precedes(waiters, a, b)
      BY <1>4, RejectEffect
    <2>2. admitted' = admitted
      BY <1>4 DEF RejectTimeout
    <2> QED
      BY <1>1, <2>1, <2>2 DEF LineOrder
  <1>5. ASSUME NEW i \in Requests, GivesBack(i)
        PROVE  FALSE
    BY <1>5, ReleaseEffect DEF GivesBack
  <1> QED
    BY <1>2, <1>3, <1>4, <1>5, ListSteps DEF TasksAreThemselves

-----------------------------------------------------------------------------
(* Sequences                                                               *)

\* A part of a sequence without repetitions.
LEMMA PartOf ==
    ASSUME NEW T, NEW s \in Seq(T), Distinct(s), NEW m \in Nat \ {0}, NEW n \in Nat,
           n <= Len(s)
    PROVE  /\ SubSeq(s, m, n) \in Seq(T)
           /\ Len(SubSeq(s, m, n)) = IF m <= n THEN n - m + 1 ELSE 0
           /\ Distinct(SubSeq(s, m, n))
           /\ ToSet(SubSeq(s, m, n)) = {s[i] : i \in m .. n}
           /\ \A a, b : Precedes(SubSeq(s, m, n), a, b) => Precedes(s, a, b)
  <1> DEFINE u == SubSeq(s, m, n)
             l == n - m + 1
  <1>1. Len(s) \in Nat /\ DOMAIN s = 1 .. Len(s) /\ \A i \in 1 .. Len(s) : s[i] \in T
    BY LenProperties, ElementOfSeq
  <1>2. \A i \in m .. n : i \in 1 .. Len(s)
    BY <1>1
  <1>3. /\ u \in Seq(T) /\ Len(u) = IF m <= n THEN n - m + 1 ELSE 0
        /\ \A i \in 1 .. l : u[i] = s[m + i - 1]
    BY <1>1, <1>2, SubSeqProperties
  <1> HIDE DEF u
  <1>4. \A i \in 1 .. Len(u) : i \in 1 .. l /\ m + i - 1 \in m .. n
    BY <1>3
  <1>5. \A i \in 1 .. Len(u) : u[i] = s[m + i - 1] /\ m + i - 1 \in 1 .. Len(s)
    BY <1>2, <1>3, <1>4
  <1>6. Distinct(u)
    <2> SUFFICES ASSUME NEW i \in 1 .. Len(u), NEW j \in 1 .. Len(u), u[i] = u[j]
                 PROVE  i = j
      BY DEF Distinct
    <2>1. m + i - 1 = m + j - 1
      BY <1>5 DEF Distinct
    <2> QED
      BY <1>3, <2>1
  <1>7. ToSet(u) = {s[i] : i \in m .. n}
    <2>1. \A x : x \in ToSet(u) <=> \E i \in 1 .. Len(u) : u[i] = x
      BY <1>3, Members
    <2>2. ASSUME NEW i \in m .. n PROVE s[i] \in ToSet(u)
      <3>1. i - m + 1 \in 1 .. Len(u) /\ m + (i - m + 1) - 1 = i
        BY <1>3
      <3> QED
        BY <1>5, <2>1, <3>1
    <2> QED
      BY <1>4, <1>5, <2>1, <2>2
  <1>8. ASSUME NEW a, NEW b, Precedes(u, a, b) PROVE Precedes(s, a, b)
    <2>1. PICK i, j \in 1 .. Len(u) : i < j /\ u[i] = a /\ u[j] = b
      BY <1>8 DEF Precedes
    <2>2. m + i - 1 < m + j - 1
      BY <1>3, <2>1
    <2> QED
      BY <1>5, <2>1, <2>2 DEF Precedes
  <1> QED
    BY <1>3, <1>6, <1>7, <1>8 DEF u

\* Its first n elements.
LEMMA FirstPart ==
    ASSUME NEW T, NEW s \in Seq(T), Distinct(s), NEW n \in Nat, n <= Len(s)
    PROVE  /\ SubSeq(s, 1, n) \in Seq(T)
           /\ Distinct(SubSeq(s, 1, n))
           /\ ToSet(SubSeq(s, 1, n)) = {s[i] : i \in 1 .. n}
           /\ IsFiniteSet(ToSet(SubSeq(s, 1, n)))
           /\ Cardinality(ToSet(SubSeq(s, 1, n))) = n
  <1> DEFINE one == 1
             u == SubSeq(s, one, n)
  <1>1. one \in Nat \ {0} /\ one = 1
    OBVIOUS
  <1> HIDE DEF one
  <1>2. /\ u \in Seq(T) /\ Len(u) = IF one <= n THEN n - one + 1 ELSE 0
        /\ Distinct(u) /\ ToSet(u) = {s[i] : i \in one .. n}
    BY <1>1, PartOf
  <1>3. Len(u) = n
    BY <1>1, <1>2
  <1> HIDE DEF u
  <1>4. IsFiniteSet(ToSet(u)) /\ Cardinality(ToSet(u)) = n
    BY <1>2, <1>3, DistinctSize
  <1> QED
    BY <1>1, <1>2, <1>4 DEF u

\* In a sequence without repetitions nobody stands before somebody who stands before him.
LEMMA OneOrder ==
    ASSUME NEW T, NEW s \in Seq(T), Distinct(s), NEW a, NEW b, Precedes(s, a, b)
    PROVE  ~Precedes(s, b, a) /\ a # b /\ a \in ToSet(s) /\ b \in ToSet(s)
  <1>1. Len(s) \in Nat /\ \A x : x \in ToSet(s) <=> \E i \in 1 .. Len(s) : s[i] = x
    BY Members
  <1>2. PICK i, j \in 1 .. Len(s) : i < j /\ s[i] = a /\ s[j] = b
    BY DEF Precedes
  <1>3. ASSUME NEW k \in 1 .. Len(s), NEW l \in 1 .. Len(s), k < l, s[k] = b, s[l] = a
        PROVE  FALSE
    <2>1. k = j /\ l = i
      BY <1>2, <1>3 DEF Distinct
    <2> QED
      BY <1>1, <1>2, <1>3, <2>1
  <1>4. a # b
    BY <1>1, <1>2 DEF Distinct
  <1> QED
    BY <1>1, <1>2, <1>3, <1>4 DEF Precedes

\* s consists of m members of A and of members of B, who stand behind.
Divided(s, A, B, m) ==
    /\ ToSet(s) = A \cup B /\ A \cap B = {}
    /\ Cardinality(A) = m
    /\ \A a \in A, b \in B : Precedes(s, a, b)

\* Then those of A are the first m.
LEMMA FrontPart ==
    ASSUME NEW T, NEW s \in Seq(T), Distinct(s), NEW A, NEW B, NEW m \in Nat,
           Divided(s, A, B, m)
    PROVE  /\ m <= Len(s)
           /\ {s[i] : i \in 1 .. m} = A
           /\ {s[i] : i \in m + 1 .. Len(s)} = B
  <1> USE DEF Divided
  <1>1. /\ Len(s) \in Nat /\ \A x : x \in ToSet(s) <=> \E i \in 1 .. Len(s) : s[i] = x
        /\ IsFiniteSet(ToSet(s)) /\ Cardinality(ToSet(s)) = Len(s)
    BY Members, DistinctSize
  <1>2. IsFiniteSet(A) /\ m <= Len(s)
    BY <1>1, FS_Subset
  <1>3. ASSUME NEW i \in 1 .. m PROVE s[i] \in A
    <2>0. i \in 1 .. Len(s)
      BY <1>1, <1>2
    <2> SUFFICES ASSUME s[i] \in B PROVE FALSE
      BY <1>1, <2>0
    <2> DEFINE k == i - 1
               u == SubSeq(s, 1, k)
    <2>1. k \in Nat /\ k <= Len(s) /\ k < m /\ i \in 1 .. Len(s)
      BY <1>1, <1>2
    <2> HIDE DEF k
    <2>2. /\ ToSet(u) = {s[j] : j \in 1 .. k}
          /\ IsFiniteSet(ToSet(u)) /\ Cardinality(ToSet(u)) = k
      BY <2>1, FirstPart
    <2> HIDE DEF u
    <2>5. A \subseteq ToSet(u)
      <3> SUFFICES ASSUME NEW a \in A PROVE a \in ToSet(u)
        OBVIOUS
      <3>1. PICK j, n \in 1 .. Len(s) : j < n /\ s[j] = a /\ s[n] = s[i]
        BY DEF Precedes
      <3>2. n = i
        BY <2>1, <3>1 DEF Distinct
      <3>3. j \in 1 .. k
        BY <1>1, <2>1, <3>1, <3>2 DEF k
      <3> QED
        BY <2>2, <3>1, <3>3
    <2>6. m <= k
      BY <2>2, <2>5, FS_Subset
    <2> QED
      BY <2>1, <2>6
  <1> DEFINE v == SubSeq(s, 1, m)
  <1>4. /\ ToSet(v) = {s[i] : i \in 1 .. m}
        /\ IsFiniteSet(ToSet(v)) /\ Cardinality(ToSet(v)) = m
    BY <1>2, FirstPart
  <1> HIDE DEF v
  <1>7. ToSet(v) = A
    <2>1. ToSet(v) \subseteq A
      BY <1>3, <1>4
    <2> QED
      BY <1>2, <1>4, <2>1, FS_Subset
  <1>8. ASSUME NEW i \in m + 1 .. Len(s) PROVE s[i] \in B
    <2>1. i \in 1 .. Len(s) /\ \A j \in 1 .. m : j \in 1 .. Len(s) /\ j # i
      BY <1>1, <1>2
    <2>2. s[i] \notin A
      BY <1>4, <1>7, <2>1 DEF Distinct
    <2> QED
      BY <1>1, <2>1, <2>2
  <1>9. ASSUME NEW b \in B PROVE \E i \in m + 1 .. Len(s) : s[i] = b
    <2>1. PICK i \in 1 .. Len(s) : s[i] = b
      BY <1>1
    <2>2. i \notin 1 .. m
      BY <1>3, <2>1
    <2>3. i \in m + 1 .. Len(s)
      BY <1>1, <2>2
    <2> QED
      BY <2>1, <2>3
  <1> QED
    BY <1>2, <1>4, <1>7, <1>8, <1>9

\* What is not kept makes no difference at the end.
LEMMA KeptAppend ==
    ASSUME NEW T, NEW q \in Seq(T), NEW x \in T, NEW S, x \notin S
    PROVE  Kept(Append(q, x), S) = Kept(q, S)
  <1> DEFINE u == Append(q, x)
             n == Len(q)
  <1>1. /\ n \in Nat /\ u \in Seq(T) /\ Len(u) = n + 1
        /\ \A i \in 1 .. n : u[i] = q[i]
        /\ u[n + 1] = x
    BY LenProperties, AppendProperties
  <1>2. PICK f : KeptUpTo(f, n, q, S) /\ Kept(q, S) = f[n]
    BY KeptIsSolution
  <1> HIDE DEF u, n
  <1>3. PICK g : KeptUpTo(g, n + 1, u, S) /\ Kept(u, S) = g[n + 1]
    BY <1>1, KeptIsSolution
  <1>4. \A i \in 0 .. n : f[i] = IF i = 0 THEN <<>>
                                 ELSE IF q[i] \in S THEN Append(f[i - 1], q[i]) ELSE f[i - 1]
    BY <1>2 DEF KeptUpTo
  <1>5. \A i \in 0 .. n + 1 : g[i] = IF i = 0 THEN <<>>
                                 ELSE IF u[i] \in S THEN Append(g[i - 1], u[i]) ELSE g[i - 1]
    BY <1>3 DEF KeptUpTo
  <1> DEFINE Same == {i \in Nat : f[i] = g[i]}
  <1>6. 0 \in Same
    BY <1>1, <1>4, <1>5
  <1>7. ASSUME NEW i \in 0 .. n - 1, i \in Same PROVE i + 1 \in Same
    <2>1. /\ i + 1 \in 0 .. n /\ i + 1 \in 0 .. n + 1 /\ i + 1 \in 1 .. n
          /\ i + 1 # 0 /\ i + 1 - 1 = i /\ i + 1 \in Nat
      BY <1>1
    <2>2. f[i + 1] = IF q[i + 1] \in S THEN Append(f[i], q[i + 1]) ELSE f[i]
      BY <1>4, <2>1
    <2>3. g[i + 1] = IF u[i + 1] \in S THEN Append(g[i], u[i + 1]) ELSE g[i]
      BY <1>5, <2>1
    <2>4. u[i + 1] = q[i + 1] /\ f[i] = g[i]
      BY <1>1, <1>7, <2>1
    <2> QED
      BY <2>1, <2>2, <2>3, <2>4
  <1>8. n \in Same
    <2> HIDE DEF Same
    <2>1. 0 .. n \subseteq Same
      BY <1>1, <1>6, <1>7, UpToInduction
    <2> QED
      BY <1>1, <2>1
  <1>9. g[n + 1] = g[n]
    <2>1. n + 1 \in 0 .. n + 1 /\ n + 1 # 0 /\ n + 1 - 1 = n
      BY <1>1
    <2>2. g[n + 1] = IF u[n + 1] \in S THEN Append(g[n], u[n + 1]) ELSE g[n]
      BY <1>1, <1>5, <2>1
    <2> QED
      BY <1>1, <2>2
  <1> QED
    BY <1>2, <1>3, <1>8, <1>9 DEF u

-----------------------------------------------------------------------------
(* The full queue                                                          *)

\* The submitted tasks that can be admitted, in the order in which they were sent.
LEMMA SubmissionsOrder ==
    ASSUME TasksAreThemselves
    PROVE  /\ Submissions \in Seq(Requests) /\ Distinct(Submissions)
           /\ ToSet(Submissions) = ToSet(sent) \cap Admittable
           /\ \A a, b : Precedes(Submissions, a, b) => Precedes(sent, a, b)
           /\ \A a, b \in Admittable : Precedes(sent, a, b) => Precedes(Submissions, a, b)
           /\ sent \in Seq(Requests) /\ ToSet(sent) \subseteq DOMAIN Tasks
  <1>1. sent \in Seq(DOMAIN Tasks) /\ Distinct(sent) /\ DOMAIN Tasks \subseteq Requests
    BY WorkloadFacts DEF TasksAreThemselves
  <1>2. sent \in Seq(Requests) /\ ToSet(sent) \subseteq DOMAIN Tasks
    BY <1>1, SeqMonotonic, Members
  <1> QED
    BY <1>1, <1>2, KeptOrder DEF Submissions

\* Who is in the list or has a slot is an admittable task of the scenario.
LEMMA OnlyAdmittable ==
    ASSUME IInv, TasksAreThemselves
    PROVE  /\ ToSet(waiters) \cup ToSet(admitted) \subseteq Admittable \cap ToSet(sent)
           /\ Admittable \subseteq Requests
           /\ \A i \in ToSet(waiters) : priority[i] = TaskPriority[i]
  <1>1. DOMAIN Tasks \subseteq Requests /\ ToSet(sent) \subseteq DOMAIN Tasks
    BY WorkloadFacts, SubmissionsOrder DEF TasksAreThemselves
  <1>2. ToSet(waiters) \cup ToSet(admitted) \subseteq Requests
    BY Queued
  <1>3. \A i \in ToSet(waiters) \cup ToSet(admitted) :
             phase[i] # "outside" /\ priority[i] \in Valid
    BY DEF IInv, WaitersWait, PlacesAgree
  <1> QED
    BY <1>1, <1>2, <1>3 DEF TasksAreThemselves, Admittable, TaskPriority

\* The queue is as long as expected only if every task has come and no slot has been
\* released since the scenario began: so no release is missing from the count.
LEMMA QueueIsEverybody ==
    ASSUME IInv, TasksAreThemselves, AdmittedOnce, Staged, QueueFilled
    PROVE  /\ Released = {} /\ Len(admitted) = MaxActive
           /\ Cardinality(ToSet(admitted)) = MaxActive
           /\ ToSet(waiters) \cup ToSet(admitted) = Admittable
           /\ ToSet(waiters) \cap ToSet(admitted) = {}
  <1>1. IsFiniteSet(Admittable) /\ Cardinality(Admittable) = 4
    <2>1. Admittable = 1 .. 4
      BY WorkloadFacts DEF TasksAreThemselves
    <2>2. IsFiniteSet(1 .. 4) /\ Cardinality(1 .. 4) = 4
      <3>1. \A n \in Int : n >= 1 => IsFiniteSet(1 .. n) /\ Cardinality(1 .. n) = n - 1 + 1
        BY FS_Interval
      <3>2. 4 \in Int /\ 4 >= 1 /\ 4 - 1 + 1 = 4
        OBVIOUS
      <3> QED
        BY <3>1, <3>2
    <2> QED
      BY <2>1, <2>2
  <1>2. Len(waiters) = 4 - MaxActive /\ Len(waiters) # 0
    BY <1>1, StubAssumption DEF QueueFilled, ExpectedQueue
  <1>3. /\ IsFiniteSet(ToSet(waiters)) /\ Cardinality(ToSet(waiters)) = 4 - MaxActive
        /\ IsFiniteSet(HeldBy) /\ HeldBy \cap ToSet(waiters) = {}
        /\ HeldBy = ToSet(admitted) \ Released
    BY <1>2, Queued
  <1>4. Cardinality(HeldBy) = MaxActive
    <2>1. waiters # <<>>
      BY <1>2, EmptySeq
    <2> QED
      BY <2>1 DEF IInv, SlotsCounted
  <1>5. ToSet(waiters) \cup HeldBy = Admittable
    <2> DEFINE U == ToSet(waiters) \cup HeldBy
    <2>1. U \subseteq Admittable
      BY <1>3, OnlyAdmittable
    <2>2. ToSet(waiters) \cap HeldBy = {} /\ Cardinality({}) = 0
      BY <1>3, FS_EmptySet
    <2>3. /\ IsFiniteSet(U)
          /\ Cardinality(U) = Cardinality(ToSet(waiters)) + Cardinality(HeldBy)
                                 - Cardinality(ToSet(waiters) \cap HeldBy)
      BY <1>3, FS_Union
    <2>4. Cardinality(U) = 4
      BY <1>3, <1>4, <2>2, <2>3, StubAssumption
    <2> HIDE DEF U
    <2>5. U = Admittable
      BY <1>1, <2>1, <2>4, FS_Subset
    <2> QED
      BY <2>5 DEF U
  <1>6. ToSet(waiters) \cap ToSet(admitted) = {}
    BY DEF IInv, WaitersWait
  <1>7. Released = {} /\ HeldBy = ToSet(admitted)
    <2>1. ToSet(admitted) \subseteq Admittable
      BY OnlyAdmittable
    <2> QED
      BY <1>3, <1>5, <1>6, <2>1 DEF AdmittedOnce
  <1>8. Len(admitted) = MaxActive
    BY <1>4, <1>7, DistinctSize DEF AdmittedOnce, IInv, TypeOK
  <1> QED
    BY <1>4, <1>5, <1>6, <1>7, <1>8

\* The ranked submissions are those behind the first, in the order of their class.
Waiting == SubSeq(Submissions, MaxActive + 1, Len(Submissions))

LEMMA RankedOrder ==
    ASSUME TasksAreThemselves, MaxActive <= Len(Submissions)
    PROVE  /\ Ranked \in Seq(Requests) /\ Distinct(Ranked)
           /\ ToSet(Ranked) = {Submissions[i] : i \in MaxActive + 1 .. Len(Submissions)}
           /\ \A a, b \in ToSet(Ranked) :
                 Precedes(Ranked, a, b) <=> Before(TaskPriority, Waiting, a, b)
           /\ \A a, b : Precedes(Waiting, a, b) => Precedes(Submissions, a, b)
  <1>1. /\ Submissions \in Seq(Requests) /\ Distinct(Submissions)
        /\ ToSet(Submissions) \subseteq Admittable
        /\ Len(Submissions) \in Nat /\ MaxActive + 1 \in Nat \ {0}
    BY SubmissionsOrder, Members, StubAssumption
  <1>2. /\ Waiting \in Seq(Requests) /\ Distinct(Waiting)
        /\ ToSet(Waiting) = {Submissions[i] : i \in MaxActive + 1 .. Len(Submissions)}
        /\ \A a, b : Precedes(Waiting, a, b) => Precedes(Submissions, a, b)
    BY <1>1, PartOf DEF Waiting
  <1>3. ToSet(Waiting) \subseteq Admittable
    <2>1. \A i \in MaxActive + 1 .. Len(Submissions) : i \in 1 .. Len(Submissions)
      BY <1>1, StubAssumption
    <2>2. \A i \in 1 .. Len(Submissions) : Submissions[i] \in ToSet(Submissions)
      BY <1>1, Members
    <2> QED
      BY <1>1, <1>2, <2>1, <2>2
  <1>4. Queueable(TaskPriority, Waiting)
    <2>1. DOMAIN Tasks \subseteq Requests
      BY WorkloadFacts DEF TasksAreThemselves
    <2>2. \A i \in Admittable : TaskPriority[i] \in Valid
      BY <2>1 DEF TaskPriority, Admittable
    <2> QED
      BY <1>2, <1>3, <2>2 DEF Queueable
  <1>5. Ranked = Ranks(TaskPriority, Waiting)
    <2>1. DOMAIN Tasks \subseteq Requests
      BY WorkloadFacts DEF TasksAreThemselves
    <2>2. /\ {i \in DOMAIN Tasks : Tasks[i].priority = "interactive"}
                = {w \in Requests : TaskPriority[w] = "interactive"}
          /\ {i \in DOMAIN Tasks : Tasks[i].priority = "background"}
                = {w \in Requests : TaskPriority[w] = "background"}
      BY <2>1 DEF TaskPriority
    <2> QED
      BY <2>2 DEF Ranked, Ranks, Waiting
  <1>6. /\ Ranks(TaskPriority, Waiting) \in Seq(Requests)
        /\ ToSet(Ranks(TaskPriority, Waiting)) = ToSet(Waiting)
        /\ Distinct(Ranks(TaskPriority, Waiting))
        /\ \A a, b \in ToSet(Waiting) :
              Precedes(Ranks(TaskPriority, Waiting), a, b)
                <=> Before(TaskPriority, Waiting, a, b)
    BY <1>4, RanksOrder
  <1> QED
    BY <1>2, <1>5, <1>6

\* When the full queue is observed, the client's idea of it is right.
LEMMA ObservedLine ==
    ASSUME IInv, TasksAreThemselves, AdmittedOnce, LineOrder, Staged, QueueFilled
    PROVE  InLine
  <1>1. /\ Released = {} /\ Len(admitted) = MaxActive
        /\ Cardinality(ToSet(admitted)) = MaxActive
        /\ ToSet(waiters) \cup ToSet(admitted) = Admittable
        /\ ToSet(waiters) \cap ToSet(admitted) = {}
    BY QueueIsEverybody
  <1>2. /\ Submissions \in Seq(Requests) /\ Distinct(Submissions)
        /\ ToSet(Submissions) = Admittable
        /\ \A a, b : Precedes(Submissions, a, b) => Precedes(sent, a, b)
        /\ \A a, b \in Admittable : Precedes(sent, a, b) => Precedes(Submissions, a, b)
    BY <1>1, SubmissionsOrder, OnlyAdmittable
  <1>3. MaxActive \in Nat /\ Len(Submissions) \in Nat
    BY <1>2, StubAssumption, Members
  <1>4. /\ MaxActive <= Len(Submissions)
        /\ {Submissions[i] : i \in 1 .. MaxActive} = ToSet(admitted)
        /\ {Submissions[i] : i \in MaxActive + 1 .. Len(Submissions)} = ToSet(waiters)
    <2> DEFINE A == ToSet(admitted)
               B == ToSet(waiters)
    <2>1. \A a \in A, b \in B : Precedes(Submissions, a, b)
      BY <1>1, <1>2 DEF LineOrder
    <2>2. ToSet(Submissions) = A \cup B /\ A \cap B = {} /\ Cardinality(A) = MaxActive
      BY <1>1, <1>2
    <2>0. Divided(Submissions, A, B, MaxActive)
      BY <2>1, <2>2 DEF Divided
    <2> HIDE DEF A, B
    <2>3. /\ MaxActive <= Len(Submissions)
          /\ {Submissions[i] : i \in 1 .. MaxActive} = A
          /\ {Submissions[i] : i \in MaxActive + 1 .. Len(Submissions)} = B
      BY <1>2, <1>3, <2>0, FrontPart
    <2> QED
      BY <2>3 DEF A, B
  <1>5. {admitted[i] : i \in 1 .. MaxActive} = ToSet(Immediate)
    <2>1. ToSet(Immediate) = {Submissions[i] : i \in 1 .. MaxActive}
      BY <1>2, <1>3, <1>4, FirstPart DEF Immediate
    <2>2. {admitted[i] : i \in 1 .. MaxActive} = ToSet(admitted)
      BY <1>1, Members DEF IInv, TypeOK
    <2> QED
      BY <1>4, <2>1, <2>2
  <1>6. /\ Ranked \in Seq(Requests) /\ ToSet(Ranked) = ToSet(waiters)
        /\ \A a, b \in ToSet(Ranked) :
              Precedes(Ranked, a, b) <=> Before(TaskPriority, Waiting, a, b)
        /\ \A a, b : Precedes(Waiting, a, b) => Precedes(Submissions, a, b)
    BY <1>4, RankedOrder
  <1>7. /\ Len(Ranked) \in Nat
        /\ \A x : x \in ToSet(Ranked) <=> \E i \in 1 .. Len(Ranked) : Ranked[i] = x
    BY <1>6, Members
  <1>8. \A k \in 1 .. Len(Ranked) : MaxActive + k > Len(admitted)
    BY <1>1, <1>3, <1>7
  <1>9. ASSUME NEW a \in ToSet(waiters), NEW b \in ToSet(waiters), Precedes(Ranked, a, b)
        PROVE  Before(TaskPriority, waiters, a, b)
    <2>1. ASSUME Precedes(Waiting, a, b) PROVE Precedes(waiters, a, b)
      <3>1. Precedes(sent, a, b)
        BY <1>2, <1>6, <2>1
      <3>2. ~Precedes(sent, b, a) /\ a # b
        BY <3>1, OneOrder DEF TasksAreThemselves
      <3>3. ~Precedes(waiters, b, a)
        BY <1>1, <3>2 DEF LineOrder
      <3>4. waiters \in Seq(Requests)
        BY DEF IInv, TypeOK
      <3>5. PICK i, j \in 1 .. Len(waiters) : waiters[i] = a /\ waiters[j] = b
        BY <3>4, Members
      <3>6. Len(waiters) \in Nat /\ i # j /\ ~(j < i)
        BY <3>2, <3>3, <3>4, <3>5, Members DEF Precedes
      <3>7. i < j
        BY <3>6
      <3> QED
        BY <3>5, <3>7 DEF Precedes
    <2> QED
      BY <1>6, <1>9, <2>1 DEF Before
  <1>10. MaxActive <= Len(admitted)
    BY <1>1, <1>3
  <1>11. ~ \E k \in 1 .. Len(Ranked) : MaxActive + k <= Len(admitted)
    BY <1>1, <1>3, <1>7
  <1> QED
    BY <1>5, <1>6, <1>7, <1>8, <1>9, <1>10, <1>11 DEF InLine

-----------------------------------------------------------------------------
(* From the full queue to the end                                          *)

\* How the orchestrator gets behind the observation, and behind the victim's first frame.
LEMMA ObservationSteps ==
    ASSUME Orchestrate \/ WatcherReads \/ WatcherStamps
    PROVE  /\ Staged /\ step' \in FilledSteps =>
                 \/ step \in FilledSteps
                 \/ step = "stage2" /\ QueueFilled /\ UNCHANGED <<vars, sent, scenario>>
           /\ scenario = "cancel" /\ step' \in {"count", "stage2"} \cup FilledSteps =>
                 step \in {"count", "stage2"} \cup FilledSteps \/ answer[Victim] # "none"
  <1> USE DEF At, Proceed, FilledSteps
  <1>1. ASSUME NEW i \in DOMAIN Tasks, Submit(i)
        PROVE  step' = step
    BY <1>1 DEF Submit
  <1>2. CASE WatcherReads \/ WatcherStamps
    BY <1>2 DEF WatcherReads, WatcherStamps
  <1>3. CASE PairSubmitted \/ SlotsOccupied
    BY <1>3 DEF PairSubmitted, SlotsOccupied, Staged
  <1>4. CASE CheckHold
    BY <1>4 DEF CheckHold, FirstContent, Abandon
  <1>5. CASE CountReleases \/ StampObserved \/ RefusalSeen \/ AbortVictim
               \/ MeasureRelease \/ Collect
    BY <1>5 DEF CountReleases, StampObserved, RefusalSeen, AbortVictim, MeasureRelease, Collect
  <1>6. CASE PrepareAbort
    BY <1>6 DEF PrepareAbort, Abandon
  <1>7. CASE ObserveQueue
    BY <1>7 DEF ObserveQueue, Abandon, Quiet
  <1> QED
    BY <1>1, <1>2, <1>3, <1>4, <1>5, <1>6, <1>7 DEF Orchestrate

LEMMA VictimStep ==
    ASSUME IInv, TasksAreThemselves, AnswersAgree, VictimHeard, [ScenarioNext]_allVars
    PROVE  VictimHeard'
  <1>1. 1 \in Requests /\ (answer[1] # "none" => answer'[1] # "none")
    BY TasksAssumption, AnswersStep
  <1>2. CASE UNCHANGED clientVars
    BY <1>1, <1>2 DEF VictimHeard, clientVars, Victim
  <1>3. CASE Orchestrate \/ WatcherReads \/ WatcherStamps
    BY <1>1, <1>3, ClientSteps, ObservationSteps DEF VictimHeard, Victim
  <1> QED
    BY <1>2, <1>3, ServerSteps DEF ScenarioNext, allVars, TasksAreThemselves

\* After the observation the client derives its admissions from the same submissions: only
\* a request that is to be refused is still to be sent.
LEMMA SubmissionsStay ==
    ASSUME TasksAreThemselves, step \in FilledSteps, [ScenarioNext]_allVars
    PROVE  scenario' = scenario /\ Submissions' = Submissions
  <1>1. CASE UNCHANGED clientVars
    BY <1>1 DEF clientVars, Submissions, Admittable, Tasks
  <1>2. CASE Orchestrate \/ WatcherReads \/ WatcherStamps
    <2>1. scenario' = scenario /\ (sent' = sent \/ \E i \in DOMAIN Tasks : Submit(i))
      BY <1>2, ClientSteps
    <2>2. Admittable' = Admittable
      BY <2>1 DEF Admittable, Tasks
    <2>3. Submissions' = Kept(sent', Admittable)
      BY <2>2 DEF Submissions
    <2>4. ASSUME NEW i \in DOMAIN Tasks, Submit(i)
          PROVE  Submissions' = Submissions
      <3>1. sent' = Append(sent, i) /\ i \notin Admittable
        BY <2>4 DEF Submit, FilledSteps
      <3>2. Kept(Append(sent, i), Admittable) = Kept(sent, Admittable)
        BY <3>1, KeptAppend DEF TasksAreThemselves
      <3> QED
        BY <2>3, <3>1, <3>2 DEF Submissions
    <2> QED
      BY <2>1, <2>3, <2>4 DEF Submissions
  <1> QED
    BY <1>1, <1>2, ServerSteps DEF ScenarioNext, allVars, TasksAreThemselves

LEMMA DerivationStays ==
    ASSUME scenario' = scenario, Submissions' = Submissions
    PROVE  Ranked' = Ranked /\ Immediate' = Immediate /\ TaskPriority' = TaskPriority
  BY DEF Ranked, Immediate, TaskPriority, Tasks

\* Nothing that concerns the client's derivation happens in the list or the slots.
LEMMA LineRests ==
    ASSUME InLine, scenario' = scenario, Submissions' = Submissions, admitted' = admitted,
           ToSet(waiters') = ToSet(waiters),
           \A a, b \in ToSet(waiters) : Precedes(waiters, a, b) => Precedes(waiters', a, b)
    PROVE  InLine'
  <1>1. Ranked' = Ranked /\ Immediate' = Immediate /\ TaskPriority' = TaskPriority
    BY DerivationStays
  <1>2. \A a, b \in ToSet(waiters') :
            Precedes(Ranked, a, b) => Before(TaskPriority, waiters', a, b)
    BY DEF InLine, Before
  <1> QED
    BY <1>1, <1>2 DEF InLine

\* A released slot goes to the next of the ranked submissions.
LEMMA LineMoves ==
    ASSUME IInv, TasksAreThemselves, InLine, MaxActive <= Len(Submissions),
           scenario' = scenario, Submissions' = Submissions,
           NEW i \in Requests, GivesBack(i)
    PROVE  InLine'
  <1>1. Ranked' = Ranked /\ Immediate' = Immediate /\ TaskPriority' = TaskPriority
    BY DerivationStays
  <1>2. /\ Ranked \in Seq(Requests) /\ Distinct(Ranked) /\ Len(Ranked) \in Nat
        /\ MaxActive \in Nat /\ admitted \in Seq(Requests) /\ Len(admitted) \in Nat
        /\ waiters \in Seq(Requests)
    BY RankedOrder, Members, StubAssumption DEF IInv, TypeOK
  <1>3. PICK W \in SUBSET ToSet(waiters) : HandsOver(i, W)
    <2>1. PICK f \in {"cancelled", "finished"} : Release(i, f)
      BY DEF GivesBack
    <2> QED
      BY <2>1, ReleaseEffect DEF GivesBack
  <1>4. CASE ToSet(waiters) = {}
    <2>1. W = {} /\ admitted' = admitted /\ ToSet(waiters') = ToSet(waiters)
      BY <1>3, <1>4 DEF HandsOver, Grants
    <2> QED
      BY <1>4, <2>1, LineRests
  <1>5. CASE ToSet(waiters) # {}
    <2>1. PICK w \in ToSet(waiters) :
             W = {w} /\ \A a \in ToSet(waiters) : ~Before(priority, waiters, a, w)
      BY <1>3, <1>5 DEF HandsOver
    <2>2. /\ admitted' = Append(admitted, w) /\ w \in Requests
          /\ ToSet(waiters') = ToSet(waiters) \ {w}
          /\ \A a, b : Precedes(waiters', a, b) <=> a # w /\ b # w /\ Precedes(waiters, a, b)
      BY <1>2, <1>3, <2>1, Members DEF HandsOver, Grants
    <2> DEFINE n == Len(admitted)
    <2>3. /\ Len(admitted') = n + 1 /\ admitted'[n + 1] = w
          /\ \A j \in 1 .. n : admitted'[j] = admitted[j]
      BY <1>2, <2>2, AppendProperties
    <2>4. /\ n \in Nat /\ MaxActive <= n
          /\ {admitted[j] : j \in 1 .. MaxActive} = ToSet(Immediate)
          /\ \A k \in 1 .. Len(Ranked) :
                IF MaxActive + k <= n THEN admitted[MaxActive + k] = Ranked[k]
                ELSE Ranked[k] \in ToSet(waiters)
          /\ \A v \in ToSet(waiters) :
                \E k \in 1 .. Len(Ranked) : Ranked[k] = v /\ MaxActive + k > n
          /\ \A a, b \in ToSet(waiters) :
                Precedes(Ranked, a, b) => Before(TaskPriority, waiters, a, b)
      BY <1>2 DEF InLine
    <2> HIDE DEF n
    <2>5. \A a, b \in ToSet(waiters) :
              Before(TaskPriority, waiters, a, b) <=> Before(priority, waiters, a, b)
      BY OnlyAdmittable DEF Before
    <2>6. PICK k \in 1 .. Len(Ranked) : Ranked[k] = w /\ MaxActive + k > n
      BY <2>4
    <2>7. MaxActive + k = n + 1
      <3> DEFINE l == n + 1 - MaxActive
      <3>1. l \in 1 .. Len(Ranked) /\ MaxActive + l > n /\ l <= k
        BY <1>2, <2>4, <2>6
      <3>2. Ranked[l] \in ToSet(waiters)
        <4>1. ~(MaxActive + l <= n)
          BY <1>2, <2>4
        <4> QED
          BY <2>4, <3>1, <4>1
      <3>3. ~(l < k)
        <4> SUFFICES ASSUME l < k PROVE FALSE
          OBVIOUS
        <4>1. Precedes(Ranked, Ranked[l], w)
          BY <2>6, <3>1 DEF Precedes
        <4>2. Before(priority, waiters, Ranked[l], w)
          BY <2>4, <2>5, <3>2, <4>1
        <4> QED
          BY <2>1, <3>2, <4>2
      <3> QED
        BY <1>2, <2>4, <3>1, <3>3
    <2>8. MaxActive <= Len(admitted')
      BY <1>2, <2>3, <2>4
    <2>9. {admitted'[j] : j \in 1 .. MaxActive} = ToSet(Immediate)
      <3>1. \A j \in 1 .. MaxActive : j \in 1 .. n
        BY <1>2, <2>4
      <3> QED
        BY <2>3, <2>4, <3>1
    <2>10. ASSUME NEW m \in 1 .. Len(Ranked)
           PROVE  IF MaxActive + m <= Len(admitted') THEN admitted'[MaxActive + m] = Ranked[m]
                  ELSE Ranked[m] \in ToSet(waiters')
      <3>1. CASE MaxActive + m <= n
        <4>1. MaxActive + m \in 1 .. n /\ MaxActive + m <= Len(admitted')
          BY <1>2, <2>3, <2>4, <3>1
        <4> QED
          BY <2>3, <2>4, <3>1, <4>1
      <3>2. CASE MaxActive + m = n + 1
        <4>1. m = k /\ MaxActive + m <= Len(admitted')
          BY <1>2, <2>3, <2>4, <2>7, <3>2
        <4> QED
          BY <2>3, <2>6, <3>2, <4>1
      <3>3. CASE MaxActive + m > n + 1
        <4>1. ~(MaxActive + m <= n) /\ ~(MaxActive + m <= Len(admitted')) /\ m # k
          BY <1>2, <2>3, <2>4, <2>7, <3>3
        <4>2. Ranked[m] # w /\ Ranked[m] \in ToSet(waiters)
          BY <1>2, <2>4, <2>6, <4>1 DEF Distinct
        <4> QED
          BY <2>2, <4>1, <4>2
      <3>4. MaxActive + m <= n \/ MaxActive + m = n + 1 \/ MaxActive + m > n + 1
        <4>1. m \in Int /\ MaxActive \in Int /\ n \in Int
          BY <1>2, <2>4
        <4> QED
          BY <4>1
      <3> QED
        BY <3>1, <3>2, <3>3, <3>4
    <2>11. ASSUME NEW v \in ToSet(waiters')
           PROVE  \E m \in 1 .. Len(Ranked) : Ranked[m] = v /\ MaxActive + m > Len(admitted')
      <3>1. v \in ToSet(waiters) /\ v # w
        BY <2>2
      <3>2. PICK m \in 1 .. Len(Ranked) : Ranked[m] = v /\ MaxActive + m > n
        BY <2>4, <3>1
      <3>3. m # k
        BY <2>6, <3>1, <3>2
      <3>4. MaxActive + m > n + 1
        BY <1>2, <2>4, <2>7, <3>2, <3>3
      <3> QED
        BY <2>3, <3>2, <3>4
    <2>12. ASSUME NEW a \in ToSet(waiters'), NEW b \in ToSet(waiters'), Precedes(Ranked, a, b)
           PROVE  Before(TaskPriority, waiters', a, b)
      <3>1. a \in ToSet(waiters) /\ b \in ToSet(waiters) /\ a # w /\ b # w
        BY <2>2
      <3>2. Before(TaskPriority, waiters, a, b)
        BY <2>4, <2>12, <3>1
      <3> QED
        BY <2>2, <3>1, <3>2 DEF Before
    <2> QED
      BY <1>1, <2>8, <2>9, <2>10, <2>11, <2>12 DEF InLine
  <1> QED
    BY <1>4, <1>5

\* No thread that timed out in the queue is forgotten: its client has the 503, unless it
\* is the victim's.
LEMMA LostIsSeen ==
    ASSUME IInv, TasksAreThemselves, NEW i \in ToSet(waiters), RejectTimeout(i),
           UNCHANGED clientVars,
           scenario = "cancel" => Victim \in ToSet(admitted)
    PROVE  ~NobodyLost'
  <1>1. i \in Admittable /\ i \in Requests /\ ~(scenario = "cancel" /\ i = Victim)
    BY OnlyAdmittable DEF IInv, WaitersWait
  <1>2. i \notin gone
    BY <1>1 DEF TasksAreThemselves
  <1>3. answer'[i] = "503"
    BY <1>1, <1>2 DEF RejectTimeout, Send, IInv, TypeOK
  <1>4. Admittable' = Admittable /\ scenario' = scenario
    BY DEF clientVars, Admittable, Tasks
  <1> QED
    BY <1>1, <1>3, <1>4 DEF NobodyLost

\* When every admittable task has come, four of them have been submitted.
LEMMA AllSubmitted ==
    ASSUME TasksAreThemselves, Staged,
           \A i \in Admittable : phase[i] \notin {"outside", "received"}
    PROVE  MaxActive <= Len(Submissions)
  <1>1. Admittable = 1 .. 4 /\ Admittable \subseteq Requests
    BY WorkloadFacts DEF TasksAreThemselves, Admittable
  <1>2. Admittable \subseteq ToSet(sent)
    BY <1>1 DEF TasksAreThemselves
  <1>3. Submissions \in Seq(Requests) /\ Distinct(Submissions) /\ ToSet(Submissions) = 1 .. 4
    BY <1>1, <1>2, SubmissionsOrder
  <1>4. Cardinality(1 .. 4) = 4
    <2>1. \A n \in Int : n >= 1 => Cardinality(1 .. n) = n - 1 + 1
      BY FS_Interval
    <2>2. 4 \in Int /\ 4 >= 1 /\ 4 - 1 + 1 = 4
      OBVIOUS
    <2> QED
      BY <2>1, <2>2
  <1>5. Len(Submissions) = 4
    BY <1>3, <1>4, DistinctSize
  <1> QED
    BY <1>5, StubAssumption

\* Once the full queue has been observed, the server goes on as the client derives.
LEMMA FilledStep ==
    ASSUME ScenarioInv, [ScenarioNext]_allVars
    PROVE  AllArrived'
  <1> USE DEF ScenarioInv
  <1>1. scenario \in DOMAIN Workload /\ Admittable \subseteq Requests
        /\ phase \in [Requests -> Phases]
    BY OnlyAdmittable DEF TasksAreThemselves, IInv, TypeOK
  <1>2. /\ \A q \in Requests : answer[q] = "503" => answer'[q] = "503"
        /\ 1 \in Requests
    BY AnswersStep, TasksAssumption
  <1>3. ASSUME Staged, step = "stage2", QueueFilled, UNCHANGED <<vars, sent, scenario>>
        PROVE  AllArrived'
    <2>1. InLine
      BY <1>3, ObservedLine
    <2>2. UNCHANGED <<waiters, admitted, phase, answer>> /\ Submissions' = Submissions
          /\ Admittable' = Admittable
      BY <1>3 DEF vars, Submissions, Admittable, Tasks
    <2>3. InLine'
      BY <1>3, <2>1, <2>2, LineRests
    <2>4. ToSet(waiters) \cup ToSet(admitted) = Admittable
      BY <1>3, QueueIsEverybody
    <2>5. \A i \in Admittable : phase[i] \notin {"outside", "received"}
      BY <2>4 DEF IInv, WaitersWait, PlacesAgree
    <2>6. scenario = "cancel" => Victim \in ToSet(admitted)
      <3> SUFFICES ASSUME scenario = "cancel" PROVE 1 \in ToSet(admitted)
        BY DEF Victim
      <3>1. 1 \in Admittable
        <4>1. Admittable = 1 .. 4
          BY <1>1, <1>3, WorkloadFacts
        <4> QED
          BY <4>1
      <3>2. answer[1] # "none"
        BY <1>3 DEF VictimHeard, Victim
      <3>3. 1 \notin ToSet(waiters)
        BY <1>2, <3>2 DEF AnswersAgree, IInv, WaitersWait
      <3> QED
        BY <2>4, <3>1, <3>3
    <2> QED
      BY <1>3, <2>2, <2>3, <2>5, <2>6 DEF AllArrived
  <1> SUFFICES ASSUME Staged, step \in FilledSteps PROVE AllArrived'
    <2>1. Staged' => Staged
      BY <1>1, ClientSteps, ServerSteps DEF ScenarioNext, allVars, clientVars, Staged
    <2>2. CASE Orchestrate \/ WatcherReads \/ WatcherStamps
      BY <1>3, <2>1, <2>2, ObservationSteps DEF AllArrived
    <2>3. CASE UNCHANGED clientVars
      BY <2>1, <2>3 DEF AllArrived, clientVars
    <2> QED
      BY <1>1, <2>2, <2>3, ServerSteps DEF ScenarioNext, allVars, AllArrived
  <1>4. /\ \A i \in Admittable : phase[i] \notin {"outside", "received"}
        /\ scenario = "cancel" => Victim \in ToSet(admitted)
        /\ NobodyLost => InLine
    BY DEF AllArrived
  <1>5. scenario' = scenario /\ Submissions' = Submissions /\ Admittable' = Admittable
    BY SubmissionsStay DEF Admittable, Tasks
  <1>6. MaxActive <= Len(Submissions)
    BY <1>4, AllSubmitted
  <1>7. \A i \in Admittable : phase'[i] \notin {"outside", "received"}
    <2>1. CASE UNCHANGED phase
      BY <1>4, <2>1
    <2>2. CASE ServerStep
      <3>1. PICK i \in DOMAIN Tasks : Arrives(i) \/ Thread(i)
        BY <1>1, <2>2, ServerSteps
      <3>2. i \in Requests
        BY <1>1, WorkloadFacts
      <3>3. CASE Arrives(i)
        <4>1. phase[i] = "outside" /\ phase' = [phase EXCEPT ![i] = "received"]
          BY <3>3 DEF Arrives, Connect, Goto
        <4> QED
          BY <1>1, <1>4, <4>1
      <3>4. CASE Thread(i)
        <4>1. PICK p \in Phases, a \in {"none", "partial", "complete", "400", "429", "503"} :
                 Moves(i, p, a)
          BY <3>2, <3>4, ThreadMoves DEF IInv
        <4> QED
          BY <1>1, <1>4, <4>1 DEF Moves
      <3> QED
        BY <3>1, <3>3, <3>4
    <2> QED
      BY <2>1, <2>2, ClientSteps DEF ScenarioNext, allVars, vars, AbortVictim
  <1>8. NobodyLost' => NobodyLost
    BY <1>1, <1>2, <1>5 DEF NobodyLost
  <1>9. /\ ToSet(admitted) \subseteq ToSet(admitted')
        /\ NobodyLost' => InLine'
    <2>1. ASSUME UNCHANGED <<waiters, admitted, records>>
          PROVE  NobodyLost' => InLine'
      BY <1>4, <1>5, <1>8, <2>1, LineRests
    <2>2. ASSUME NEW i \in DOMAIN Tasks, Enqueue(i)
          PROVE  FALSE
      <3>1. i \in Requests /\ phase[i] = "received" /\ priority[i] \in Valid
        BY <1>1, <2>2, WorkloadFacts DEF Enqueue
      <3>2. i \in Admittable
        BY <3>1 DEF Admittable, TasksAreThemselves
      <3> QED
        BY <1>4, <3>1, <3>2
    <2>3. ASSUME NEW i \in Requests, RejectTimeout(i), UNCHANGED clientVars
          PROVE  admitted' = admitted /\ (NobodyLost' => InLine')
      <3>1. admitted' = admitted
        BY <2>3 DEF RejectTimeout
      <3>2. CASE i \in ToSet(waiters)
        BY <1>4, <2>3, <3>1, <3>2, LostIsSeen
      <3>3. CASE i \notin ToSet(waiters)
        <4>1. /\ ToSet(waiters') = ToSet(waiters)
              /\ \A a, b \in ToSet(waiters) :
                    Precedes(waiters, a, b) => Precedes(waiters', a, b)
          BY <2>3, <3>3, RejectEffect
        <4> QED
          BY <1>4, <1>5, <1>8, <3>1, <4>1, LineRests
      <3> QED
        BY <3>2, <3>3
    <2>4. ASSUME NEW i \in Requests, GivesBack(i)
          PROVE  ToSet(admitted) \subseteq ToSet(admitted') /\ (NobodyLost' => InLine')
      <3>1. PICK f \in {"cancelled", "finished"} : Release(i, f)
        BY <2>4 DEF GivesBack
      <3>2. \E W \in SUBSET ToSet(waiters) : HandsOver(i, W)
        BY <2>4, <3>1, ReleaseEffect DEF GivesBack
      <3>3. ToSet(admitted) \subseteq ToSet(admitted')
        BY <3>2 DEF HandsOver
      <3> QED
        BY <1>4, <1>5, <1>6, <1>8, <2>4, <3>3, LineMoves
    <2> QED
      BY <1>1, <2>1, <2>2, <2>3, <2>4, ListSteps
  <1> QED
    BY <1>4, <1>5, <1>7, <1>9 DEF AllArrived

-----------------------------------------------------------------------------
(* The evidence                                                            *)

LEMMA ScenarioInitially == ScenarioInit => ScenarioInv
  <1> SUFFICES ASSUME ScenarioInit PROVE ScenarioInv
    OBVIOUS
  <1>1. Init /\ IInv
    BY InvariantInitially DEF ScenarioInit
  <1>2. /\ phase = [r \in Requests |-> "outside"] /\ answer = [r \in Requests |-> "none"]
        /\ gone = {} /\ waiters = <<>> /\ admitted = <<>> /\ records = <<>>
        /\ sent = <<>> /\ step = "stage1"
    BY <1>1 DEF ScenarioInit, Init
  <1>3. /\ ToSet(<<>>) = {} /\ Len(<<>>) = 0 /\ DOMAIN <<>> = {}
        /\ \A T : <<>> \in Seq(T)
    BY EmptySeq DEF ToSet
  <1>4. Distinct(<<>>) /\ \A a, b : ~Precedes(<<>>, a, b)
    BY <1>3 DEF Distinct, Precedes
  <1>5. TasksAreThemselves
    BY <1>2, <1>3, <1>4 DEF TasksAreThemselves, ScenarioInit
  <1>6. AnswersAgree /\ VictimHeard /\ AllArrived
    BY <1>2 DEF AnswersAgree, VictimHeard, AllArrived, FilledSteps
  <1>7. AdmittedOnce /\ ArrivalOrder /\ LineOrder
    <2>1. Released = {}
      BY <1>2, <1>3 DEF Released
    <2> QED
      BY <1>2, <1>3, <1>4, <2>1 DEF AdmittedOnce, ArrivalOrder, LineOrder
  <1> QED
    BY <1>1, <1>5, <1>6, <1>7 DEF ScenarioInv

LEMMA ScenarioStep == ScenarioInv /\ [ScenarioNext]_allVars => ScenarioInv'
  <1> SUFFICES ASSUME ScenarioInv, [ScenarioNext]_allVars PROVE ScenarioInv'
    OBVIOUS
  <1>1. IInv' /\ TasksAreThemselves'
    BY StubInvariantStep, TasksStep DEF ScenarioInv, TasksAreThemselves
  <1>2. AnswersAgree' /\ AdmittedOnce' /\ ArrivalOrder' /\ VictimHeard'
    BY AnswersStep, AdmittedStep, ArrivalStep, VictimStep DEF ScenarioInv
  <1>3. LineOrder' /\ AllArrived'
    BY LineStep, FilledStep DEF ScenarioInv
  <1> QED
    BY <1>1, <1>2, <1>3 DEF ScenarioInv

\* What the client derives at the end is what the server did.
LEMMA DerivedAtTheEnd == ScenarioInv => DerivedAdmissionsAreTrue
  <1> SUFFICES ASSUME ScenarioInv, step = "done", Staged, AllServed
               PROVE  /\ ToSet(Immediate) = ToSet(SubSeq(admitted, 1, MaxActive))
                      /\ \A k \in DOMAIN Ranked : admitted[MaxActive + k] = Ranked[k]
    BY DEF DerivedAdmissionsAreTrue, At
  <1> USE DEF ScenarioInv
  <1>1. NobodyLost
    BY DEF NobodyLost, AllServed
  <1>2. InLine /\ (scenario = "cancel" => Victim \in ToSet(admitted))
    BY <1>1 DEF AllArrived, FilledSteps
  <1>3. ToSet(waiters) = {}
    <2> SUFFICES ASSUME NEW w \in ToSet(waiters) PROVE FALSE
      OBVIOUS
    <2>1. w \in Admittable /\ w \in Requests
      BY OnlyAdmittable
    <2>2. answer[w] = "none" /\ w \notin ToSet(admitted)
      BY <2>1 DEF IInv, WaitersWait, AnswersAgree
    <2> QED
      BY <1>2, <2>1, <2>2 DEF AllServed
  <1>4. /\ admitted \in Seq(Requests) /\ Distinct(admitted) /\ Len(admitted) \in Nat
        /\ MaxActive \in Nat /\ MaxActive <= Len(admitted)
    BY <1>2, StubAssumption, Members DEF IInv, TypeOK, AdmittedOnce, InLine
  <1>5. ToSet(SubSeq(admitted, 1, MaxActive)) = {admitted[i] : i \in 1 .. MaxActive}
    BY <1>4, FirstPart
  <1>6. ToSet(Immediate) = {admitted[i] : i \in 1 .. MaxActive}
    BY <1>2 DEF InLine
  <1>7. ASSUME NEW k \in DOMAIN Ranked
        PROVE  admitted[MaxActive + k] = Ranked[k]
    <2>1. DOMAIN Ranked = 1 .. Len(Ranked)
      <3>1. MaxActive <= Len(Submissions)
        BY AllSubmitted DEF AllArrived, FilledSteps
      <3> QED
        BY <3>1, RankedOrder, Members
    <2> QED
      BY <1>2, <1>3, <1>7, <2>1 DEF InLine
  <1> QED
    BY <1>5, <1>6, <1>7

\* The client's scenario keeps its invariant.
THEOREM ScenarioInvariance == ScenarioSpec => []ScenarioInv
  BY ScenarioInitially, ScenarioStep, PTL DEF ScenarioSpec

\* The admissions that the client derives from the order of its submissions and the number
\* of releases are the server's, task by task, for one slot or two and every queue depth,
\* in every interleaving of the orchestrator, the watcher and the server's threads.
THEOREM DerivationIsSound == ScenarioSpec => []DerivedAdmissionsAreTrue
  BY ScenarioInvariance, DerivedAtTheEnd, PTL

=============================================================================
