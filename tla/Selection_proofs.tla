-------------------------- MODULE Selection_proofs --------------------------
(***************************************************************************)
(* What Select computes, for every queue: its type and length, how it goes *)
(* with concatenation, Append and Tail, and where in the queue what it     *)
(* selects comes from.                                                     *)
(*                                                                         *)
(* The induction is over a set of numbers (UpTo), which follows from the   *)
(* well-foundedness of the numbers.                                        *)
(***************************************************************************)
EXTENDS Selection, TLAPS, WellFoundedInduction

LEMMA MinimumExists ==
  ASSUME NEW T \in SUBSET Nat, T # {}
  PROVE  \E x \in T : \A y \in T : x <= y
  <1>1. \E x \in T : \A y \in T : ~(<<y, x>> \in OpToRel(<, Nat))
    BY NatLessThanWellFounded, WFMin
  <1>2. \A x, y \in Nat : ~(<<y, x>> \in OpToRel(<, Nat)) => x <= y
    BY DEF OpToRel
  <1>3. QED
    BY <1>1, <1>2

\* Induction up to N, with a set of numbers in place of a predicate.
LEMMA UpTo ==
  ASSUME NEW N \in Nat, NEW T, 0 \in T,
         \A n \in 0 .. N : n < N /\ n \in T => n + 1 \in T
  PROVE  0 .. N \subseteq T
  <1> DEFINE Rest == {n \in 0 .. N : n \notin T}
  <1> SUFFICES ASSUME Rest # {}
               PROVE  FALSE
    OBVIOUS
  <1>0. Rest \in SUBSET Nat
    OBVIOUS
  <1>1. PICK m \in Rest : \A n \in Rest : m <= n
    BY <1>0, MinimumExists
  <1>2. m \in 0 .. N /\ m \notin T /\ m # 0
    BY <1>1
  <1>3. m - 1 \in 0 .. N /\ m - 1 < N /\ m - 1 \in T
    BY <1>1, <1>2
  <1>4. m \in T
    BY <1>2, <1>3
  <1>5. QED
    BY <1>2, <1>4

\* The function that Select is defined by, restricted to the first n messages.
Chosen(f, q, S, n) ==
    f = [i \in 0 .. n |->
           IF i = 0 THEN <<>>
           ELSE IF q[i] \in S THEN Append(f[i - 1], q[i])
           ELSE f[i - 1]]

LEMMA ChosenExists ==
  ASSUME NEW q, NEW S, NEW N \in Nat
  PROVE  \E f : Chosen(f, q, S, N)
  <1> DEFINE T == {n \in 0 .. N : \E f : Chosen(f, q, S, n)}
  <1>1. 0 \in T
    <2> DEFINE f == [i \in 0 .. 0 |-> <<>>]
    <2>1. Chosen(f, q, S, 0)
      BY DEF Chosen
    <2>2. QED
      BY <2>1
  <1>2. ASSUME NEW n \in 0 .. N, n < N, n \in T
        PROVE  n + 1 \in T
    <2>1. PICK f : Chosen(f, q, S, n)
      BY <1>2
    <2> DEFINE g == [i \in 0 .. n + 1 |->
                       IF i = n + 1
                       THEN IF q[n + 1] \in S THEN Append(f[n], q[n + 1]) ELSE f[n]
                       ELSE f[i]]
    <2>2. \A i \in 0 .. n : g[i] = f[i]
      OBVIOUS
    <2>3. \A i \in 0 .. n : f[i] = IF i = 0 THEN <<>>
                                    ELSE IF q[i] \in S THEN Append(f[i - 1], q[i])
                                    ELSE f[i - 1]
      BY <2>1 DEF Chosen
    <2>4. \A i \in 0 .. n + 1 : g[i] = IF i = 0 THEN <<>>
                                    ELSE IF q[i] \in S THEN Append(g[i - 1], q[i])
                                    ELSE g[i - 1]
      <3> SUFFICES ASSUME NEW i \in 0 .. n + 1
                   PROVE  g[i] = IF i = 0 THEN <<>>
                                    ELSE IF q[i] \in S THEN Append(g[i - 1], q[i])
                                    ELSE g[i - 1]
        OBVIOUS
      <3>1. CASE i \in 0 .. n
        <4>1. i # 0 => g[i - 1] = f[i - 1]
          BY <3>1, <2>2
        <4>2. QED
          BY <2>2, <2>3, <3>1, <4>1
      <3>2. CASE i = n + 1
        <4>1. i # 0 /\ i - 1 = n /\ g[i - 1] = f[n]
          BY <3>2, <2>2
        <4>2. QED
          BY <3>2, <4>1
      <3>3. QED
        BY <3>1, <3>2
    <2>5. Chosen(g, q, S, n + 1)
      BY <2>4 DEF Chosen
    <2>6. n + 1 \in 0 .. N
      BY <1>2
    <2>7. QED
      BY <2>5, <2>6
  <1> HIDE DEF T
  <1>3. N \in T
    BY <1>1, <1>2, UpTo
  <1>4. QED
    BY <1>3 DEF T

\* The definition of Select by such a function.
LEMMA SelectDef ==
  ASSUME NEW q, NEW S, Len(q) \in Nat
  PROVE  \E f : Chosen(f, q, S, Len(q)) /\ Select(q, S) = f[Len(q)]
  <1> DEFINE c == CHOOSE f : Chosen(f, q, S, Len(q))
  <1>1. Chosen(c, q, S, Len(q))
    BY ChosenExists
  <1>2. Select(q, S) = c[Len(q)]
    BY DEF Select, Chosen
  <1>3. QED
    BY <1>1, <1>2

LEMMA ChosenSteps ==
  ASSUME NEW f, NEW q, NEW S, NEW N \in Nat, Chosen(f, q, S, N)
  PROVE  /\ f[0] = <<>>
         /\ \A i \in 0 .. N : i < N =>
              f[i + 1] = IF q[i + 1] \in S THEN Append(f[i], q[i + 1]) ELSE f[i]
  <1>1. \A i \in 0 .. N : f[i] = IF i = 0 THEN <<>>
                                  ELSE IF q[i] \in S THEN Append(f[i - 1], q[i])
                                  ELSE f[i - 1]
    BY DEF Chosen
  <1>2. f[0] = <<>>
    BY <1>1
  <1>3. ASSUME NEW i \in 0 .. N, i < N
        PROVE  f[i + 1] = IF q[i + 1] \in S THEN Append(f[i], q[i + 1]) ELSE f[i]
    <2>1. i + 1 \in 0 .. N /\ i + 1 # 0 /\ i + 1 - 1 = i
      BY <1>3
    <2>2. QED
      BY <1>1, <2>1
  <1>4. QED
    BY <1>2, <1>3

LEMMA ChosenType ==
  ASSUME NEW E, NEW q \in Seq(E), NEW S, NEW f, Chosen(f, q, S, Len(q))
  PROVE  \A i \in 0 .. Len(q) : f[i] \in Seq(E \cap S) /\ Len(f[i]) <= i
  <1> DEFINE N == Len(q)
             T == {i \in 0 .. N : f[i] \in Seq(E \cap S) /\ Len(f[i]) <= i}
  <1>1. N \in Nat /\ \A i \in 1 .. N : q[i] \in E
    OBVIOUS
  <1>2. /\ f[0] = <<>>
        /\ \A i \in 0 .. N : i < N =>
              f[i + 1] = IF q[i + 1] \in S THEN Append(f[i], q[i + 1]) ELSE f[i]
    BY <1>1, ChosenSteps
  <1> HIDE DEF N
  <1>3. 0 \in T
    <2>1. <<>> \in Seq(E \cap S) /\ Len(<<>>) <= 0
      OBVIOUS
    <2>2. f[0] \in Seq(E \cap S) /\ Len(f[0]) <= 0
      BY <1>2, <2>1
    <2>3. QED
      BY <1>1, <2>2
  <1>4. ASSUME NEW n \in 0 .. N, n < N, n \in T
        PROVE  n + 1 \in T
    <2>1. n + 1 \in 1 .. N /\ n + 1 \in 0 .. N
      BY <1>1, <1>4
    <2>2. f[n] \in Seq(E \cap S) /\ Len(f[n]) <= n /\ Len(f[n]) \in Nat
      BY <1>4
    <2>3. q[n + 1] \in E
      BY <1>1, <2>1
    <2>4. CASE q[n + 1] \in S
      <3>1. f[n + 1] = Append(f[n], q[n + 1]) /\ q[n + 1] \in E \cap S
        BY <1>2, <1>4, <2>3, <2>4
      <3>2. f[n + 1] \in Seq(E \cap S) /\ Len(f[n + 1]) = Len(f[n]) + 1
        BY <2>2, <3>1
      <3>3. QED
        BY <1>1, <2>1, <2>2, <3>2
    <2>5. CASE q[n + 1] \notin S
      <3>1. f[n + 1] = f[n]
        BY <1>2, <1>4, <2>5
      <3>2. QED
        BY <1>1, <2>1, <2>2, <3>1
    <2>6. QED
      BY <2>4, <2>5
  <1> HIDE DEF T
  <1>5. 0 .. N \subseteq T
    BY <1>1, <1>3, <1>4, UpTo
  <1>6. QED
    BY <1>5 DEF T, N

\* Select is of the messages selected, and no longer than the queue.
LEMMA SelectType ==
  ASSUME NEW E, NEW q \in Seq(E), NEW S
  PROVE  Select(q, S) \in Seq(E \cap S) /\ Len(Select(q, S)) <= Len(q)
  <1>1. Len(q) \in Nat
    OBVIOUS
  <1>2. PICK f : Chosen(f, q, S, Len(q)) /\ Select(q, S) = f[Len(q)]
    BY <1>1, SelectDef
  <1>3. Len(q) \in 0 .. Len(q)
    BY <1>1
  <1>4. QED
    BY <1>2, <1>3, ChosenType

\* Two queues that agree so far have the same selection so far.
LEMMA ChosenAgree ==
  ASSUME NEW S, NEW N \in Nat, NEW M \in Nat, N <= M,
         NEW q, NEW f, Chosen(f, q, S, N),
         NEW p, NEW g, Chosen(g, p, S, M),
         \A i \in 1 .. N : p[i] = q[i]
  PROVE  \A i \in 0 .. N : g[i] = f[i]
  <1> DEFINE T == {i \in 0 .. N : g[i] = f[i]}
  <1>1. 0 \in T
    BY ChosenSteps
  <1>2. ASSUME NEW n \in 0 .. N, n < N, n \in T
        PROVE  n + 1 \in T
    <2>1. n + 1 \in 1 .. N /\ n + 1 \in 0 .. N /\ n \in 0 .. M /\ n < M
      BY <1>2
    <2>2. f[n + 1] = IF q[n + 1] \in S THEN Append(f[n], q[n + 1]) ELSE f[n]
      BY <1>2, ChosenSteps
    <2>3. g[n + 1] = IF p[n + 1] \in S THEN Append(g[n], p[n + 1]) ELSE g[n]
      BY <2>1, ChosenSteps
    <2>4. QED
      BY <1>2, <2>1, <2>2, <2>3
  <1> HIDE DEF T
  <1>3. 0 .. N \subseteq T
    BY <1>1, <1>2, UpTo
  <1>4. QED
    BY <1>3 DEF T

LEMMA SameSoFar ==
  ASSUME NEW S, NEW N \in Nat, NEW M \in Nat, N <= M,
         NEW q, NEW f, Chosen(f, q, S, N),
         NEW p, NEW g, Chosen(g, p, S, M),
         \A i \in 1 .. N : p[i] = q[i]
  PROVE  g[N] = f[N]
  <1>1. N \in 0 .. N
    OBVIOUS
  <1>2. QED
    BY <1>1, ChosenAgree

LEMMA SelectEmpty ==
  ASSUME NEW S
  PROVE  Select(<<>>, S) = <<>>
  <1>1. Len(<<>>) = 0
    OBVIOUS
  <1>2. PICK f : Chosen(f, <<>>, S, 0) /\ Select(<<>>, S) = f[0]
    BY <1>1, SelectDef
  <1>3. QED
    BY <1>2, ChosenSteps

\* One message more.
LEMMA SelectAppend ==
  ASSUME NEW E, NEW q \in Seq(E), NEW m \in E, NEW S
  PROVE  Select(Append(q, m), S) =
           IF m \in S THEN Append(Select(q, S), m) ELSE Select(q, S)
  <1> DEFINE p == Append(q, m)
             N == Len(q)
  <1>1. /\ N \in Nat /\ Len(p) = N + 1
        /\ \A i \in 1 .. N : p[i] = q[i]
        /\ p[N + 1] = m
    OBVIOUS
  <1> HIDE DEF p
  <1>2. PICK f : Chosen(f, q, S, N) /\ Select(q, S) = f[N]
    BY <1>1, SelectDef
  <1>3. PICK g : Chosen(g, p, S, N + 1) /\ Select(p, S) = g[N + 1]
    BY <1>1, SelectDef
  <1> HIDE DEF N
  <1> DEFINE M == N + 1
  <1>4. /\ N \in 0 .. N /\ N \in 0 .. N + 1
        /\ N < N + 1 /\ N <= N + 1 /\ N + 1 \in Nat
    BY <1>1
  <1>5. g[N] = f[N]
    <2>1. M \in Nat /\ N <= M /\ Chosen(g, p, S, M)
      BY <1>3, <1>4
    <2> HIDE DEF M
    <2>2. QED
      BY <1>1, <1>2, <2>1, SameSoFar
  <1>6. g[N + 1] = IF p[N + 1] \in S THEN Append(g[N], p[N + 1]) ELSE g[N]
    BY <1>3, <1>4, ChosenSteps
  <1>7. QED
    BY <1>1, <1>2, <1>3, <1>5, <1>6 DEF p

LEMMA ConcatParts ==
  ASSUME NEW S, NEW q \in Seq(S), NEW r \in Seq(S)
  PROVE  /\ q \o r \in Seq(S)
         /\ Len(q \o r) = Len(q) + Len(r)
         /\ \A i \in 1 .. Len(q) : (q \o r)[i] = q[i]
         /\ \A i \in 1 .. Len(r) : (q \o r)[Len(q) + i] = r[i]
  OBVIOUS

AppendsLast(D) ==
    \A q, r \in Seq(D), m \in D : Append(q \o r, m) = q \o Append(r, m)

LEMMA AppendConcat ==
  ASSUME NEW D
  PROVE  AppendsLast(D)
  <1> SUFFICES ASSUME NEW q \in Seq(D), NEW r \in Seq(D), NEW m \in D
               PROVE  Append(q \o r, m) = q \o Append(r, m)
    BY DEF AppendsLast
  <1>1. QED
    OBVIOUS

\* What is selected from two queues in a row.
LEMMA SelectConcat ==
  ASSUME NEW E, NEW q \in Seq(E), NEW r \in Seq(E), NEW S
  PROVE  Select(q \o r, S) = Select(q, S) \o Select(r, S)
  <1> DEFINE p == q \o r
             N == Len(q)
             M == Len(r)
  <1>1. /\ N \in Nat /\ M \in Nat /\ Len(p) = N + M
        /\ p \in Seq(E)
        /\ \A i \in 1 .. N : p[i] = q[i]
        /\ \A i \in 1 .. M : p[N + i] = r[i]
    OBVIOUS
  <1> HIDE DEF p
  <1>2. PICK f : Chosen(f, q, S, N) /\ Select(q, S) = f[N]
    BY <1>1, SelectDef
  <1>3. PICK g : Chosen(g, r, S, M) /\ Select(r, S) = g[M]
    BY <1>1, SelectDef
  <1>4. PICK h : Chosen(h, p, S, N + M) /\ Select(p, S) = h[N + M]
    <2>1. Len(p) \in Nat
      BY <1>1
    <2>2. QED
      BY <1>1, <2>1, SelectDef
  <1>5. /\ \A i \in 0 .. N : f[i] \in Seq(E \cap S)
        /\ \A i \in 0 .. M : g[i] \in Seq(E \cap S)
    BY <1>2, <1>3, ChosenType
  <1> HIDE DEF N, M
  <1>6. N \in 0 .. N /\ N + M \in Nat /\ N <= N + M
    BY <1>1
  <1>7. h[N] = f[N] /\ f[N] \in Seq(E \cap S)
    <2>1. /\ N \in Nat /\ N + M \in Nat /\ N <= N + M
          /\ Chosen(f, q, S, N) /\ Chosen(h, p, S, N + M)
          /\ \A i \in 1 .. N : p[i] = q[i]
      BY <1>1, <1>2, <1>4, <1>6
    <2>2. h[N] = f[N]
      BY <2>1, SameSoFar
    <2>3. QED
      BY <1>5, <1>6, <2>2
  <1> DEFINE T == {n \in 0 .. M : h[N + n] = f[N] \o g[n]}
  <1>8. 0 \in T
    <2>1. g[0] = <<>> /\ N + 0 = N /\ 0 \in 0 .. M
      BY <1>1, <1>3, ChosenSteps
    <2>2. f[N] \o <<>> = f[N]
      BY <1>7
    <2>3. QED
      BY <1>7, <2>1, <2>2
  <1>9. ASSUME NEW n \in 0 .. M, n < M, n \in T
        PROVE  n + 1 \in T
    <2>1. /\ n + 1 \in 1 .. M /\ n + 1 \in 0 .. M
          /\ N + n \in 0 .. N + M /\ N + n < N + M /\ N + (n + 1) = (N + n) + 1
      BY <1>1, <1>9
    <2>2. g[n + 1] = IF r[n + 1] \in S THEN Append(g[n], r[n + 1]) ELSE g[n]
      BY <1>1, <1>3, <1>9, ChosenSteps
    <2>3. h[(N + n) + 1] = IF p[(N + n) + 1] \in S THEN Append(h[N + n], p[(N + n) + 1])
                           ELSE h[N + n]
      BY <1>4, <1>6, <2>1, ChosenSteps
    <2>4. p[(N + n) + 1] = r[n + 1] /\ h[N + n] = f[N] \o g[n]
      <3>1. p[N + (n + 1)] = r[n + 1]
        BY <1>1, <2>1
      <3>2. QED
        BY <1>9, <2>1, <3>1
    <2>5. CASE r[n + 1] \in S
      <3>1. r[n + 1] \in E \cap S
        BY <1>1, <2>1, <2>5 DEF M
      <3>2. g[n] \in Seq(E \cap S)
        BY <1>5
      <3>3. Append(f[N] \o g[n], r[n + 1]) = f[N] \o Append(g[n], r[n + 1])
        <4>1. AppendsLast(E \cap S)
          BY AppendConcat
        <4>2. QED
          BY <1>7, <3>1, <3>2, <4>1 DEF AppendsLast
      <3>4. QED
        BY <2>1, <2>2, <2>3, <2>4, <2>5, <3>3
    <2>6. CASE r[n + 1] \notin S
      BY <2>1, <2>2, <2>3, <2>4, <2>6
    <2>7. QED
      BY <2>5, <2>6
  <1> HIDE DEF T
  <1>10. 0 .. M \subseteq T
    BY <1>1, <1>8, <1>9, UpTo
  <1>11. M \in T
    BY <1>1, <1>10
  <1>12. QED
    BY <1>2, <1>3, <1>4, <1>7, <1>11 DEF T, p

\* One message less.
LEMMA SelectTail ==
  ASSUME NEW E, NEW q \in Seq(E), q # <<>>, NEW S
  PROVE  IF Head(q) \in S
         THEN /\ Select(q, S) # <<>>
              /\ Head(Select(q, S)) = Head(q)
              /\ Tail(Select(q, S)) = Select(Tail(q), S)
         ELSE Select(q, S) = Select(Tail(q), S)
  <1> DEFINE h == <<Head(q)>>
  <1>1. /\ Head(q) \in E /\ Tail(q) \in Seq(E) /\ h \in Seq(E)
        /\ q = h \o Tail(q)
    OBVIOUS
  <1>2. Select(h, S) = IF Head(q) \in S THEN h ELSE <<>>
    <2>1. h = Append(<<>>, Head(q)) /\ <<>> \in Seq(E)
      BY <1>1
    <2>2. Select(Append(<<>>, Head(q)), S) =
            IF Head(q) \in S THEN Append(Select(<<>>, S), Head(q)) ELSE Select(<<>>, S)
      BY <1>1, <2>1, SelectAppend
    <2>3. QED
      BY <2>1, <2>2, SelectEmpty
  <1>3. Select(q, S) = Select(h, S) \o Select(Tail(q), S)
    <2>1. \A a, b \in Seq(E) : Select(a \o b, S) = Select(a, S) \o Select(b, S)
      BY SelectConcat
    <2>2. Select(h \o Tail(q), S) = Select(h, S) \o Select(Tail(q), S)
      BY <1>1, <2>1
    <2>3. QED
      BY <1>1, <2>2
  <1> DEFINE t == Select(Tail(q), S)
  <1>4. t \in Seq(E)
    <2>1. t \in Seq(E \cap S)
      BY <1>1, SelectType
    <2>2. QED
      BY <2>1
  <1> HIDE DEF t
  <1>5. /\ <<>> \o t = t
        /\ h \o t # <<>>
        /\ Head(h \o t) = Head(q)
        /\ Tail(h \o t) = t
    BY <1>1, <1>4
  <1>6. QED
    BY <1>2, <1>3, <1>5 DEF t

\* e says where in the first n messages of q those of s are, in this order.
Places(e, s, q, n) ==
    /\ e \in [1 .. Len(s) -> 1 .. n]
    /\ \A k \in 1 .. Len(s) : s[k] = q[e[k]]
    /\ \A k, l \in 1 .. Len(s) : k < l => e[k] < e[l]

LEMMA OnePlaceMore ==
  ASSUME NEW D, NEW s \in Seq(D), NEW q, NEW n \in Nat, NEW e, Places(e, s, q, n), NEW m \in D,
         m = q[n + 1]
  PROVE  \E d : Places(d, Append(s, m), q, n + 1)
  <1> DEFINE L == Len(s)
             t == Append(s, m)
             d == [k \in 1 .. L + 1 |-> IF k = L + 1 THEN n + 1 ELSE e[k]]
  <1>1. /\ L \in Nat /\ Len(t) = L + 1 /\ t[L + 1] = m
        /\ \A k \in 1 .. L : t[k] = s[k]
    OBVIOUS
  <1>2. /\ e \in [1 .. L -> 1 .. n]
        /\ \A k \in 1 .. L : s[k] = q[e[k]]
        /\ \A k, l \in 1 .. L : k < l => e[k] < e[l]
    BY DEF Places
  <1> HIDE DEF L, t
  <1>3. \A k \in 1 .. L + 1 : k = L + 1 \/ k \in 1 .. L
    BY <1>1
  <1>4. /\ d[L + 1] = n + 1
        /\ \A k \in 1 .. L : d[k] = e[k] /\ e[k] \in 1 .. n
    BY <1>1, <1>2
  <1>5. d \in [1 .. L + 1 -> 1 .. n + 1]
    BY <1>1, <1>2
  <1> HIDE DEF d
  <1>6. \A k \in 1 .. L + 1 : t[k] = q[d[k]]
    BY <1>1, <1>2, <1>3, <1>4
  <1>7. ASSUME NEW k \in 1 .. L + 1, NEW l \in 1 .. L + 1, k < l
        PROVE  d[k] < d[l]
    <2>1. k \in 1 .. L
      BY <1>1, <1>7
    <2>2. CASE l \in 1 .. L
      BY <1>2, <1>4, <1>7, <2>1, <2>2
    <2>3. CASE l = L + 1
      BY <1>4, <2>1, <2>3
    <2>4. QED
      BY <1>3, <2>2, <2>3
  <1>8. Places(d, t, q, n + 1)
    BY <1>1, <1>5, <1>6, <1>7 DEF Places
  <1>9. QED
    BY <1>8 DEF t

\* What is selected is in the queue, in the same order.
LEMMA SelectPlaces ==
  ASSUME NEW E, NEW q \in Seq(E), NEW S
  PROVE  \E e : Places(e, Select(q, S), q, Len(q))
  <1> DEFINE N == Len(q)
  <1>1. N \in Nat /\ \A i \in 1 .. N : q[i] \in E
    OBVIOUS
  <1>2. PICK f : Chosen(f, q, S, N) /\ Select(q, S) = f[N]
    BY <1>1, SelectDef
  <1>3. \A i \in 0 .. N : f[i] \in Seq(E \cap S)
    BY <1>2, ChosenType
  <1> HIDE DEF N
  <1> DEFINE T == {n \in 0 .. N : \E e : Places(e, f[n], q, n)}
  <1>4. 0 \in T
    <2> DEFINE e == [k \in 1 .. 0 |-> 1]
    <2>1. f[0] = <<>>
      BY <1>1, <1>2, ChosenSteps
    <2>2. Places(e, <<>>, q, 0)
      BY DEF Places
    <2>3. 0 \in 0 .. N
      BY <1>1
    <2>4. QED
      BY <2>1, <2>2, <2>3
  <1>5. ASSUME NEW n \in 0 .. N, n < N, n \in T
        PROVE  n + 1 \in T
    <2>1. n + 1 \in 1 .. N /\ n + 1 \in 0 .. N /\ n \in Nat
      BY <1>1, <1>5
    <2>2. f[n + 1] = IF q[n + 1] \in S THEN Append(f[n], q[n + 1]) ELSE f[n]
      BY <1>1, <1>2, <1>5, ChosenSteps
    <2>3. PICK e : Places(e, f[n], q, n)
      BY <1>5
    <2>4. CASE q[n + 1] \in S
      <3>1. q[n + 1] \in E \cap S
        BY <1>1, <2>1, <2>4
      <3>2. f[n] \in Seq(E \cap S)
        BY <1>3
      <3>3. \E d : Places(d, Append(f[n], q[n + 1]), q, n + 1)
        BY <2>1, <2>3, <3>1, <3>2, OnePlaceMore
      <3>4. QED
        BY <2>1, <2>2, <2>4, <3>3
    <2>5. CASE q[n + 1] \notin S
      <3>1. Places(e, f[n], q, n + 1)
        BY <2>1, <2>3 DEF Places
      <3>2. QED
        BY <2>1, <2>2, <2>5, <3>1
    <2>6. QED
      BY <2>4, <2>5
  <1> HIDE DEF T
  <1>6. 0 .. N \subseteq T
    BY <1>1, <1>4, <1>5, UpTo
  <1>7. N \in T
    BY <1>1, <1>6
  <1>8. QED
    BY <1>2, <1>7 DEF T, N

=============================================================================
