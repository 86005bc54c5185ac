--------------------------- MODULE TimerListProofs ---------------------------
(***************************************************************************)
(* Proofs about the timer list of sched.c, for any set of processes and    *)
(* any bound on a sleep.  The differences kept in the list are added up by *)
(* Sums; add_timer, del_timer and run_timer_list are each shown to change  *)
(* these sums as an independent countdown would (AddTimer, DelTimer,       *)
(* Tick), and the invariants and the refinement of Timers follow.          *)
(***************************************************************************)
EXTENDS TimerList, TLAPS, WellFoundedInduction, NaturalsInduction

\* what del_timer may leave behind: the ticks of several entries in one
Item == [proc : Proc, expires : Nat]

Distinct(tl) == \A i, j \in 1..Len(tl) : tl[i].proc = tl[j].proc => i = j

Listed(tl) == {tl[i].proc : i \in 1..Len(tl)}

\* a list as add_timer, del_timer and run_timer_list find it
Good(tl) == /\ tl \in Seq(Item)
            /\ Distinct(tl)
            /\ tl # << >> => tl[1].expires # 0

\* S[i] is the sum of the first i entries
Sum(S, tl) == /\ S \in [0..Len(tl) -> Nat]
              /\ S[0] = 0
              /\ \A i \in 1..Len(tl) : S[i] = S[i - 1] + tl[i].expires

\* every nonempty set of natural numbers has a least element
LEMMA LeastNumber ==
  ASSUME NEW T \in SUBSET Nat, T # {}
  PROVE  \E n \in T : \A m \in T : n <= m
<1>1. IsWellFoundedOn(OpToRel(<, Nat), Nat)
  BY NatLessThanWellFounded, Zenon
<1>2. \E n \in T : \A m \in T : ~ (<<m, n>> \in OpToRel(<, Nat))
  BY <1>1, WFMin, Zenon
<1>3. ASSUME NEW n \in T, NEW m \in T, ~ (<<m, n>> \in OpToRel(<, Nat))
      PROVE  n <= m
  BY <1>3 DEF OpToRel
<1>4. QED
  BY <1>2, <1>3, Zenon

\* the fields of a list's entries
LEMMA ItemAt ==
  ASSUME NEW tl \in Seq(Item)
  PROVE  /\ Len(tl) \in Nat
         /\ \A i \in 1..Len(tl) : tl[i] \in Item
         /\ \A i \in 1..Len(tl) : tl[i].proc \in Proc /\ tl[i].expires \in Nat
<1>1. Len(tl) \in Nat /\ \A i \in 1..Len(tl) : tl[i] \in Item
  OBVIOUS
<1>2. QED
  BY <1>1 DEF Item

\* a list has prefix sums: the shortest front without them would get them
\* from the front before it
LEMMA SumExists ==
  ASSUME NEW tl \in Seq(Item)
  PROVE  \E S : Sum(S, tl)
<1> DEFINE N == Len(tl)
           SumTo(S, n) == /\ S \in [0..n -> Nat]
                          /\ S[0] = 0
                          /\ \A i \in 1..n : S[i] = S[i - 1] + tl[i].expires
           T == {n \in 0..N : \A S : ~ SumTo(S, n)}
<1>1. N \in Nat /\ \A i \in 1..N : tl[i].expires \in Nat
  BY ItemAt
<1> HIDE DEF N
<1>2. ASSUME T # {} PROVE FALSE
  <2>1. T \in SUBSET Nat
    BY <1>1
  <2>2. PICK n \in T : \A m \in T : n <= m
    BY <1>2, <2>1, LeastNumber
  <2>3. CASE n = 0
    <3>1. SumTo([i \in 0..0 |-> 0], 0)
      OBVIOUS
    <3>2. QED
      BY <2>2, <2>3, <3>1
  <2>4. CASE n # 0
    <3>1. n \in 0..N
      OBVIOUS
    <3>2. n - 1 \in 0..N /\ n \in 1..N
      BY <1>1, <2>4, <3>1
    <3> HIDE DEF T
    <3>3. n - 1 \notin T
      BY <1>1, <2>2, <3>1, <3>2
    <3> USE DEF T
    <3>4. PICK S : SumTo(S, n - 1)
      BY <3>2, <3>3, Zenon
    <3> DEFINE R == [i \in 0..n |-> IF i = n THEN S[n - 1] + tl[n].expires ELSE S[i]]
    <3>5. R \in [0..n -> Nat]
      BY <1>1, <3>2, <3>4
    <3>6. R[0] = 0
      BY <3>2, <3>4
    <3>7. ASSUME NEW i \in 1..n PROVE R[i] = R[i - 1] + tl[i].expires
      <4>1. CASE i = n
        BY <1>1, <3>2, <4>1
      <4>2. CASE i # n
        <5>1. i \in 1..(n - 1) /\ i - 1 \in 0..n /\ i - 1 # n /\ i \in 0..n
          BY <3>2, <4>2
        <5>2. S[i] = S[i - 1] + tl[i].expires
          BY <3>4, <5>1
        <5>3. QED
          BY <4>2, <5>1, <5>2
      <4>3. QED
        BY <4>1, <4>2
    <3>8. SumTo(R, n)
      BY <3>5, <3>6, <3>7
    <3> HIDE DEF SumTo
    <3>9. QED
      BY <2>2, <3>8
  <2>5. QED
    BY <2>3, <2>4
<1> HIDE DEF SumTo, T
<1>3. N \notin T /\ N \in 0..N
  BY <1>1, <1>2
<1>4. PICK S : SumTo(S, N)
  BY <1>3 DEF T
<1>5. Sum(S, tl)
  BY <1>4 DEF Sum, N, SumTo
<1>6. QED
  BY <1>5

\* prefix sums are unique
LEMMA SumUnique ==
  ASSUME NEW tl \in Seq(Item), NEW S, NEW R, Sum(S, tl), Sum(R, tl)
  PROVE  \A i \in 0..Len(tl) : S[i] = R[i]
<1> DEFINE N == Len(tl)
           T == {i \in 0..N : S[i] # R[i]}
<1>1. N \in Nat
  OBVIOUS
<1>2. ASSUME T # {} PROVE FALSE
  <2>1. T \in SUBSET Nat
    BY <1>1
  <2>2. PICK n \in T : \A m \in T : n <= m
    BY <1>2, <2>1, LeastNumber
  <2>3. n # 0
    BY <2>2 DEF Sum
  <2>4. n - 1 \in 0..N /\ n - 1 \notin T /\ n \in 1..N
    BY <1>1, <2>2, <2>3
  <2>5. S[n - 1] = R[n - 1]
    BY <2>4
  <2>6. S[n] = S[n - 1] + tl[n].expires /\ R[n] = R[n - 1] + tl[n].expires
    BY <2>4 DEF Sum
  <2>7. QED
    BY <2>2, <2>5, <2>6
<1>3. QED
  BY <1>2

\* the sums grow along the list
LEMMA SumGrows ==
  ASSUME NEW tl \in Seq(Item), NEW S, Sum(S, tl), NEW a \in 0..Len(tl)
  PROVE  \A i \in a..Len(tl) : S[a] <= S[i]
<1> DEFINE N == Len(tl)
           T == {i \in a..N : ~ (S[a] <= S[i])}
<1>1. /\ N \in Nat /\ a \in Nat
      /\ \A i \in 1..N : tl[i].expires \in Nat
      /\ \A i \in 0..N : S[i] \in Nat
  BY SMTT(60), ItemAt DEF Sum
<1>2. ASSUME T # {} PROVE FALSE
  <2>1. T \in SUBSET Nat
    BY <1>1
  <2>2. PICK n \in T : \A m \in T : n <= m
    BY <1>2, <2>1, LeastNumber
  <2>3. n # a
    BY <1>1, <2>2
  <2>4. n - 1 \in a..N /\ n - 1 \notin T /\ n \in 1..N
    BY <1>1, <2>2, <2>3
  <2>5. S[a] <= S[n - 1]
    BY <2>4
  <2>6. S[n] = S[n - 1] + tl[n].expires
    BY <2>4 DEF Sum
  <2>7. /\ S[a] \in Nat /\ S[n] \in Nat /\ S[n - 1] \in Nat
        /\ tl[n].expires \in Nat
    BY <1>1, <2>4
  <2>8. S[a] <= S[n]
    BY SMTT(60), <2>5, <2>6, <2>7
  <2>9. QED
    BY <2>2, <2>8
<1>3. QED
  BY <1>2

\* what the recursive function Sums computes
LEMMA SumsAre ==
  ASSUME NEW tl \in Seq(Item)
  PROVE  Sum(Sums(tl), tl)
<1> DEFINE N == Len(tl)
           W == Sums(tl)
           F(sum) == [i \in 0..N |-> IF i = 0 THEN 0 ELSE sum[i - 1] + tl[i].expires]
<1>1. W = CHOOSE sum : sum = F(sum)
  BY DEF Sums
<1>2. PICK G : Sum(G, tl)
  BY SumExists
<1>3. N \in Nat
  OBVIOUS
<1>4. G = F(G)
  <2>1. G = [i \in 0..N |-> G[i]]
    BY <1>2 DEF Sum
  <2>2. ASSUME NEW i \in 0..N
        PROVE  G[i] = IF i = 0 THEN 0 ELSE G[i - 1] + tl[i].expires
    BY <1>2, <1>3 DEF Sum
  <2>3. QED
    BY <2>1, <2>2, Zenon
<1> HIDE DEF W, F
<1>5. W = F(W)
  BY <1>1, <1>4, Zenon
<1>6. W = [i \in 0..N |-> IF i = 0 THEN 0 ELSE W[i - 1] + tl[i].expires]
  BY <1>5 DEF F
<1> DEFINE T == {i \in 0..N : W[i] # G[i]}
<1>7. ASSUME T # {} PROVE FALSE
  <2>1. T \in SUBSET Nat
    BY <1>3
  <2>2. PICK n \in T : \A m \in T : n <= m
    BY <1>7, <2>1, LeastNumber
  <2>3. n # 0
    BY <1>2, <1>3, <1>6, <2>2 DEF Sum
  <2>4. n - 1 \in 0..N /\ n - 1 \notin T /\ n \in 1..N /\ n \in 0..N
    BY <1>3, <2>2, <2>3
  <2>5. W[n - 1] = G[n - 1]
    BY <2>4
  <2>6. W[n] = W[n - 1] + tl[n].expires
    BY <1>6, <2>3, <2>4
  <2>7. G[n] = G[n - 1] + tl[n].expires
    BY <1>2, <2>4 DEF Sum
  <2>8. QED
    BY <2>2, <2>5, <2>6, <2>7
<1>8. \A i \in 0..N : W[i] = G[i]
  BY <1>7
<1>9. W = G
  BY <1>2, <1>6, <1>8 DEF Sum
<1>10. QED
  BY <1>2, <1>9 DEF W

\* what LeftIn gives each process of a list and each process without an entry
Gives(tl, S, L) ==
    /\ DOMAIN L = Proc /\ L = [p \in Proc |-> L[p]]
    /\ \A i \in 1..Len(tl) : L[tl[i].proc] = S[i]
    /\ \A p \in Proc : p \notin Listed(tl) => L[p] = 0

LEMMA LeftInGives ==
  ASSUME NEW tl, Good(tl), NEW S, Sum(S, tl)
  PROVE  Gives(tl, S, LeftIn(tl))
<1>1. tl \in Seq(Item) /\ Distinct(tl)
  BY DEF Good
<1> DEFINE N == Len(tl)
           L == LeftIn(tl)
           At(p) == CHOOSE i \in 1..N : tl[i].proc = p
<1>2. N \in Nat /\ \A i \in 1..N : tl[i].proc \in Proc
  BY <1>1, ItemAt
<1>3. L = [p \in Proc |-> IF \E i \in 1..N : tl[i].proc = p THEN Sums(tl)[At(p)] ELSE 0]
  BY DEF LeftIn
<1>4. \A i \in 0..N : Sums(tl)[i] = S[i]
  BY <1>1, SumsAre, SumUnique
<1>5. ASSUME NEW i \in 1..N PROVE L[tl[i].proc] = S[i]
  <2>1. At(tl[i].proc) \in 1..N /\ tl[At(tl[i].proc)].proc = tl[i].proc
    OBVIOUS
  <2>2. At(tl[i].proc) = i
    BY <1>1, <2>1 DEF Distinct
  <2>3. i \in 0..N
    BY <1>2
  <2> HIDE DEF At, L
  <2>4. L[tl[i].proc] = Sums(tl)[At(tl[i].proc)]
    BY <1>2, <1>3
  <2>5. QED
    BY <1>4, <2>2, <2>3, <2>4
<1>6. ASSUME NEW p \in Proc, p \notin Listed(tl) PROVE L[p] = 0
  BY <1>3, <1>6 DEF Listed
<1> HIDE DEF L
<1>7. Gives(tl, S, L)
  BY <1>3, <1>5, <1>6 DEF Gives
<1>8. QED
  BY <1>7 DEF L

\* what the recursive function Rest computes: the ticks beyond the entries passed
LEMMA RestIs ==
  ASSUME NEW tl \in Seq(Item), NEW S, Sum(S, tl), NEW t \in Nat
  PROVE  \A i \in 1..(Len(tl) + 1) : Rest(tl, t)[i] = t - S[i - 1]
<1> DEFINE N == Len(tl)
           W == Rest(tl, t)
           F(rest) == [i \in 1..(N + 1) |-> IF i = 1 THEN t ELSE rest[i - 1] - tl[i - 1].expires]
           G == [i \in 1..(N + 1) |-> t - S[i - 1]]
<1>1. W = CHOOSE rest : rest = F(rest)
  BY DEF Rest
<1>2. /\ N \in Nat /\ S[0] = 0
      /\ \A i \in 1..N : tl[i].expires \in Nat /\ S[i] = S[i - 1] + tl[i].expires
      /\ \A i \in 0..N : S[i] \in Nat
  BY ItemAt DEF Sum
<1> HIDE DEF N
<1>3. ASSUME NEW i \in 1..(N + 1)
      PROVE  G[i] = IF i = 1 THEN t ELSE G[i - 1] - tl[i - 1].expires
  <2>1. CASE i = 1
    BY <1>2, <2>1
  <2>2. CASE i # 1
    <3> DEFINE a == i - 1
    <3>1. a \in 1..N /\ a \in 1..(N + 1) /\ a - 1 \in 0..N
      BY <1>2, <2>2
    <3>2. G[i] = t - S[a] /\ G[a] = t - S[a - 1]
      BY <3>1
    <3>3. S[a] = S[a - 1] + tl[a].expires /\ S[a - 1] \in Nat /\ tl[a].expires \in Nat
      BY <1>2, <3>1
    <3> HIDE DEF G
    <3>4. G[i] = G[a] - tl[a].expires
      BY <3>2, <3>3
    <3>5. QED
      BY <2>2, <3>4
  <2>3. QED
    BY <2>1, <2>2
<1>4. G = F(G)
  <2>1. G = [i \in 1..(N + 1) |-> G[i]]
    OBVIOUS
  <2> HIDE DEF G
  <2>2. QED
    BY <1>3, <2>1, Zenon
<1> HIDE DEF W, F
<1>5. W = F(W)
  BY <1>1, <1>4, Zenon
<1>6. ASSUME NEW i \in 1..(N + 1)
      PROVE  W[i] = IF i = 1 THEN t ELSE W[i - 1] - tl[i - 1].expires
  BY <1>5, Zenon DEF F
<1> HIDE DEF G
<1> DEFINE T == {i \in 1..(N + 1) : W[i] # G[i]}
<1>7. ASSUME T # {} PROVE FALSE
  <2>1. T \in SUBSET Nat
    BY <1>2
  <2>2. PICK n \in T : \A m \in T : n <= m
    BY <1>7, <2>1, LeastNumber
  <2>3. n \in 1..(N + 1) /\ W[n] # G[n]
    OBVIOUS
  <2>4. n # 1
    BY <1>3, <1>6, <2>3
  <2>5. n - 1 \in 1..(N + 1) /\ n - 1 \notin T
    BY <1>2, <2>2, <2>3, <2>4
  <2>6. W[n - 1] = G[n - 1]
    BY <2>5
  <2>7. QED
    BY <1>3, <1>6, <2>3, <2>4, <2>6
<1>8. \A i \in 1..(N + 1) : W[i] = t - S[i - 1]
  BY <1>7 DEF G
<1>9. QED
  BY <1>8 DEF W, N

\* an entry put in front of entry at, which becomes old: as add_timer builds it,
\* and place by place
Spliced(tl, at, new, old) ==
    SubSeq(tl, 1, at - 1) \o <<new>> \o
        (IF at > Len(tl) THEN << >> ELSE <<old>> \o SubSeq(tl, at + 1, Len(tl)))
Inserted(tl, at, new, old) ==
    [i \in 1..(Len(tl) + 1) |-> IF i < at THEN tl[i] ELSE IF i = at THEN new
                                ELSE IF i = at + 1 THEN old ELSE tl[i - 1]]

LEMMA FunctionIsSeq ==
  ASSUME NEW X, NEW n \in Nat, NEW m \in [1..n -> X]
  PROVE  m \in Seq(X) /\ Len(m) = n
  OBVIOUS

LEMMA Concatenation ==
  ASSUME NEW X, NEW s \in Seq(X), NEW r \in Seq(X)
  PROVE  /\ s \o r \in Seq(X) /\ Len(s \o r) = Len(s) + Len(r)
         /\ \A i \in 1..Len(r) : (s \o r)[Len(s) + i] = r[i]
OBVIOUS

LEMMA InsertSeq ==
  ASSUME NEW tl \in Seq(Item), NEW at \in 1..(Len(tl) + 1), NEW new \in Item, NEW old \in Item
  PROVE  Spliced(tl, at, new, old) = Inserted(tl, at, new, old)
<1> DEFINE N == Len(tl)
           A == SubSeq(tl, 1, at - 1)
           B == IF at > N THEN << >> ELSE <<old>> \o SubSeq(tl, at + 1, N)
<1>1. N \in Nat
  OBVIOUS
<1>2. A \in Seq(Item) /\ Len(A) = at - 1 /\ \A i \in 1..(at - 1) : A[i] = tl[i]
  BY <1>1
<1>3. B \in Seq(Item) /\ Len(B) = N - at + 1
      /\ \A i \in 1..(N - at + 1) : B[i] = IF i = 1 THEN old ELSE tl[at + i - 1]
  <2>1. CASE at > N
    BY <1>1, <2>1
  <2>2. CASE ~ (at > N)
    <3> DEFINE C == SubSeq(tl, at + 1, N)
    <3>1. C \in Seq(Item) /\ Len(C) = N - at /\ \A i \in 1..(N - at) : C[i] = tl[at + i]
      BY <1>1, <2>2
    <3> HIDE DEF C
    <3>2. B = <<old>> \o C
      BY <2>2 DEF C
    <3> HIDE DEF B
    <3>3. B \in Seq(Item) /\ Len(B) = N - at + 1
      BY <1>1, <2>2, <3>1, <3>2
    <3>4. ASSUME NEW i \in 1..(N - at + 1) PROVE B[i] = IF i = 1 THEN old ELSE tl[at + i - 1]
      <4>1. CASE i = 1
        BY <1>1, <3>1, <3>2, <4>1
      <4>2. CASE i # 1
        <5> DEFINE a == i - 1
        <5>1. a \in 1..(N - at) /\ i = 1 + a /\ at + a = at + i - 1
          BY <1>1, <4>2
        <5>2. B[i] = C[a]
          BY <1>1, <3>1, <3>2, <4>2, <5>1
        <5>3. C[a] = tl[at + a]
          BY <3>1, <5>1
        <5>4. QED
          BY <4>2, <5>1, <5>2, <5>3
      <4>3. QED
        BY <4>1, <4>2
    <3>5. QED
      BY <3>3, <3>4
  <2>3. QED
    BY <2>1, <2>2
<1> DEFINE M == A \o <<new>> \o B
           R == [i \in 1..(N + 1) |-> IF i < at THEN tl[i] ELSE IF i = at THEN new
                                      ELSE IF i = at + 1 THEN old ELSE tl[i - 1]]
<1> HIDE DEF A, B
<1>4. M \in Seq(Item) /\ Len(M) = N + 1
  <2> DEFINE D == A \o <<new>>
  <2>1. D \in Seq(Item) /\ Len(D) = at
    BY <1>1, <1>2
  <2> HIDE DEF D
  <2>2. D \o B \in Seq(Item) /\ Len(D \o B) = Len(D) + Len(B)
    BY <1>3, <2>1, Concatenation, ZenonT(60)
  <2>3. Len(D) + Len(B) = N + 1
    BY <1>1, <1>3, <2>1
  <2>4. QED
    BY <2>2, <2>3 DEF D
<1>5. ASSUME NEW i \in 1..(N + 1) PROVE M[i] = R[i]
  <2> DEFINE D == A \o <<new>>
  <2>1. D \in Seq(Item) /\ Len(D) = at
    BY <1>1, <1>2
  <2>2. \A j \in 1..at : D[j] = IF j < at THEN tl[j] ELSE new
    BY <1>1, <1>2
  <2>3. M = D \o B
    OBVIOUS
  <2> HIDE DEF D, M
  <2>4. CASE i <= at
    <3>1. M[i] = D[i] /\ i \in 1..at
      BY <1>1, <1>3, <2>1, <2>3, <2>4
    <3>2. QED
      BY <2>2, <2>4, <3>1
  <2>5. CASE ~ (i <= at)
    <3> DEFINE a == i - at
    <3>1. a \in 1..(N - at + 1) /\ i = at + a /\ at + a - 1 = i - 1 /\ (a = 1 <=> i = at + 1)
      BY <1>1, <2>5
    <3>2. M[i] = B[a]
      BY <1>1, <1>3, <2>1, <2>3, <2>5, <3>1
    <3>3. B[a] = IF a = 1 THEN old ELSE tl[at + a - 1]
      BY <1>3, <3>1
    <3> HIDE DEF a
    <3>4. QED
      BY <1>1, <2>5, <3>1, <3>2, <3>3
  <2>6. QED
    BY <2>4, <2>5
<1>6. M = R
  <2> HIDE DEF M
  <2>1. M = [i \in 1..(N + 1) |-> M[i]]
    BY <1>1, <1>4
  <2>2. QED
    BY <1>5, <2>1
<1>7. QED
  BY <1>6 DEF A, B, Spliced, Inserted

\* the entries of M but that of p are those of tl, at the same times
SameBut(tl, S, M, R, p, t) ==
    /\ \A i \in 1..Len(M) : M[i].proc # p =>
            \E j \in 1..Len(tl) : tl[j].proc = M[i].proc /\ S[j] = R[i]
    /\ \A j \in 1..Len(tl) : tl[j].proc # p => tl[j].proc \in Listed(M)
    /\ \A i \in 1..Len(M) : M[i].proc = p => R[i] = t
    /\ p \notin Listed(M) => t = 0

LEMMA SetsTime ==
  ASSUME NEW tl, Good(tl), NEW M, Good(M), NEW p \in Proc, NEW t,
         NEW S, Sum(S, tl), NEW R, Sum(R, M), SameBut(tl, S, M, R, p, t)
  PROVE  LeftIn(M) = [LeftIn(tl) EXCEPT ![p] = t]
<1> DEFINE L == LeftIn(tl)
           K == LeftIn(M)
<1>1. Gives(tl, S, L) /\ Gives(M, R, K)
  BY LeftInGives
<1> HIDE DEF L, K
<1>2. ASSUME NEW q \in Proc PROVE K[q] = IF q = p THEN t ELSE L[q]
  <2>1. CASE q \in Listed(M)
    <3>1. PICK i \in 1..Len(M) : M[i].proc = q
      BY <2>1 DEF Listed
    <3>2. K[q] = R[i]
      BY <1>1, <3>1 DEF Gives
    <3>3. CASE q = p
      BY <3>1, <3>2, <3>3 DEF SameBut
    <3>4. CASE q # p
      <4>1. PICK j \in 1..Len(tl) : tl[j].proc = q /\ S[j] = R[i]
        BY <3>1, <3>4 DEF SameBut
      <4>2. L[q] = S[j]
        BY <1>1, <4>1 DEF Gives
      <4>3. QED
        BY <3>2, <3>4, <4>1, <4>2
    <3>5. QED
      BY <3>3, <3>4
  <2>2. CASE q \notin Listed(M)
    <3>1. K[q] = 0
      BY <1>1, <2>2 DEF Gives
    <3>2. CASE q = p
      BY <2>2, <3>1, <3>2 DEF SameBut
    <3>3. CASE q # p
      <4>1. q \notin Listed(tl)
        BY <2>2, <3>3 DEF Listed, SameBut
      <4>2. L[q] = 0
        BY <1>1, <4>1 DEF Gives
      <4>3. QED
        BY <3>1, <3>3, <4>2
    <3>4. QED
      BY <3>2, <3>3
  <2>3. QED
    BY <2>1, <2>2
<1>3. DOMAIN L = Proc /\ K = [q \in Proc |-> K[q]]
  BY <1>1 DEF Gives
<1>4. K = [L EXCEPT ![p] = t]
  BY <1>2, <1>3
<1>5. QED
  BY <1>4 DEF K, L

\* where add_timer puts an entry: at is the first place whose entry expires later
AddedAt(tl, p, t, S, at, M) ==
    /\ at \in 1..(Len(tl) + 1)
    /\ t - S[at - 1] \in Nat
    /\ at <= Len(tl) => t - S[at - 1] < tl[at].expires
    /\ M = [i \in 1..(Len(tl) + 1) |->
              IF i < at THEN tl[i]
              ELSE IF i = at THEN [proc |-> p, expires |-> t - S[at - 1]]
              ELSE IF i = at + 1 THEN [proc |-> tl[at].proc,
                                       expires |-> tl[at].expires - (t - S[at - 1])]
              ELSE tl[i - 1]]

LEMMA AddTimerAt ==
  ASSUME NEW tl \in Seq(Item), NEW S, Sum(S, tl), NEW p \in Proc, NEW t \in Nat
  PROVE  \E at : AddedAt(tl, p, t, S, at, add_timer(tl, p, t))
<1> DEFINE N == Len(tl)
           rest == Rest(tl, t)
           Stops(i) == i = N + 1 \/ Later(tl[i], rest[i])
           First(i) == Stops(i) /\ \A j \in 1..(i - 1) : ~ Stops(j)
           at == CHOOSE i \in 1..(N + 1) : First(i)
           T == {i \in 1..(N + 1) : Stops(i)}
<1>1. /\ N \in Nat /\ S[0] = 0
      /\ \A i \in 1..N : tl[i] \in Item /\ tl[i].proc \in Proc /\ tl[i].expires \in Nat
      /\ \A i \in 1..N : S[i] = S[i - 1] + tl[i].expires
      /\ \A i \in 0..N : S[i] \in Nat
  BY ItemAt DEF Sum
<1>2. \A i \in 1..(N + 1) : rest[i] = t - S[i - 1]
  BY RestIs
<1> DEFINE new == [proc |-> p, expires |-> rest[at]]
           behind == IF at > N THEN << >>
                     ELSE <<Adjusted(tl[at], rest[at])>> \o SubSeq(tl, at + 1, N)
<1>3. add_timer(tl, p, t) = SubSeq(tl, 1, at - 1) \o <<new>> \o behind
  BY DEF add_timer
<1> HIDE DEF rest, N
<1>4. at \in 1..(N + 1) /\ First(at)
  <2> HIDE DEF Stops
  <2>1. T \in SUBSET Nat /\ T # {}
    <3>1. N + 1 \in T
      BY <1>1 DEF Stops
    <3>2. QED
      BY <1>1, <3>1
  <2>2. PICK n \in T : \A m \in T : n <= m
    BY <2>1, LeastNumber
  <2>3. n \in 1..(N + 1) /\ Stops(n)
    OBVIOUS
  <2>4. ASSUME NEW j \in 1..(n - 1) PROVE ~ Stops(j)
    <3>1. j \in 1..(N + 1) /\ ~ (n <= j)
      BY <1>1, <2>3
    <3>2. QED
      BY <2>2, <3>1
  <2>5. First(n)
    BY <2>3, <2>4
  <2> HIDE DEF First
  <2>6. QED
    BY <2>3, <2>5
<1> HIDE DEF at
<1>5. rest[at] = t - S[at - 1] /\ rest[at] \in Nat
  <2>1. CASE at = 1
    BY <1>1, <1>2, <1>4, <2>1
  <2>2. CASE at # 1
    <3> DEFINE a == at - 1
    <3>1. a \in 1..(at - 1) /\ a \in 1..N /\ a \in 1..(N + 1) /\ a # N + 1 /\ a - 1 \in 0..N
      BY <1>1, <1>4, <2>2
    <3>2. ~ Later(tl[a], rest[a])
      BY <1>4, <3>1
    <3>3. rest[a] = t - S[a - 1] /\ rest[at] = t - S[a] /\ S[a] = S[a - 1] + tl[a].expires
          /\ S[a - 1] \in Nat /\ tl[a].expires \in Nat
      BY <1>1, <1>2, <1>4, <3>1
    <3> HIDE DEF a
    <3>4. rest[at] \in Nat
      BY <3>2, <3>3 DEF Later
    <3>5. QED
      BY <1>2, <1>4, <3>4
  <2>3. QED
    BY <2>1, <2>2
<1> DEFINE d == rest[at]
           old == IF at <= N THEN [proc |-> tl[at].proc, expires |-> tl[at].expires - d] ELSE new
<1>6. at <= N => at \in 1..N /\ d < tl[at].expires
  BY <1>1, <1>4 DEF Later
<1>7. at <= N => old = Adjusted(tl[at], d)
  <2>1. SUFFICES ASSUME at <= N PROVE old = Adjusted(tl[at], d)
    OBVIOUS
  <2> DEFINE e == tl[at]
  <2>2. e \in Item
    BY <1>1, <1>6, <2>1
  <2>3. [proc |-> e.proc, expires |-> e.expires - d] = [e EXCEPT !.expires = @ - d]
    <3> HIDE DEF e, d
    <3>1. QED
      BY <2>2 DEF Item
  <2>4. QED
    BY <2>1, <2>3 DEF Adjusted
<1>8. new \in Item /\ old \in Item
  BY SMTT(60), <1>1, <1>5, <1>6 DEF Item
<1>9. add_timer(tl, p, t) = SubSeq(tl, 1, at - 1) \o <<new>> \o
           (IF at > Len(tl) THEN << >> ELSE <<old>> \o SubSeq(tl, at + 1, Len(tl)))
  <2>1. at > N \/ at <= N
    BY <1>1, <1>4
  <2> HIDE DEF old, new, d
  <2>2. QED
    BY <1>3, <1>7, <2>1, Zenon DEF N, d
<1>10. add_timer(tl, p, t)
         = [i \in 1..(N + 1) |-> IF i < at THEN tl[i] ELSE IF i = at THEN new
                                 ELSE IF i = at + 1 THEN old ELSE tl[i - 1]]
  <2> HIDE DEF old, new
  <2>1. at \in 1..(Len(tl) + 1)
    BY <1>4 DEF N
  <2>2. Spliced(tl, at, new, old) = Inserted(tl, at, new, old)
    BY <1>8, <2>1, InsertSeq, Zenon
  <2>3. add_timer(tl, p, t) = Spliced(tl, at, new, old)
    BY <1>9 DEF Spliced
  <2>4. QED
    BY <2>2, <2>3 DEF N, Inserted
<1>11. AddedAt(tl, p, t, S, at, add_timer(tl, p, t))
  <2> DEFINE M == add_timer(tl, p, t)
             P == [i \in 1..(N + 1) |->
              IF i < at THEN tl[i]
              ELSE IF i = at THEN [proc |-> p, expires |-> d]
              ELSE IF i = at + 1 THEN [proc |-> tl[at].proc, expires |-> tl[at].expires - d]
              ELSE tl[i - 1]]
  <2>1. \A i \in 1..(N + 1) : i = at + 1 => at <= N
    BY <1>1, <1>4
  <2>2. M = P
    <3>1. \A i \in 1..(N + 1) : i = at + 1 =>
             old = [proc |-> tl[at].proc, expires |-> tl[at].expires - d]
      BY <2>1
    <3> HIDE DEF old, d
    <3>2. new = [proc |-> p, expires |-> d]
      BY DEF d
    <3> HIDE DEF new
    <3>3. QED
      BY <1>10, <3>1, <3>2, Zenon
  <2>3. d = t - S[at - 1]
    BY <1>5
  <2> HIDE DEF M, d
  <2>4. AddedAt(tl, p, t, S, at, M)
    BY <1>4, <1>5, <1>6, <2>2, <2>3 DEF AddedAt, N
  <2>5. QED
    BY <2>4 DEF M
<1>12. QED
  BY <1>11

\* what an operation makes of the list tl it finds: the processes in it and the
\* time of each are as before, but for p, whose time is now t
Changed(tl, p, t, M) ==
    /\ Good(M)
    /\ Listed(M) = IF t = 0 THEN Listed(tl) \ {p} ELSE Listed(tl) \cup {p}
    /\ LeftIn(M) = [LeftIn(tl) EXCEPT ![p] = t]

\* add_timer gives p its t ticks and moves nobody else's expiry
LEMMA AddTimer ==
  ASSUME NEW tl, Good(tl), NEW p \in Proc, p \notin Listed(tl), NEW t \in Nat \ {0}
  PROVE  Changed(tl, p, t, add_timer(tl, p, t))
<1> DEFINE M == add_timer(tl, p, t)
           N == Len(tl)
           S == Sums(tl)
<1>1. tl \in Seq(Item) /\ Distinct(tl) /\ (tl # << >> => tl[1].expires # 0)
  BY DEF Good
<1>2. Sum(S, tl)
  BY <1>1, SumsAre
<1>3. PICK at : AddedAt(tl, p, t, S, at, M)
  BY <1>1, <1>2, AddTimerAt
<1> HIDE DEF M, S
<1> DEFINE d == t - S[at - 1]
           R == [i \in 0..(N + 1) |-> IF i < at THEN S[i] ELSE IF i = at THEN t ELSE S[i - 1]]
<1>4. /\ N \in Nat /\ S[0] = 0
      /\ \A i \in 1..N : tl[i] \in Item /\ tl[i].proc \in Proc /\ tl[i].expires \in Nat
      /\ \A i \in 1..N : S[i] = S[i - 1] + tl[i].expires
      /\ \A i \in 0..N : S[i] \in Nat
  BY <1>1, <1>2, ItemAt DEF Sum
<1>5. /\ at \in 1..(N + 1) /\ d \in Nat
      /\ at <= N => d < tl[at].expires
      /\ M = [i \in 1..(N + 1) |->
                IF i < at THEN tl[i]
                ELSE IF i = at THEN [proc |-> p, expires |-> d]
                ELSE IF i = at + 1 THEN [proc |-> tl[at].proc, expires |-> tl[at].expires - d]
                ELSE tl[i - 1]]
  BY <1>3 DEF AddedAt
<1> HIDE DEF N
<1>6. \A i \in 1..(N + 1) : i < at => i \in 1..N /\ M[i] = tl[i]
  BY <1>4, <1>5
<1>7. M[at] = [proc |-> p, expires |-> d]
  BY <1>4, <1>5
<1>8. ASSUME NEW i \in 1..(N + 1), i > at
      PROVE  /\ i - 1 \in 1..N
             /\ M[i].proc = tl[i - 1].proc
             /\ M[i].expires = IF i = at + 1 THEN tl[i - 1].expires - d ELSE tl[i - 1].expires
             /\ M[i] \in Item
  <2>1. i - 1 \in 1..N /\ at <= N /\ (i = at + 1 => i - 1 = at)
    BY <1>4, <1>5, <1>8
  <2>2. CASE i = at + 1
    <3>1. M[i] = [proc |-> tl[at].proc, expires |-> tl[at].expires - d]
      BY <1>5, <1>8, <2>2
    <3>2. at \in 1..N /\ tl[at].expires - d \in Nat
      BY SMTT(60), <1>4, <1>5, <2>1
    <3>3. QED
      BY <1>4, <2>1, <2>2, <3>1, <3>2 DEF Item
  <2>3. CASE i # at + 1
    <3>1. M[i] = tl[i - 1]
      BY <1>5, <1>8, <2>3
    <3>2. QED
      BY <1>4, <2>1, <2>3, <3>1
  <2>4. QED
    BY <2>2, <2>3
<1>9. M \in Seq(Item) /\ Len(M) = N + 1
  <2>1. ASSUME NEW i \in 1..(N + 1) PROVE M[i] \in Item
    <3>1. CASE i < at
      BY <1>4, <1>6, <3>1
    <3>2. CASE i = at
      BY <1>5, <1>7, <3>2 DEF Item
    <3>3. CASE i > at
      BY <1>8, <3>3
    <3>4. QED
      BY <1>5, <3>1, <3>2, <3>3
  <2>2. M = [i \in 1..(N + 1) |-> M[i]]
    BY <1>5
  <2>3. M \in [1..(N + 1) -> Item]
    BY <2>1, <2>2, Zenon
  <2>4. N + 1 \in Nat
    BY <1>4
  <2>5. QED
    BY <2>3, <2>4, FunctionIsSeq, Zenon
<1>10. Sum(R, M)
  <2>1. R \in [0..(N + 1) -> Nat]
    <3>1. ASSUME NEW i \in 0..(N + 1) PROVE R[i] \in Nat
      BY <1>4, <1>5
    <3>2. QED
      BY <3>1
  <2>2. R[0] = 0
    BY <1>4, <1>5
  <2>3. ASSUME NEW i \in 1..(N + 1) PROVE R[i] = R[i - 1] + M[i].expires
    <3>1. CASE i < at
      <4>1. i \in 0..(N + 1) /\ i - 1 \in 0..(N + 1) /\ i - 1 < at
        BY <1>4, <1>5, <3>1
      <4>2. R[i] = S[i] /\ R[i - 1] = S[i - 1]
        BY <3>1, <4>1
      <4> HIDE DEF R
      <4>3. QED
        BY <1>4, <1>6, <3>1, <4>2
    <3>2. CASE i = at
      <4>1. i \in 0..(N + 1) /\ i - 1 \in 0..(N + 1) /\ i - 1 < at /\ ~ (i < at) /\ i - 1 \in 0..N
        BY <1>4, <3>2
      <4>2. R[i] = t /\ R[i - 1] = S[i - 1]
        BY <3>2, <4>1
      <4> HIDE DEF R
      <4>3. M[i].expires = t - S[i - 1] /\ S[i - 1] \in Nat
        BY <1>4, <1>7, <3>2, <4>1
      <4>4. QED
        BY <4>2, <4>3
    <3>3. CASE i = at + 1
      <4>1. at \in 1..N /\ i - 1 = at /\ at \in 0..(N + 1) /\ i \in 0..(N + 1) /\ at - 1 \in 0..N
            /\ ~ (i < at) /\ i # at /\ i > at
        BY <1>4, <1>5, <3>3
      <4>2. R[i] = S[at] /\ R[i - 1] = t
        BY <3>3, <4>1
      <4> HIDE DEF R
      <4>3. M[i].expires = tl[at].expires - d /\ S[at] = S[at - 1] + tl[at].expires
            /\ S[at - 1] \in Nat /\ tl[at].expires \in Nat
        BY <1>4, <1>8, <3>3, <4>1
      <4>4. QED
        BY <4>2, <4>3
    <3>4. CASE i > at + 1
      <4> DEFINE a == i - 1
      <4>1. a \in 1..N /\ a \in 0..(N + 1) /\ i \in 0..(N + 1) /\ ~ (i < at) /\ i # at
            /\ ~ (a < at) /\ a # at /\ i > at /\ i # at + 1
        BY <1>4, <1>5, <3>4
      <4>2. R[i] = S[a] /\ R[a] = S[a - 1]
        BY <4>1
      <4>3. M[i].expires = tl[a].expires
        BY <1>8, <4>1
      <4> HIDE DEF R
      <4>4. QED
        BY <1>4, <4>1, <4>2, <4>3
    <3>5. QED
      BY <1>4, <1>5, <3>1, <3>2, <3>3, <3>4
  <2>4. QED
    BY <1>9, <2>1, <2>2, <2>3 DEF Sum
\* where the entry of place i was
<1> DEFINE from(i) == IF i < at THEN i ELSE i - 1
<1>11. ASSUME NEW i \in 1..(N + 1), i # at
       PROVE  from(i) \in 1..N /\ tl[from(i)].proc = M[i].proc /\ S[from(i)] = R[i]
  <2>1. CASE i < at
    BY <1>4, <1>6, <2>1
  <2>2. CASE i > at
    <3>1. i \in 0..(N + 1) /\ ~ (i < at) /\ i # at
      BY <1>4, <1>5, <2>2
    <3>2. R[i] = S[i - 1] /\ from(i) = i - 1
      BY <3>1
    <3> HIDE DEF R, from
    <3>3. QED
      BY <1>8, <2>2, <3>2
  <2>3. QED
    BY <1>5, <1>11, <2>1, <2>2
<1>12. \A i \in 1..N : tl[i].proc # p
  BY DEF Listed, N
<1>13. ASSUME NEW i \in 1..(N + 1) PROVE M[i].proc = p <=> i = at
  <2> HIDE DEF from, R
  <2>1. M[at].proc = p
    BY <1>7
  <2>2. QED
    BY <1>11, <1>12, <2>1
<1>14. ASSUME NEW j \in 1..N PROVE \E i \in 1..(N + 1) : M[i].proc = tl[j].proc
  <2>1. CASE j < at
    BY <1>4, <1>6, <2>1
  <2>2. CASE ~ (j < at)
    <3>1. j + 1 \in 1..(N + 1) /\ j + 1 > at /\ (j + 1) - 1 = j
      BY <1>4, <1>5, <2>2
    <3>2. QED
      BY <1>8, <3>1
  <2>3. QED
    BY <2>1, <2>2
<1>15. Good(M)
  <2>1. ASSUME NEW i \in 1..(N + 1), NEW j \in 1..(N + 1), M[i].proc = M[j].proc
        PROVE  i = j
    <3>1. CASE i = at \/ j = at
      BY <1>13, <2>1, <3>1
    <3>2. CASE i # at /\ j # at
      <4>1. from(i) = from(j)
        <5> HIDE DEF from
        <5>1. /\ from(i) \in 1..N /\ tl[from(i)].proc = M[i].proc
              /\ from(j) \in 1..N /\ tl[from(j)].proc = M[j].proc
          BY <1>11, <3>2
        <5>2. QED
          BY <1>1, <2>1, <5>1 DEF Distinct, N
      <4>2. QED
        BY <1>5, <3>2, <4>1
    <3>3. QED
      BY <3>1, <3>2
  <2>2. M[1].expires # 0
    <3>1. CASE at = 1
      BY <1>4, <1>7, <3>1
    <3>2. CASE at # 1
      <4>1. 1 \in 1..(N + 1) /\ 1 < at /\ 1 \in 1..N
        BY <1>4, <1>5, <3>2
      <4>2. tl # << >>
        BY <4>1 DEF N
      <4>3. QED
        BY <1>1, <1>6, <4>1, <4>2
    <3>3. QED
      BY <3>1, <3>2
  <2>3. QED
    BY <1>9, <2>1, <2>2 DEF Good, Distinct
<1>16. Listed(M) = Listed(tl) \cup {p}
  <2>1. ASSUME NEW i \in 1..(N + 1) PROVE M[i].proc \in Listed(tl) \cup {p}
    BY <1>11, <1>13 DEF Listed, N
  <2>2. ASSUME NEW j \in 1..N PROVE tl[j].proc \in Listed(M)
    BY <1>9, <1>14 DEF Listed
  <2>3. p \in Listed(M)
    <3>1. at \in 1..Len(M)
      BY <1>5, <1>9
    <3>2. M[at].proc = p
      BY <1>7
    <3>3. QED
      BY <3>1, <3>2 DEF Listed
  <2>4. Listed(M) \subseteq Listed(tl) \cup {p}
    BY <1>9, <2>1 DEF Listed
  <2>5. Listed(tl) \subseteq Listed(M)
    <3>1. Listed(tl) = {tl[j].proc : j \in 1..N}
      BY DEF Listed, N
    <3>2. QED
      BY <2>2, <3>1
  <2>6. QED
    BY <2>3, <2>4, <2>5
<1>17. LeftIn(M) = [LeftIn(tl) EXCEPT ![p] = t]
  <2>1. \A i \in 1..Len(M) : M[i].proc # p =>
            \E j \in 1..Len(tl) : tl[j].proc = M[i].proc /\ S[j] = R[i]
    <3> HIDE DEF R, from
    <3>1. QED
      BY <1>9, <1>11, <1>13 DEF N
  <2>2. \A j \in 1..Len(tl) : tl[j].proc # p => tl[j].proc \in Listed(M)
    BY <1>16 DEF Listed
  <2>3. \A i \in 1..Len(M) : M[i].proc = p => R[i] = t
    BY <1>4, <1>5, <1>9, <1>13
  <2>4. p \notin Listed(M) => t = 0
    BY <1>16
  <2> HIDE DEF R
  <2>5. SameBut(tl, S, M, R, p, t)
    BY <2>1, <2>2, <2>3, <2>4 DEF SameBut
  <2>6. QED
    BY <1>2, <1>10, <1>15, <2>5, SetsTime
<1>18. Changed(tl, p, t, M)
  BY <1>15, <1>16, <1>17 DEF Changed
<1>19. QED
  BY <1>18 DEF M

\* where del_timer takes the entry of p from: the one behind it gets its ticks
RemovedAt(tl, p, at, M) ==
    /\ at \in 1..Len(tl)
    /\ tl[at].proc = p
    /\ M = [i \in 1..(Len(tl) - 1) |->
              IF i < at THEN tl[i]
              ELSE IF i = at THEN [proc |-> tl[at + 1].proc,
                                   expires |-> tl[at + 1].expires + tl[at].expires]
              ELSE tl[i + 1]]

LEMMA DelTimerAt ==
  ASSUME NEW tl \in Seq(Item), NEW p \in Listed(tl)
  PROVE  \E at : RemovedAt(tl, p, at, del_timer(tl, p))
<1> DEFINE N == Len(tl)
           at == CHOOSE i \in 1..N : tl[i].proc = p
           B == IF at = N THEN tl ELSE [tl EXCEPT ![at + 1] = Inherited(@, tl[at].expires)]
           M == SubSeq(B, 1, at - 1) \o SubSeq(B, at + 1, Len(B))
<1>1. /\ N \in Nat
      /\ \A i \in 1..N : tl[i] \in Item /\ tl[i].proc \in Proc /\ tl[i].expires \in Nat
  BY ItemAt
<1>2. \E i \in 1..N : tl[i].proc = p
  BY DEF Listed
<1>3. at \in 1..N /\ tl[at].proc = p
  BY SMTT(60), <1>2
<1>4. del_timer(tl, p) = M
  BY <1>2 DEF del_timer, RemoveAt
<1> HIDE DEF at, N
<1> DEFINE e == tl[at + 1]
           x == [proc |-> e.proc, expires |-> e.expires + tl[at].expires]
<1>5. at # N => e \in Item /\ Inherited(e, tl[at].expires) = x /\ x \in Item
  <2>1. SUFFICES ASSUME at # N
                 PROVE  e \in Item /\ Inherited(e, tl[at].expires) = x /\ x \in Item
    OBVIOUS
  <2>2. at + 1 \in 1..N
    BY <1>1, <1>3, <2>1
  <2>3. e \in Item /\ tl[at].expires \in Nat
    BY <1>1, <1>3, <2>2
  <2> HIDE DEF e
  <2>4. QED
    BY <2>3 DEF Inherited, Item
<1> HIDE DEF x, e
<1>6. /\ B \in Seq(Item) /\ Len(B) = N
      /\ \A i \in 1..N : B[i] = IF i = at + 1 THEN x ELSE tl[i]
  <2>1. CASE at = N
    <3>1. \A i \in 1..N : i # at + 1
      BY <1>1, <2>1
    <3>2. B = tl
      BY <2>1
    <3>3. QED
      BY <3>1, <3>2 DEF N
  <2>2. CASE at # N
    <3>1. at + 1 \in 1..N
      BY <1>1, <1>3, <2>2
    <3>2. B = [tl EXCEPT ![at + 1] = x]
      BY <1>5, <2>2, <3>1 DEF N, e
    <3>3. QED
      BY <1>5, <2>2, <3>1, <3>2 DEF N
  <2>3. QED
    BY <2>1, <2>2
<1> HIDE DEF B
<1> DEFINE C == SubSeq(B, 1, at - 1)
           D == SubSeq(B, at + 1, N)
           P == [i \in 1..(N - 1) |->
                   IF i < at THEN tl[i]
                   ELSE IF i = at THEN [proc |-> tl[at + 1].proc,
                                        expires |-> tl[at + 1].expires + tl[at].expires]
                   ELSE tl[i + 1]]
<1>7. C \in Seq(Item) /\ Len(C) = at - 1 /\ \A i \in 1..(at - 1) : C[i] = B[i]
  BY <1>1, <1>3, <1>6
<1>8. D \in Seq(Item) /\ Len(D) = N - at /\ \A i \in 1..(N - at) : D[i] = B[at + i]
  BY <1>1, <1>3, <1>6
<1>9. M = C \o D
  BY <1>6
<1> HIDE DEF C, D, M
<1>10. M \in Seq(Item) /\ Len(M) = N - 1
  <2>1. M \in Seq(Item) /\ Len(M) = Len(C) + Len(D)
    BY <1>7, <1>8, <1>9, Concatenation
  <2>2. QED
    BY <1>1, <1>3, <1>7, <1>8, <2>1
<1>11. ASSUME NEW i \in 1..(N - 1) PROVE M[i] = P[i]
  <2>1. CASE i < at
    <3>1. i \in 1..(at - 1) /\ i \in 1..N /\ i # at + 1
      BY <1>1, <1>3, <2>1
    <3>2. M[i] = C[i]
      BY <1>3, <1>7, <1>8, <1>9, <3>1
    <3>3. M[i] = tl[i]
      BY <1>6, <1>7, <3>1, <3>2
    <3>4. QED
      BY <2>1, <3>3
  <2>2. CASE ~ (i < at)
    <3> DEFINE a == i - (at - 1)
    <3>1. a \in 1..(N - at) /\ at + a = i + 1 /\ i = (at - 1) + a /\ i + 1 \in 1..N
          /\ (i + 1 = at + 1 <=> i = at)
      BY <1>1, <1>3, <2>2
    <3>2. M[i] = D[a]
      <4>1. \A j \in 1..Len(D) : M[Len(C) + j] = D[j]
        BY SMTT(60), <1>7, <1>8, <1>9, Concatenation
      <4> HIDE DEF a
      <4>2. QED
        BY <1>7, <1>8, <3>1, <4>1
    <3>3. D[a] = B[at + a]
      BY <1>8, <3>1
    <3>4. B[i + 1] = IF i + 1 = at + 1 THEN x ELSE tl[i + 1]
      BY <1>6, <3>1
    <3>5. M[i] = IF i = at THEN x ELSE tl[i + 1]
      BY <3>1, <3>2, <3>3, <3>4
    <3>6. QED
      BY <2>2, <3>5 DEF x, e
  <2>3. QED
    BY <2>1, <2>2
<1>12. M = P
  <2>1. M = [i \in 1..(N - 1) |-> M[i]]
    BY <1>1, <1>10
  <2>2. QED
    BY <1>11, <2>1
<1>13. RemovedAt(tl, p, at, M)
  BY <1>3, <1>12 DEF RemovedAt, N
<1>14. QED
  BY <1>4, <1>13

\* del_timer takes the time of p away and moves nobody else's expiry
LEMMA DelTimer ==
  ASSUME NEW tl, Good(tl), NEW p \in Proc
  PROVE  Changed(tl, p, 0, del_timer(tl, p))
<1> DEFINE M == del_timer(tl, p)
           N == Len(tl)
           S == Sums(tl)
<1>1. tl \in Seq(Item) /\ Distinct(tl) /\ (tl # << >> => tl[1].expires # 0)
  BY DEF Good
<1>2. Sum(S, tl)
  BY <1>1, SumsAre
<1>3. CASE p \notin Listed(tl)
  <2>1. M = tl
    BY <1>3 DEF del_timer, Listed
  <2> DEFINE L == LeftIn(tl)
  <2>2. DOMAIN L = Proc /\ L = [q \in Proc |-> L[q]] /\ L[p] = 0
    BY <1>2, <1>3, LeftInGives DEF Gives
  <2> HIDE DEF L
  <2>3. L = [L EXCEPT ![p] = 0]
    BY <2>2
  <2>4. Changed(tl, p, 0, tl)
    BY <1>3, <2>3 DEF Changed, L
  <2>5. QED
    BY <2>1, <2>4
<1>4. CASE p \in Listed(tl)
  <2>1. PICK at : RemovedAt(tl, p, at, M)
    BY <1>1, <1>4, DelTimerAt
  <2> HIDE DEF M, S
  <2> DEFINE R == [i \in 0..(N - 1) |-> IF i < at THEN S[i] ELSE S[i + 1]]
             from(i) == IF i < at THEN i ELSE i + 1
  <2>2. /\ N \in Nat /\ S[0] = 0
        /\ \A i \in 1..N : tl[i] \in Item /\ tl[i].proc \in Proc /\ tl[i].expires \in Nat
        /\ \A i \in 1..N : S[i] = S[i - 1] + tl[i].expires
        /\ \A i \in 0..N : S[i] \in Nat
    BY <1>1, <1>2, ItemAt DEF Sum
  <2>3. /\ at \in 1..N /\ tl[at].proc = p
        /\ M = [i \in 1..(N - 1) |->
                  IF i < at THEN tl[i]
                  ELSE IF i = at THEN [proc |-> tl[at + 1].proc,
                                       expires |-> tl[at + 1].expires + tl[at].expires]
                  ELSE tl[i + 1]]
    BY <2>1 DEF RemovedAt
  <2> HIDE DEF N
  <2>4. \A i \in 1..(N - 1) : i < at => i \in 1..N /\ M[i] = tl[i]
    BY <2>2, <2>3
  <2>5. ASSUME NEW i \in 1..(N - 1), ~ (i < at)
        PROVE  /\ i + 1 \in 1..N
               /\ M[i].proc = tl[i + 1].proc
               /\ M[i].expires = IF i = at THEN tl[i + 1].expires + tl[i].expires
                                ELSE tl[i + 1].expires
               /\ M[i] \in Item
    <3>1. i + 1 \in 1..N /\ i \in 1..N
      BY <2>2, <2>3, <2>5
    <3>2. CASE i = at
      <4>1. M[i] = [proc |-> tl[i + 1].proc, expires |-> tl[i + 1].expires + tl[i].expires]
        BY <2>3, <2>5, <3>2
      <4>2. QED
        BY <2>2, <3>1, <3>2, <4>1 DEF Item
    <3>3. CASE i # at
      <4>1. M[i] = tl[i + 1]
        BY <2>3, <2>5, <3>3
      <4>2. QED
        BY <2>2, <3>1, <3>3, <4>1
    <3>4. QED
      BY <3>2, <3>3
  <2>6. M \in Seq(Item) /\ Len(M) = N - 1 /\ N - 1 \in Nat
    <3>1. ASSUME NEW i \in 1..(N - 1) PROVE M[i] \in Item
      BY <2>2, <2>4, <2>5
    <3>2. DOMAIN M = 1..(N - 1) /\ M = [i \in 1..(N - 1) |-> M[i]]
      BY <2>3
    <3>3. N - 1 \in Nat
      BY <2>2, <2>3
    <3>4. QED
      BY <3>1, <3>2, <3>3
  <2>7. Sum(R, M)
    <3>1. R \in [0..(N - 1) -> Nat]
      <4>1. ASSUME NEW i \in 0..(N - 1) PROVE R[i] \in Nat
        BY <2>2, <2>3
      <4>2. QED
        BY <4>1
    <3>2. R[0] = 0
      BY <2>2, <2>3
    <3>3. ASSUME NEW i \in 1..(N - 1) PROVE R[i] = R[i - 1] + M[i].expires
      <4>1. CASE i < at
        <5>1. i \in 0..(N - 1) /\ i - 1 \in 0..(N - 1) /\ i - 1 < at
          BY <2>2, <2>3, <4>1
        <5>2. R[i] = S[i] /\ R[i - 1] = S[i - 1]
          BY <4>1, <5>1
        <5> HIDE DEF R
        <5>3. QED
          BY <2>2, <2>4, <4>1, <5>2
      <4>2. CASE i = at
        <5> DEFINE b == i + 1
        <5>1. i \in 0..(N - 1) /\ i - 1 \in 0..(N - 1) /\ i - 1 < at /\ ~ (i < at)
              /\ i \in 1..N /\ b \in 1..N /\ b - 1 = i /\ i - 1 \in 0..N
          BY <2>2, <2>3, <4>2
        <5>2. R[i] = S[b] /\ R[i - 1] = S[i - 1]
          BY <4>2, <5>1
        <5>3. M[i].expires = tl[b].expires + tl[i].expires
          BY <2>5, <4>2, <5>1
        <5> HIDE DEF R, b
        <5>4. S[b] = S[i] + tl[b].expires /\ S[i] = S[i - 1] + tl[i].expires
              /\ S[i - 1] \in Nat /\ tl[b].expires \in Nat /\ tl[i].expires \in Nat
          BY <2>2, <5>1
        <5>5. QED
          BY <5>2, <5>3, <5>4
      <4>3. CASE i > at
        <5> DEFINE b == i + 1
        <5>1. i \in 0..(N - 1) /\ i - 1 \in 0..(N - 1) /\ ~ (i - 1 < at) /\ ~ (i < at) /\ i # at
              /\ b \in 1..N /\ b - 1 = i /\ (i - 1) + 1 = i
          BY <2>2, <2>3, <4>3
        <5>2. R[i] = S[b] /\ R[i - 1] = S[i]
          BY <4>3, <5>1
        <5>3. M[i].expires = tl[b].expires
          BY <2>5, <5>1
        <5> HIDE DEF R, b
        <5>4. S[b] = S[i] + tl[b].expires
          BY <2>2, <5>1
        <5>5. QED
          BY <5>2, <5>3, <5>4
      <4>4. QED
        BY <2>3, <4>1, <4>2, <4>3
    <3>4. QED
      BY <2>6, <3>1, <3>2, <3>3 DEF Sum
  <2>8. ASSUME NEW i \in 1..(N - 1)
        PROVE  /\ from(i) \in 1..N /\ tl[from(i)].proc = M[i].proc /\ S[from(i)] = R[i]
               /\ from(i) # at
    <3>1. CASE i < at
      BY <2>2, <2>3, <2>4, <3>1
    <3>2. CASE ~ (i < at)
      <4>1. i \in 0..(N - 1)
        BY <2>2
      <4>2. R[i] = S[i + 1] /\ from(i) = i + 1
        BY <3>2, <4>1
      <4>3. i + 1 # at
        BY <2>3, <3>2
      <4> HIDE DEF R, from
      <4>4. QED
        BY <2>5, <3>2, <4>2, <4>3
    <3>3. QED
      BY <3>1, <3>2
  <2>9. ASSUME NEW j \in 1..N PROVE tl[j].proc = p <=> j = at
    BY <1>1, <2>3 DEF Distinct, N
  <2>10. ASSUME NEW i \in 1..(N - 1) PROVE M[i].proc # p
    <3> HIDE DEF from, R
    <3>1. QED
      BY <2>8, <2>9
  <2>11. ASSUME NEW j \in 1..N, j # at PROVE \E i \in 1..(N - 1) : M[i].proc = tl[j].proc
    <3>1. CASE j < at
      <4>1. j \in 1..(N - 1)
        BY <2>2, <2>3, <3>1
      <4>2. QED
        BY <2>4, <3>1, <4>1
    <3>2. CASE j > at
      <4>1. j - 1 \in 1..(N - 1) /\ ~ (j - 1 < at) /\ (j - 1) + 1 = j
        BY <2>2, <2>3, <3>2
      <4>2. QED
        BY <2>5, <4>1
    <3>3. QED
      BY <2>3, <2>11, <3>1, <3>2
  <2>12. Good(M)
    <3>1. ASSUME NEW i \in 1..(N - 1), NEW j \in 1..(N - 1), M[i].proc = M[j].proc
          PROVE  i = j
      <4>1. from(i) = from(j)
        <5> HIDE DEF from, R
        <5>1. /\ from(i) \in 1..N /\ tl[from(i)].proc = M[i].proc
              /\ from(j) \in 1..N /\ tl[from(j)].proc = M[j].proc
          BY <2>8
        <5>2. QED
          BY <1>1, <3>1, <5>1 DEF Distinct, N
      <4>2. QED
        BY <2>3, <4>1
    <3>2. ASSUME M # << >> PROVE M[1].expires # 0
      <4>1. 1 \in 1..(N - 1) /\ 1 \in 1..N /\ 2 \in 1..N
        BY <2>2, <2>6, <3>2
      <4>2. tl[1].expires # 0 /\ tl[1].expires \in Nat /\ tl[2].expires \in Nat
        BY <1>1, <2>2, <4>1 DEF N
      <4>3. CASE at = 1
        <5>1. M[1].expires = tl[2].expires + tl[1].expires
          BY <2>5, <4>1, <4>3
        <5>2. QED
          BY <4>2, <5>1
      <4>4. CASE at # 1
        <5>1. 1 < at
          BY <2>3, <4>4
        <5>2. QED
          BY <2>4, <4>1, <4>2, <5>1
      <4>5. QED
        BY <4>3, <4>4
    <3>3. QED
      BY <2>6, <3>1, <3>2 DEF Good, Distinct
  <2>13. Listed(M) = Listed(tl) \ {p}
    <3>1. Listed(M) = {M[i].proc : i \in 1..(N - 1)} /\ Listed(tl) = {tl[j].proc : j \in 1..N}
      BY <2>6 DEF Listed, N
    <3>2. ASSUME NEW i \in 1..(N - 1) PROVE M[i].proc \in Listed(tl) \ {p}
      <4> HIDE DEF from, R
      <4>1. from(i) \in 1..N /\ tl[from(i)].proc = M[i].proc
        BY <2>8
      <4>2. QED
        BY <2>10, <3>1, <4>1
    <3>3. ASSUME NEW j \in 1..N, tl[j].proc # p PROVE tl[j].proc \in Listed(M)
      BY <2>9, <2>11, <3>1, <3>3
    <3>4. QED
      BY <3>1, <3>2, <3>3
  <2>14. LeftIn(M) = [LeftIn(tl) EXCEPT ![p] = 0]
    <3> HIDE DEF R, from
    <3>1. \A i \in 1..Len(M) : M[i].proc # p =>
             \E j \in 1..Len(tl) : tl[j].proc = M[i].proc /\ S[j] = R[i]
      BY <2>6, <2>8 DEF N
    <3>2. \A j \in 1..Len(tl) : tl[j].proc # p => tl[j].proc \in Listed(M)
      BY <2>13 DEF Listed
    <3>3. \A i \in 1..Len(M) : M[i].proc = p => R[i] = 0
      BY <2>6, <2>10
    <3>4. SameBut(tl, S, M, R, p, 0)
      BY <3>1, <3>2, <3>3 DEF SameBut
    <3>5. QED
      BY <1>2, <2>7, <2>12, <3>4, SetsTime
  <2>15. Changed(tl, p, 0, M)
    BY <2>12, <2>13, <2>14 DEF Changed
  <2>16. QED
    BY <2>15 DEF M
<1>5. QED
  BY <1>3, <1>4

\* nothing adds up to nothing
LEMMA SumZero ==
  ASSUME NEW tl \in Seq(Item), NEW S, Sum(S, tl), NEW n \in 0..Len(tl),
         \A i \in 1..n : tl[i].expires = 0
  PROVE  \A i \in 0..n : S[i] = 0
<1> DEFINE T == {i \in 0..n : S[i] # 0}
<1>1. ASSUME T # {} PROVE FALSE
  <2>1. T \in SUBSET Nat
    OBVIOUS
  <2>2. PICK m \in T : \A k \in T : m <= k
    BY <1>1, <2>1, LeastNumber
  <2>3. m # 0
    BY <2>2 DEF Sum
  <2>4. m - 1 \in 0..n /\ m - 1 \notin T /\ m \in 1..n /\ m \in 1..Len(tl)
    BY <2>2, <2>3
  <2>5. S[m - 1] = 0 /\ tl[m].expires = 0
    BY <2>4
  <2>6. S[m] = S[m - 1] + tl[m].expires
    BY <2>4 DEF Sum
  <2>7. QED
    BY <2>2, <2>5, <2>6
<1>2. QED
  BY <1>1

\* the loop of run_timer_list stops where Expired says
LEMMA ExpiredIs ==
  ASSUME NEW tl \in Seq(Item)
  PROVE  /\ Expired(tl) \in 0..Len(tl)
         /\ \A i \in 1..Expired(tl) : tl[i].expires = 0
         /\ Expired(tl) < Len(tl) => tl[Expired(tl) + 1].expires # 0
<1> DEFINE N == Len(tl)
           Is(n) == /\ \A i \in 1..n : tl[i].expires = 0
                    /\ n < N => tl[n + 1].expires # 0
           T == {i \in 1..N : tl[i].expires # 0}
<1>1. N \in Nat
  OBVIOUS
<1>2. \E n \in 0..N : Is(n)
  <2>1. CASE T = {}
    <3>1. Is(N) /\ N \in 0..N
      BY <1>1, <2>1
    <3>2. QED
      BY <3>1
  <2>2. CASE T # {}
    <3>1. T \in SUBSET Nat
      BY <1>1
    <3>2. PICK m \in T : \A k \in T : m <= k
      BY <2>2, <3>1, LeastNumber
    <3>3. m \in 1..N /\ tl[m].expires # 0
      OBVIOUS
    <3>4. m - 1 \in 0..N /\ (m - 1) + 1 = m
      BY <1>1, <3>3
    <3>5. ASSUME NEW i \in 1..(m - 1) PROVE tl[i].expires = 0
      <4>1. i \in 1..N /\ ~ (m <= i)
        BY <1>1, <3>3
      <4>2. QED
        BY <3>2, <4>1
    <3>6. Is(m - 1)
      BY <3>3, <3>4, <3>5
    <3> HIDE DEF Is
    <3>7. QED
      BY <3>4, <3>6
  <2>3. QED
    BY <2>1, <2>2
<1>3. Expired(tl) = CHOOSE n \in 0..N : Is(n)
  BY DEF Expired
<1> HIDE DEF Is
<1>4. Expired(tl) \in 0..N /\ Is(Expired(tl))
  BY <1>2, <1>3
<1>5. QED
  BY <1>4 DEF Is

\* what run_timer_list does to the list: the first entry counts down, and the
\* entries at the front that are then at 0 go
Counted(tl) == IF tl = << >> THEN tl ELSE [tl EXCEPT ![1].expires = @ - 1]

Gone(tl) == {Counted(tl)[i].proc : i \in 1..Expired(Counted(tl))}

Ticked(tl) == SubSeq(Counted(tl), Expired(Counted(tl)) + 1, Len(Counted(tl)))

LEMMA CountedIs ==
  ASSUME NEW tl, Good(tl), NEW S, Sum(S, tl)
  PROVE  /\ Counted(tl) \in Seq(Item)
         /\ Len(Counted(tl)) = Len(tl)
         /\ \A i \in 1..Len(tl) : Counted(tl)[i].proc = tl[i].proc
         /\ Sum([i \in 0..Len(tl) |-> IF i = 0 THEN 0 ELSE S[i] - 1], Counted(tl))
         /\ \A i \in 1..Len(tl) : S[i] - 1 \in Nat
<1> DEFINE C == Counted(tl)
           N == Len(tl)
           R == [i \in 0..N |-> IF i = 0 THEN 0 ELSE S[i] - 1]
<1>1. tl \in Seq(Item) /\ (tl # << >> => tl[1].expires # 0)
  BY DEF Good
<1>2. /\ N \in Nat /\ S[0] = 0
      /\ \A i \in 1..N : tl[i] \in Item /\ tl[i].proc \in Proc /\ tl[i].expires \in Nat
      /\ \A i \in 1..N : S[i] = S[i - 1] + tl[i].expires
      /\ \A i \in 0..N : S[i] \in Nat
  BY <1>1, ItemAt DEF Sum
<1>3. CASE tl = << >>
  <2>1. C = << >> /\ N = 0
    BY <1>3 DEF Counted
  <2>2. Sum(R, C)
    BY <1>3, <2>1 DEF Sum
  <2> HIDE DEF C
  <2>3. C \in Seq(Item) /\ Len(C) = N /\ \A i \in 1..N : FALSE
    BY <2>1
  <2>4. QED
    BY <2>2, <2>3 DEF C
<1>4. CASE tl # << >>
  <2> DEFINE e == tl[1]
             x == [proc |-> e.proc, expires |-> e.expires - 1]
  <2>1. N \in Nat \ {0} /\ 1 \in 1..N
    BY <1>1, <1>2, <1>4
  <2>2. e \in Item /\ e.expires # 0 /\ e.expires \in Nat /\ e.expires - 1 \in Nat
    BY <1>1, <1>2, <1>4, <2>1
  <2>3. [e EXCEPT !.expires = @ - 1] = x /\ x \in Item
    <3> HIDE DEF e
    <3>1. QED
      BY <2>2 DEF Item
  <2>4. C = [tl EXCEPT ![1] = x]
    BY <1>4, <2>3 DEF Counted
  <2> HIDE DEF C
  <2>5. C \in Seq(Item) /\ Len(C) = N /\ C[1] = x /\ \A i \in 1..N : i # 1 => C[i] = tl[i]
    <3> HIDE DEF x
    <3>1. QED
      BY <1>1, <2>1, <2>3, <2>4
  <2>6. \A i \in 1..N : C[i].proc = tl[i].proc
    BY <2>5
  <2>7. C[1].expires = S[1] - 1 /\ S[1] = e.expires
    <3>1. S[1] = S[1 - 1] + tl[1].expires
      BY <1>2, <2>1
    <3>2. QED
      BY <1>2, <2>2, <2>5, <3>1
  <2>8. ASSUME NEW i \in 1..N PROVE S[i] - 1 \in Nat
    <3>1. S[1] <= S[i]
      BY <1>1, <2>1, SumGrows
    <3>2. S[i] \in Nat /\ S[1] >= 1 /\ S[1] \in Nat
      BY <1>2, <2>2, <2>7
    <3>3. QED
      BY <3>1, <3>2
  <2>9. R \in [0..N -> Nat] /\ R[0] = 0
    BY <2>1, <2>8
  <2>10. ASSUME NEW i \in 1..N PROVE R[i] = R[i - 1] + C[i].expires
    <3>1. CASE i = 1
      <4>1. R[1] = S[1] - 1 /\ R[1 - 1] = 0
        BY <2>1
      <4>2. S[1] - 1 \in Nat
        BY <2>1, <2>8
      <4> HIDE DEF R
      <4>3. QED
        BY <2>7, <3>1, <4>1, <4>2
    <3>2. CASE i # 1
      <4>1. i \in 0..N /\ i - 1 \in 0..N /\ i - 1 # 0 /\ i # 0
        BY <3>2
      <4>2. R[i] = S[i] - 1 /\ R[i - 1] = S[i - 1] - 1
        BY <4>1
      <4>3. S[i] = S[i - 1] + tl[i].expires /\ C[i] = tl[i] /\ S[i - 1] \in Nat
            /\ tl[i].expires \in Nat
        BY <1>2, <2>5, <3>2, <4>1
      <4> HIDE DEF R
      <4>4. QED
        BY <4>2, <4>3
    <3>3. QED
      BY <3>1, <3>2
  <2>11. Sum(R, C)
    BY <2>5, <2>9, <2>10 DEF Sum
  <2>12. QED
    BY <2>5, <2>6, <2>8, <2>11 DEF C
<1>5. QED
  BY <1>3, <1>4

\* a tick takes one from everybody's time and wakes whoever had one left
LEMMA Tick ==
  ASSUME NEW tl, Good(tl)
  PROVE  /\ Good(Ticked(tl))
         /\ Gone(tl) = {p \in Proc : LeftIn(tl)[p] = 1}
         /\ Listed(Ticked(tl)) = Listed(tl) \ Gone(tl)
         /\ LeftIn(Ticked(tl)) = [p \in Proc |-> IF LeftIn(tl)[p] > 0 THEN LeftIn(tl)[p] - 1 ELSE 0]
<1> DEFINE N == Len(tl)
           C == Counted(tl)
           n == Expired(C)
           M == Ticked(tl)
           S == Sums(tl)
           Q == [i \in 0..N |-> IF i = 0 THEN 0 ELSE S[i] - 1]
           R == [i \in 0..(N - n) |-> Q[i + n]]
           L == LeftIn(tl)
           K == LeftIn(M)
<1>1. tl \in Seq(Item) /\ Distinct(tl)
  BY DEF Good
<1>2. Sum(S, tl)
  BY <1>1, SumsAre
<1>3. /\ C \in Seq(Item) /\ Len(C) = N /\ N \in Nat
      /\ \A i \in 1..N : C[i].proc = tl[i].proc
      /\ Sum(Q, C)
      /\ \A i \in 1..N : S[i] - 1 \in Nat
  <2> HIDE DEF C, S
  <2>1. QED
    BY <1>1, <1>2, CountedIs DEF C
<1> HIDE DEF C
<1>4. n \in 0..N /\ (\A i \in 1..n : C[i].expires = 0) /\ (n < N => C[n + 1].expires # 0)
  BY <1>3, ExpiredIs
<1>5. Gone(tl) = {C[i].proc : i \in 1..n} /\ M = SubSeq(C, n + 1, N)
  BY <1>3 DEF Gone, Ticked, C
<1>6. \A p \in Proc : L[p] \in Int /\ (p \notin Listed(tl) => L[p] = 0)
  <2> HIDE DEF L, S
  <2>1. Gives(tl, S, L)
    BY <1>2, LeftInGives DEF L
  <2>2. \A i \in 1..N : S[i] \in Int
    BY <1>2 DEF Sum
  <2>3. ASSUME NEW p \in Proc PROVE L[p] \in Int
    <3>1. CASE p \in Listed(tl)
      <4>1. PICK i \in 1..N : tl[i].proc = p
        BY <3>1 DEF Listed
      <4>2. QED
        BY <2>1, <2>2, <4>1 DEF Gives
    <3>2. CASE p \notin Listed(tl)
      BY <2>1, <3>2 DEF Gives
    <3>3. QED
      BY <3>1, <3>2
  <2>4. QED
    BY <2>1, <2>3 DEF Gives
<1>7. \A i \in 1..N : L[tl[i].proc] = S[i]
  BY <1>2, LeftInGives DEF Gives
<1> HIDE DEF n, M, S, L
<1>8. ASSUME NEW i \in 1..n PROVE i \in 1..N /\ S[i] = 1
  <2>1. Q[i] = 0
    <3> HIDE DEF Q
    <3>1. QED
      BY <1>3, <1>4, SumZero
  <2>2. i \in 1..N /\ i \in 0..N /\ i # 0
    BY <1>3, <1>4
  <2>3. S[i] - 1 = 0 /\ S[i] \in Nat
    BY <1>2, <2>1, <2>2 DEF Sum
  <2>4. QED
    BY <2>2, <2>3
<1>9. ASSUME NEW i \in (n + 1)..N PROVE i \in 1..N /\ S[i] > 1
  <2>1. i \in 1..N /\ i \in 0..N /\ i # 0 /\ n + 1 \in 1..N /\ n + 1 \in 0..N /\ n + 1 # 0 /\ n < N
    BY <1>3, <1>4
  <2>2. C[n + 1].expires # 0 /\ C[n + 1].expires \in Nat
    BY <1>3, <1>4, <2>1, ItemAt
  <2>3. Q[n + 1] >= 1
    <3>1. Q[n + 1] = Q[(n + 1) - 1] + C[n + 1].expires
      BY <1>3, <2>1 DEF Sum
    <3>2. Q[(n + 1) - 1] \in Nat
      <4>1. (n + 1) - 1 \in 0..N
        BY <1>4
      <4> HIDE DEF Q
      <4>2. QED
        BY <1>3, <4>1 DEF Sum
    <3> HIDE DEF Q
    <3>3. QED
      BY <2>2, <3>1, <3>2
  <2>4. Q[n + 1] <= Q[i]
    <3> HIDE DEF Q
    <3>1. QED
      BY <1>3, <2>1, SumGrows
  <2>5. Q[i] = S[i] - 1 /\ Q[n + 1] = S[n + 1] - 1
    BY <2>1
  <2>6. S[i] \in Nat /\ S[n + 1] \in Nat
    BY <1>2, <2>1 DEF Sum
  <2> HIDE DEF Q
  <2>7. QED
    BY <2>1, <2>3, <2>4, <2>5, <2>6
<1>10. /\ M \in Seq(Item) /\ Len(M) = N - n /\ N - n \in Nat
       /\ \A i \in 1..(N - n) : i + n \in (n + 1)..N /\ M[i] = C[i + n]
  BY <1>3, <1>4, <1>5
<1>11. Sum(R, M)
  <2>1. /\ \A i \in 0..N : Q[i] \in Nat
        /\ \A i \in 1..N : Q[i] = Q[i - 1] + C[i].expires
    <3> HIDE DEF Q
    <3>1. QED
      BY <1>3 DEF Sum
  <2>2. Q[n] = 0
    <3> HIDE DEF Q
    <3>1. QED
      BY <1>3, <1>4, SumZero
  <2> HIDE DEF Q
  <2>3. R \in [0..(N - n) -> Nat]
    <3>1. ASSUME NEW i \in 0..(N - n) PROVE R[i] \in Nat
      <4>1. i + n \in 0..N
        BY <1>3, <1>4
      <4>2. QED
        BY <2>1, <4>1
    <3>2. QED
      BY <3>1
  <2>4. R[0] = 0
    BY <1>4, <1>10, <2>2
  <2>5. ASSUME NEW i \in 1..(N - n) PROVE R[i] = R[i - 1] + M[i].expires
    <3> DEFINE a == i + n
    <3>1. a \in 1..N /\ i \in 0..(N - n) /\ i - 1 \in 0..(N - n) /\ (i - 1) + n = a - 1
      BY <1>3, <1>4
    <3>2. R[i] = Q[a] /\ R[i - 1] = Q[a - 1]
      BY <3>1
    <3>3. M[i] = C[a]
      BY <1>10
    <3> HIDE DEF a, R
    <3>4. QED
      BY <2>1, <3>1, <3>2, <3>3
  <2>6. QED
    BY <1>10, <2>3, <2>4, <2>5 DEF Sum
<1>12. ASSUME NEW i \in 1..(N - n)
       PROVE  i + n \in 1..N /\ M[i].proc = tl[i + n].proc /\ R[i] = S[i + n] - 1
  <2>1. i + n \in (n + 1)..N /\ i + n \in 1..N /\ i + n \in 0..N /\ i + n # 0 /\ i \in 0..(N - n)
    BY <1>3, <1>4
  <2>2. R[i] = S[i + n] - 1
    BY <2>1
  <2>3. QED
    BY <1>3, <1>10, <2>1, <2>2
<1>13. Good(M)
  <2>1. ASSUME NEW i \in 1..(N - n), NEW j \in 1..(N - n), M[i].proc = M[j].proc
        PROVE  i = j
    <3> HIDE DEF R
    <3>1. /\ i + n \in 1..N /\ M[i].proc = tl[i + n].proc
          /\ j + n \in 1..N /\ M[j].proc = tl[j + n].proc
      BY <1>12
    <3>2. i + n = j + n
      BY <1>1, <2>1, <3>1 DEF Distinct
    <3>3. QED
      BY <1>4, <3>2
  <2>2. ASSUME M # << >> PROVE M[1].expires # 0
    <3>1. 1 \in 1..(N - n) /\ n < N /\ 1 + n = n + 1
      BY <1>3, <1>4, <1>10, <2>2
    <3>2. QED
      BY <1>4, <1>10, <3>1
  <2>3. QED
    BY <1>10, <2>1, <2>2 DEF Good, Distinct
<1>14. /\ Listed(M) = {M[i].proc : i \in 1..(N - n)}
       /\ Listed(tl) = {tl[i].proc : i \in 1..N}
  BY <1>10 DEF Listed
<1>15. ASSUME NEW i \in 1..N
       PROVE  /\ tl[i].proc \in Proc
              /\ i \in 1..n => tl[i].proc \in Gone(tl)
              /\ i \in (n + 1)..N => tl[i].proc \in Listed(M)
              /\ i \in 1..n \/ i \in (n + 1)..N
  <2>1. tl[i].proc \in Proc
    BY <1>1, ItemAt
  <2>2. i \in 1..n => tl[i].proc \in Gone(tl)
    BY <1>3, <1>5
  <2>3. ASSUME i \in (n + 1)..N PROVE tl[i].proc \in Listed(M)
    <3>1. i - n \in 1..(N - n) /\ (i - n) + n = i
      BY <1>3, <1>4, <2>3
    <3>2. QED
      BY <1>12, <1>14, <3>1
  <2>4. QED
    BY <1>4, <2>1, <2>2, <2>3
<1>16. ASSUME NEW p \in Gone(tl) PROVE \E i \in 1..n : i \in 1..N /\ tl[i].proc = p
  BY <1>3, <1>5, <1>8
<1>17. ASSUME NEW p \in Listed(M)
       PROVE  \E i \in (n + 1)..N : i \in 1..N /\ tl[i].proc = p
  <2>1. PICK j \in 1..(N - n) : M[j].proc = p
    BY <1>14
  <2>2. j + n \in (n + 1)..N /\ j + n \in 1..N /\ tl[j + n].proc = p
    BY <1>10, <1>12, <2>1
  <2>3. QED
    BY <2>2
<1>18. Gone(tl) = {p \in Proc : L[p] = 1}
  <2>1. ASSUME NEW p \in Gone(tl) PROVE p \in Proc /\ L[p] = 1
    BY <1>7, <1>8, <1>15, <1>16
  <2>2. ASSUME NEW p \in Proc, L[p] = 1 PROVE p \in Gone(tl)
    <3>1. PICK i \in 1..N : tl[i].proc = p
      BY <1>6, <1>14, <2>2
    <3>2. S[i] = 1
      BY <1>7, <2>2, <3>1
    <3>3. i \notin (n + 1)..N
      BY <1>9, <3>2
    <3>4. QED
      BY <1>15, <3>1, <3>3
  <2>3. QED
    BY <2>1, <2>2
<1>19. Listed(M) = Listed(tl) \ Gone(tl)
  <2>1. ASSUME NEW p \in Listed(M) PROVE p \in Listed(tl) /\ p \notin Gone(tl)
    <3>1. PICK i \in (n + 1)..N : i \in 1..N /\ tl[i].proc = p
      BY <1>17
    <3>2. L[p] # 1
      BY <1>7, <1>9, <3>1
    <3>3. QED
      BY <1>14, <1>18, <3>1, <3>2
  <2>2. ASSUME NEW p \in Listed(tl), p \notin Gone(tl) PROVE p \in Listed(M)
    BY <1>14, <1>15, <2>2
  <2>3. QED
    BY <2>1, <2>2
<1>20. Gives(M, R, K)
  <2> HIDE DEF R
  <2>1. QED
    BY <1>11, <1>13, LeftInGives
<1> HIDE DEF K
<1>21. ASSUME NEW p \in Proc PROVE K[p] = IF L[p] > 0 THEN L[p] - 1 ELSE 0
  <2>1. CASE p \in Listed(M)
    <3>1. PICK j \in 1..(N - n) : M[j].proc = p
      BY <1>14, <2>1
    <3>2. K[p] = S[j + n] - 1
      BY <1>10, <1>12, <1>20, <3>1 DEF Gives
    <3>3. L[p] = S[j + n] /\ S[j + n] > 1
      BY <1>7, <1>9, <1>10, <1>12, <3>1
    <3>4. QED
      BY <1>6, <3>2, <3>3
  <2>2. CASE p \in Gone(tl)
    <3>1. p \notin Listed(M) /\ L[p] = 1
      BY <1>18, <1>19, <2>2
    <3>2. K[p] = 0
      BY <1>20, <3>1 DEF Gives
    <3>3. QED
      BY <3>1, <3>2
  <2>3. CASE p \notin Listed(M) /\ p \notin Gone(tl)
    <3>1. p \notin Listed(tl)
      BY <1>19, <2>3
    <3>2. K[p] = 0 /\ L[p] = 0
      BY <1>6, <1>20, <2>3, <3>1 DEF Gives
    <3>3. QED
      BY <3>2
  <2>4. QED
    BY <2>1, <2>2, <2>3
<1>22. K = [p \in Proc |-> IF L[p] > 0 THEN L[p] - 1 ELSE 0]
  <2>1. K = [p \in Proc |-> K[p]]
    BY <1>20 DEF Gives
  <2>2. QED
    BY <1>21, <2>1
<1>23. QED
  BY <1>13, <1>18, <1>19, <1>22 DEF M, L, K

-----------------------------------------------------------------------------
(* The inductive invariant.                                                *)

Inv == /\ Good(timer_list)
       /\ asleep \subseteq Listed(timer_list)
       /\ Listed(timer_list) \subseteq in_sleep
       /\ \A p \in Proc : Left[p] \in 0..MAX_SLEEP

\* Left is a function on the processes
LEMMA LeftShape ==
  ASSUME NEW tl
  PROVE  DOMAIN LeftIn(tl) = Proc /\ LeftIn(tl) = [p \in Proc |-> LeftIn(tl)[p]]
BY DEF LeftIn

LEMMA InitLeft == ASSUME Init PROVE Good(timer_list) /\ Left = [p \in Proc |-> 0]
<1>1. Good(timer_list)
  BY DEF Init, Good, Distinct
<1>2. ASSUME NEW p \in Proc PROVE Left[p] = 0
  BY DEF Left, LeftIn, Init
<1>3. QED
  BY <1>1, <1>2, LeftShape DEF Left

\* each action as what it does to the list and to everybody's time
LEMMA SleepStep ==
  ASSUME Inv, NEW p \in Proc, NEW t \in 1..MAX_SLEEP, Sleep(p, t)
  PROVE  /\ p \notin asleep /\ Left[p] = 0 /\ p \notin Listed(timer_list)
         /\ Changed(timer_list, p, t, timer_list') /\ t # 0
         /\ Left' = [Left EXCEPT ![p] = t]
<1>1. p \notin Listed(timer_list) /\ p \notin asleep
  BY DEF Inv, Sleep
<1>2. t \in Nat \ {0} /\ Good(timer_list) /\ timer_list' = add_timer(timer_list, p, t)
  BY DEF Inv, Sleep
<1>3. Changed(timer_list, p, t, timer_list')
  BY <1>1, <1>2, AddTimer
<1>4. Left' = [Left EXCEPT ![p] = t]
  BY <1>3 DEF Changed, Left
<1>5. Left[p] = 0
  <2>1. timer_list \in Seq(Item)
    BY <1>2 DEF Good
  <2>2. Sum(Sums(timer_list), timer_list)
    BY <2>1, SumsAre
  <2>3. QED
    BY <1>1, <1>2, <2>2, LeftInGives DEF Gives, Left
<1>6. QED
  BY <1>1, <1>2, <1>3, <1>4, <1>5

LEMMA ReturnStep ==
  ASSUME Inv, NEW p \in Proc, Return(p)
  PROVE  /\ Changed(timer_list, p, 0, timer_list')
         /\ Left' = [Left EXCEPT ![p] = 0]
<1>1. Good(timer_list) /\ timer_list' = del_timer(timer_list, p)
  BY DEF Inv, Return
<1>2. Changed(timer_list, p, 0, timer_list')
  BY <1>1, DelTimer
<1>3. QED
  BY <1>2 DEF Changed, Left

LEMMA TickStep ==
  ASSUME Inv, run_timer_list
  PROVE  /\ timer_list' = Ticked(timer_list) /\ Good(timer_list')
         /\ Listed(timer_list') = Listed(timer_list) \ Gone(timer_list)
         /\ asleep' = asleep \ {p \in Proc : Left[p] = 1}
         /\ asleep' = asleep \ Gone(timer_list)
         /\ Left' = [p \in Proc |-> IF Left[p] > 0 THEN Left[p] - 1 ELSE 0]
<1>1. /\ timer_list' = Ticked(timer_list)
      /\ asleep' = asleep \ Gone(timer_list)
  BY DEF run_timer_list, Ticked, Gone, Counted
<1>2. Good(timer_list)
  BY DEF Inv
<1>3. QED
  BY <1>1, <1>2, Tick DEF Left

\* Inv holds initially and every step preserves it
LEMMA InvInit == Init => Inv
<1> SUFFICES ASSUME Init PROVE Inv
  OBVIOUS
<1>1. Listed(timer_list) = {} /\ asleep = {}
  BY DEF Init, Listed
<1>2. QED
  BY <1>1, InitLeft, TimerAssumption DEF Inv

LEMMA InvStep == Inv /\ [Next]_vars => Inv'
<1> SUFFICES ASSUME Inv, [Next]_vars PROVE Inv'
  OBVIOUS
<1>1. DOMAIN Left = Proc /\ \A p \in Proc : Left[p] \in 0..MAX_SLEEP
  BY LeftShape DEF Inv, Left
<1>2. ASSUME NEW p \in Proc, NEW t \in 1..MAX_SLEEP, Sleep(p, t) PROVE Inv'
  <2>1. Changed(timer_list, p, t, timer_list') /\ t # 0 /\ Left' = [Left EXCEPT ![p] = t]
    BY <1>2, SleepStep
  <2>2. Good(timer_list') /\ Listed(timer_list') = Listed(timer_list) \cup {p}
    BY <2>1 DEF Changed
  <2>3. \A q \in Proc : Left'[q] \in 0..MAX_SLEEP
    BY <1>1, <2>1, TimerAssumption
  <2>4. QED
    BY <1>2, <2>2, <2>3 DEF Inv, Sleep
<1>3. ASSUME NEW p \in Proc, Kill(p) PROVE Inv'
  BY <1>3 DEF Kill, Inv, Left
<1>4. ASSUME NEW p \in Proc, Return(p) PROVE Inv'
  <2>1. Changed(timer_list, p, 0, timer_list') /\ Left' = [Left EXCEPT ![p] = 0]
    BY <1>4, ReturnStep
  <2>2. Good(timer_list') /\ Listed(timer_list') = Listed(timer_list) \ {p}
    BY <2>1 DEF Changed
  <2>3. \A q \in Proc : Left'[q] \in 0..MAX_SLEEP
    BY <1>1, <2>1, TimerAssumption
  <2>4. QED
    BY <1>4, <2>2, <2>3 DEF Inv, Return
<1>5. CASE run_timer_list
  <2>1. \A q \in Proc : Left'[q] \in 0..MAX_SLEEP
    BY <1>1, <1>5, TickStep, TimerAssumption
  <2>2. asleep' \subseteq Listed(timer_list') /\ Listed(timer_list') \subseteq in_sleep'
    BY <1>5, TickStep DEF Inv, run_timer_list
  <2>3. QED
    BY <1>5, <2>1, <2>2, TickStep DEF Inv
<1>6. CASE UNCHANGED vars
  BY <1>6 DEF vars, Inv, Left
<1>7. QED
  BY <1>2, <1>3, <1>4, <1>5, <1>6 DEF Next

LEMMA Invariance == Spec => []Inv
BY InvInit, InvStep, PTL DEF Spec

\* The assertions of add_timer and run_timer_list never fail, for any number of
\* sleepers and any bound on their sleeps: run_timer_list never finds a first
\* entry that has already expired, no process has two entries, and every
\* sleeper has one.
THEOREM ListStaysSound == Spec => []ListSound
<1>1. Inv => ListSound
  BY DEF Inv, ListSound, Good, Distinct, Listed
<1>2. QED
  BY <1>1, Invariance, PTL

\* del_timer adds the ticks of a deleted entry to the one behind it, but the
\* expires field never exceeds the longest sleep asked for: no entry overflows.
THEOREM ExpiresBounded == Spec => [](timer_list \in Seq(Entry))
<1>1. ASSUME Inv PROVE timer_list \in Seq(Entry)
  <2> DEFINE tl == timer_list
             S == Sums(tl)
             N == Len(tl)
  <2>1. Good(tl) /\ tl \in Seq(Item)
    BY <1>1 DEF Inv, Good
  <2>2. Sum(S, tl) /\ Gives(tl, S, Left)
    BY <2>1, SumsAre, LeftInGives DEF Left
  <2> HIDE DEF S
  <2>3. ASSUME NEW i \in 1..N PROVE tl[i] \in Entry
    <3>1. tl[i] \in Item /\ tl[i].proc \in Proc /\ tl[i].expires \in Nat /\ N \in Nat
      BY <2>1, ItemAt
    <3>2. Left[tl[i].proc] = S[i] /\ S[i] \in 0..MAX_SLEEP
      BY <1>1, <2>2, <3>1 DEF Gives, Inv
    <3>3. i - 1 \in 0..N
      BY <3>1
    <3>4. S[i - 1] \in Nat /\ S[i] = S[i - 1] + tl[i].expires
      BY <2>2, <3>3 DEF Sum
    <3>5. tl[i].expires \in 0..MAX_SLEEP
      BY <3>1, <3>2, <3>4, TimerAssumption
    <3>6. QED
      BY <3>1, <3>5 DEF Item, Entry
  <2>4. QED
    BY <2>1, <2>3
<1>2. QED
  BY <1>1, Invariance, PTL

-----------------------------------------------------------------------------
(* Refinement: the list of differences implements independent countdowns.  *)

LEMMA RefineInit == Init => Deadlines!Init
BY InitLeft DEF Init, Deadlines!Init

LEMMA RefineStep == Inv /\ [Next]_vars => [Deadlines!Next]_(Deadlines!vars)
<1> SUFFICES ASSUME Inv, [Next]_vars PROVE Deadlines!Next \/ UNCHANGED Deadlines!vars
  BY DEF Deadlines!vars
<1>1. ASSUME NEW p \in Proc, NEW t \in 1..MAX_SLEEP, Sleep(p, t) PROVE Deadlines!Sleep(p, t)
  BY <1>1, SleepStep DEF Sleep, Deadlines!Sleep
<1>2. ASSUME NEW p \in Proc, Kill(p) PROVE Deadlines!Kill(p)
  BY <1>2 DEF Kill, Deadlines!Kill, Left
<1>3. ASSUME NEW p \in Proc, Return(p) PROVE Deadlines!Return(p)
  BY <1>3, ReturnStep DEF Return, Deadlines!Return
<1>4. CASE run_timer_list
  BY <1>4, TickStep DEF Deadlines!Tick, Deadlines!Next
<1>5. CASE UNCHANGED vars
  BY <1>5 DEF vars, Deadlines!vars, Left
<1>6. QED
  BY <1>1, <1>2, <1>3, <1>4, <1>5 DEF Next, Deadlines!Next

\* add_timer, del_timer and run_timer_list on the list of differences implement
\* independent countdowns (Timers): whoever else sleeps, is killed or returns
\* early, a process that sleeps for t ticks is woken by exactly the t-th tick.
THEOREM ListImplementsTimers == Spec => ImplementsTimers
<1>1. Spec => [][Deadlines!Next]_(Deadlines!vars)
  BY RefineStep, Invariance, PTL DEF Spec
<1>2. Spec => Deadlines!Init
  BY RefineInit DEF Spec
<1>3. QED
  BY <1>1, <1>2 DEF ImplementsTimers, Deadlines!Spec
=============================================================================
