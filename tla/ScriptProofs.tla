----------------------------- MODULE ScriptProofs -----------------------------
(***************************************************************************)
(* Proofs about the walk of get_command along the path of a team, for every *)
(* map, path and formation.                                                 *)
(*                                                                          *)
(* The loops of the code are recursive functions here.  Induct is induction *)
(* over the naturals of which a set is the subject; from it Recursion and   *)
(* Walk let functions over numbers and over ways along the map be unfolded. *)
(* With them AheadFinds and BehindFinds compare the walk from the centre to *)
(* an AGV before and after a round, RoundMeets and TurnMeets count the      *)
(* meetings of what a round and a team turn emit, and StaysAbreast is what  *)
(* parallel lines are needed for.  The inductive invariant is SMInv.        *)
(***************************************************************************)
EXTENDS ScriptManager, WellFoundedInduction, TLAPS

-----------------------------------------------------------------------------
LEMMA LeastNumber ==
  ASSUME NEW T, T \subseteq Nat, T # {}
  PROVE  \E n \in T : \A m \in T : n <= m
<1>1. \E x \in T : \A y \in T : ~ (<<y, x>> \in OpToRel(<, Nat))
  BY WFMin, NatLessThanWellFounded, Zenon
<1>2. PICK x \in T : \A y \in T : ~(y < x)
  BY <1>1, Zenon DEF OpToRel
<1>3. QED BY <1>2

\* Induction over the naturals, of a set of them
LEMMA Induct ==
  ASSUME NEW T, 0 \in T, \A n \in Nat : n \in T => n + 1 \in T
  PROVE  Nat \subseteq T
<1> SUFFICES ASSUME Nat \ T # {} PROVE FALSE
  OBVIOUS
<1>1. PICK n \in Nat \ T : \A m \in Nat \ T : n <= m
  BY LeastNumber
<1>2. n - 1 \in Nat /\ n - 1 \in T /\ n - 1 + 1 = n BY <1>1
<1>3. QED BY <1>1, <1>2

\* A recursion whose every step goes down in size ...
Descends(P, R, size, Body) ==
  /\ R # {} /\ size \in [P -> Nat] /\ Body \in [[P -> R] \X P -> R]
  /\ \A f, g \in [P -> R] : \A p \in P :
       (\A q \in P : size[q] < size[p] => f[q] = g[q])
         => Body[<<f, p>>] = Body[<<g, p>>]

\* ... defines a function.
LEMMA Recursion ==
  ASSUME NEW P, NEW R, NEW size, NEW Body, Descends(P, R, size, Body)
  PROVE  \E f \in [P -> R] : \A p \in P : f[p] = Body[<<f, p>>]
<1> USE DEF Descends
<1> DEFINE Good(k, f) == \A p \in P : size[p] < k => f[p] = Body[<<f, p>>]
<1>1. \A f \in [P -> R] : \A p \in P : Body[<<f, p>>] \in R OBVIOUS
<1>2. \A k \in Nat : \E f \in [P -> R] : Good(k, f)
  <2> DEFINE T == {k \in Nat : \E f \in [P -> R] : Good(k, f)}
  <2>1. 0 \in T
    <3>1. PICK r \in R : TRUE OBVIOUS
    <3>2. [p \in P |-> r] \in [P -> R] OBVIOUS
    <3>3. \A p \in P : ~(size[p] < 0) OBVIOUS
    <3>4. QED BY <3>2, <3>3
  <2>2. ASSUME NEW k \in Nat, k \in T PROVE k + 1 \in T
    <3>1. PICK f \in [P -> R] : Good(k, f) BY <2>2
    <3> DEFINE g == [p \in P |-> Body[<<f, p>>]]
    <3>2. g \in [P -> R] BY <1>1
    <3>3. \A p \in P : g[p] = Body[<<f, p>>] OBVIOUS
    <3> HIDE DEF g
    <3>4. ASSUME NEW p \in P, size[p] < k + 1 PROVE g[p] = Body[<<g, p>>]
      <4>1. \A q \in P : size[q] < size[p] => f[q] = g[q]
        <5> SUFFICES ASSUME NEW q \in P, size[q] < size[p] PROVE f[q] = g[q]
          OBVIOUS
        <5>1. size[q] < k BY <3>4
        <5>2. f[q] = Body[<<f, q>>] BY <3>1, <5>1
        <5>3. QED BY <3>3, <5>2
      <4>2. Body[<<f, p>>] = Body[<<g, p>>] BY <3>2, <4>1
      <4>3. QED BY <3>3, <4>2
    <3>5. Good(k + 1, g) BY <3>4
    <3>6. QED BY <3>2, <3>5
  <2> HIDE DEF T
  <2>3. Nat \subseteq T BY <2>1, <2>2, Induct
  <2>4. QED BY <2>3 DEF T
<1>3. \A k \in Nat : \A f, g \in [P -> R] :
        Good(k, f) /\ Good(k, g) => \A p \in P : size[p] < k => f[p] = g[p]
  <2> DEFINE Same(k) == \A f, g \in [P -> R] :
               Good(k, f) /\ Good(k, g) => \A p \in P : size[p] < k => f[p] = g[p]
             T == {k \in Nat : Same(k)}
  <2>1. Same(0)
    <3>1. \A p \in P : ~(size[p] < 0) OBVIOUS
    <3>2. QED BY <3>1
  <2>2. ASSUME NEW k \in Nat, Same(k) PROVE Same(k + 1)
    <3> SUFFICES ASSUME NEW f \in [P -> R], NEW g \in [P -> R],
                        Good(k + 1, f), Good(k + 1, g),
                        NEW p \in P, size[p] < k + 1
                 PROVE  f[p] = g[p]
      BY Zenon
    <3>1. \A q \in P : size[q] < k => size[q] < k + 1 OBVIOUS
    <3>2. Good(k, f) /\ Good(k, g) BY <3>1
    <3>3. \A q \in P : size[q] < k => f[q] = g[q] BY <2>2, <3>2
    <3>4. \A q \in P : size[q] < size[p] => size[q] < k OBVIOUS
    <3>5. Body[<<f, p>>] = Body[<<g, p>>] BY <3>3, <3>4
    <3>6. f[p] = Body[<<f, p>>] /\ g[p] = Body[<<g, p>>] OBVIOUS
    <3>7. QED BY <3>5, <3>6
  <2> HIDE DEF Same
  <2>3. 0 \in T /\ \A k \in Nat : k \in T => k + 1 \in T BY <2>1, <2>2
  <2> HIDE DEF T
  <2>4. Nat \subseteq T BY <2>3, Induct
  <2>5. QED BY <2>4 DEF T, Same
<1> DEFINE A(k) == CHOOSE f \in [P -> R] : Good(k, f)
           F == [p \in P |-> A(size[p] + 1)[p]]
<1>4. \A k \in Nat : A(k) \in [P -> R] /\ Good(k, A(k)) BY <1>2
<1> HIDE DEF A
<1>5. \A p \in P : size[p] + 1 \in Nat OBVIOUS
<1>6. F \in [P -> R] BY <1>4, <1>5
<1>7. \A p \in P : F[p] = A(size[p] + 1)[p] OBVIOUS
<1> HIDE DEF F
<1>8. ASSUME NEW p \in P PROVE F[p] = Body[<<F, p>>]
  <2> DEFINE f == A(size[p] + 1)
  <2>1. f \in [P -> R] /\ Good(size[p] + 1, f) BY <1>4, <1>5
  <2> HIDE DEF f
  <2>2. F[p] = f[p] BY <1>7 DEF f
  <2>3. size[p] < size[p] + 1 BY <1>5
  <2>4. f[p] = Body[<<f, p>>] BY <2>1, <2>3
  <2>5. ASSUME NEW q \in P, size[q] < size[p] PROVE f[q] = F[q]
    <3> DEFINE g == A(size[q] + 1)
    <3>1. g \in [P -> R] /\ Good(size[q] + 1, g) BY <1>4, <1>5
    <3> HIDE DEF g
    <3>2. F[q] = g[q] BY <1>7 DEF g
    <3>3. \A x \in P : size[x] < size[q] + 1 => size[x] < size[p] + 1 BY <2>5
    <3>4. Good(size[q] + 1, f) BY <2>1, <3>3
    <3>5. size[q] < size[q] + 1 BY <1>5
    <3>6. f[q] = g[q] BY <1>3, <1>5, <2>1, <3>1, <3>4, <3>5
    <3>7. QED BY <3>2, <3>6
  <2>6. Body[<<f, p>>] = Body[<<F, p>>] BY <1>6, <2>1, <2>5
  <2>7. QED BY <2>2, <2>4, <2>6
<1>9. QED BY <1>6, <1>8

\* A walk that ends at Stop, and comes closer with every step until then, ...
WalksTo(P, R, size, Stop, Val, Next) ==
  /\ R # {} /\ size \in [P -> Nat] /\ Val \in [P -> R] /\ Next \in [P -> P]
  /\ \A p \in P : p \notin Stop => size[Next[p]] < size[p]

\* ... is a recursive function.
LEMMA Walk ==
  ASSUME NEW P, NEW R, NEW size, NEW Stop, NEW Val, NEW Next,
         WalksTo(P, R, size, Stop, Val, Next)
  PROVE  \E f \in [P -> R] : f = [p \in P |-> IF p \in Stop THEN Val[p] ELSE f[Next[p]]]
<1> USE DEF WalksTo
<1> DEFINE Body == [x \in [P -> R] \X P |->
                      IF x[2] \in Stop THEN Val[x[2]] ELSE x[1][Next[x[2]]]]
<1>1. \A f \in [P -> R], p \in P :
        Body[<<f, p>>] = IF p \in Stop THEN Val[p] ELSE f[Next[p]]
  OBVIOUS
<1>2. Body \in [[P -> R] \X P -> R] OBVIOUS
<1> HIDE DEF Body
<1>3. \A f, g \in [P -> R] : \A p \in P :
        (\A q \in P : size[q] < size[p] => f[q] = g[q])
          => Body[<<f, p>>] = Body[<<g, p>>]
  <2> SUFFICES ASSUME NEW f \in [P -> R], NEW g \in [P -> R], NEW p \in P,
                      \A q \in P : size[q] < size[p] => f[q] = g[q]
               PROVE  Body[<<f, p>>] = Body[<<g, p>>]
    BY Zenon
  <2>1. /\ Body[<<f, p>>] = IF p \in Stop THEN Val[p] ELSE f[Next[p]]
        /\ Body[<<g, p>>] = IF p \in Stop THEN Val[p] ELSE g[Next[p]]
    BY <1>1
  <2>2. p \notin Stop => f[Next[p]] = g[Next[p]] OBVIOUS
  <2>3. QED BY <2>1, <2>2
<1>4. Descends(P, R, size, Body) BY <1>2, <1>3 DEF Descends
<1>5. PICK f \in [P -> R] : \A p \in P : f[p] = Body[<<f, p>>] BY <1>4, Recursion
<1>6. \A p \in P : f[p] = IF p \in Stop THEN Val[p] ELSE f[Next[p]] BY <1>1, <1>5
<1>7. f = [p \in P |-> IF p \in Stop THEN Val[p] ELSE f[Next[p]]] BY <1>6
<1>8. QED BY <1>7

-----------------------------------------------------------------------------
LEMMA SumUnfolds ==
  ASSUME NEW q \in Seq(Int)
  PROVE  \E f \in [0..Len(q) -> Int] :
           /\ SumOf(q) = f[Len(q)]
           /\ f[0] = 0
           /\ \A k \in 1..Len(q) : f[k] = f[k - 1] + q[k]
<1> DEFINE P == 0..Len(q)
           size == [k \in P |-> k]
           Body == [x \in [P -> Int] \X P |->
                      IF x[2] = 0 THEN 0 ELSE x[1][x[2] - 1] + q[x[2]]]
<1>1. Len(q) \in Nat /\ \A k \in 1..Len(q) : q[k] \in Int OBVIOUS
<1>2. /\ \A f \in [P -> Int], k \in P :
           Body[<<f, k>>] = IF k = 0 THEN 0 ELSE f[k - 1] + q[k]
      /\ \A f \in [P -> Int], k \in P :
           (IF k = 0 THEN 0 ELSE f[k - 1] + q[k]) \in Int
  <2>1. \A f \in [P -> Int], k \in P :
           (IF k = 0 THEN 0 ELSE f[k - 1] + q[k]) \in Int
    BY <1>1
  <2> HIDE DEF P
  <2>2. QED BY <2>1
<1>3. Body \in [[P -> Int] \X P -> Int] BY <1>2
<1>4. size \in [P -> Nat] /\ \A k \in P : size[k] = k BY <1>1
<1> HIDE DEF Body, size
<1>5. \A f, g \in [P -> Int] : \A k \in P :
        (\A j \in P : size[j] < size[k] => f[j] = g[j])
          => Body[<<f, k>>] = Body[<<g, k>>]
  <2> SUFFICES ASSUME NEW f \in [P -> Int], NEW g \in [P -> Int], NEW k \in P,
                      \A j \in P : size[j] < size[k] => f[j] = g[j]
               PROVE  Body[<<f, k>>] = Body[<<g, k>>]
    BY Zenon
  <2>1. k # 0 => k - 1 \in P /\ k - 1 < k BY <1>1
  <2>2. k # 0 => f[k - 1] = g[k - 1] BY <1>4, <2>1
  <2>3. /\ Body[<<f, k>>] = IF k = 0 THEN 0 ELSE f[k - 1] + q[k]
        /\ Body[<<g, k>>] = IF k = 0 THEN 0 ELSE g[k - 1] + q[k]
    BY <1>2
  <2>4. QED BY <2>2, <2>3
<1>6. PICK f \in [P -> Int] : \A k \in P : f[k] = Body[<<f, k>>]
  <2>1. Int # {} OBVIOUS
  <2> HIDE DEF P
  <2>2. Descends(P, Int, size, Body) BY <1>3, <1>4, <1>5, <2>1 DEF Descends
  <2>3. QED BY <2>2, Recursion
<1>7. \A k \in P : f[k] = IF k = 0 THEN 0 ELSE f[k - 1] + q[k]
  BY <1>2, <1>6
<1>8. f = [k \in P |-> IF k = 0 THEN 0 ELSE f[k - 1] + q[k]]
  BY <1>7
<1> DEFINE g == CHOOSE sum : sum = [k \in P |-> IF k = 0 THEN 0 ELSE sum[k - 1] + q[k]]
<1>9. g = [k \in P |-> IF k = 0 THEN 0 ELSE g[k - 1] + q[k]]
  BY <1>8, Zenon
<1>10. SumOf(q) = g[Len(q)] BY Zenon DEF SumOf
<1> HIDE DEF g
<1>11. g[0] = 0 /\ \A k \in 1..Len(q) : g[k] = g[k - 1] + q[k]
  BY <1>1, <1>9
<1>12. g \in [P -> Int]
  <2> DEFINE T == {n \in Nat : n \in P => g[n] \in Int}
  <2>1. 0 \in T BY <1>11
  <2>2. \A n \in Nat : n \in T => n + 1 \in T BY <1>1, <1>11
  <2> HIDE DEF T
  <2>3. Nat \subseteq T BY <2>1, <2>2, Induct
  <2>4. \A n \in P : g[n] \in Int BY <1>1, <2>3 DEF T
  <2>5. QED BY <1>9, <2>4
<1>13. QED BY <1>10, <1>11, <1>12

LEMMA SumsAre ==
  /\ SumOf(<<>>) = 0
  /\ \A q \in Seq(Int) : SumOf(q) \in Int
  /\ \A a \in Int : SumOf(<<a>>) = a
  /\ \A a, b \in Int : SumOf(<<a, b>>) = a + b
  /\ \A a, b, c \in Int : SumOf(<<a, b, c>>) = a + b + c
  /\ \A a, b, c, d \in Int : SumOf(<<a, b, c, d>>) = a + b + c + d
<1>1. SumOf(<<>>) = 0
  <2>1. <<>> \in Seq(Int) /\ Len(<<>>) = 0 OBVIOUS
  <2>2. QED BY <2>1, SumUnfolds
<1>2. \A q \in Seq(Int) : SumOf(q) \in Int
  <2> SUFFICES ASSUME NEW q \in Seq(Int) PROVE SumOf(q) \in Int OBVIOUS
  <2>1. PICK f \in [0..Len(q) -> Int] : SumOf(q) = f[Len(q)] BY SumUnfolds
  <2>2. Len(q) \in 0..Len(q) OBVIOUS
  <2>3. QED BY <2>1, <2>2
<1>3. ASSUME NEW a \in Int PROVE SumOf(<<a>>) = a
  <2> DEFINE q == <<a>>
  <2>1. q \in Seq(Int) /\ Len(q) = 1 /\ q[1] = a OBVIOUS
  <2> HIDE DEF q
  <2>2. PICK f \in [0..1 -> Int] :
          SumOf(q) = f[1] /\ f[0] = 0 /\ \A k \in 1..1 : f[k] = f[k - 1] + q[k]
    BY <2>1, SumUnfolds
  <2>3. f[1] = f[0] + a BY <2>1, <2>2
  <2>4. QED BY <2>2, <2>3 DEF q
<1>4. ASSUME NEW a \in Int, NEW b \in Int PROVE SumOf(<<a, b>>) = a + b
  <2> DEFINE q == <<a, b>>
  <2>1. q \in Seq(Int) /\ Len(q) = 2 /\ q[1] = a /\ q[2] = b OBVIOUS
  <2> HIDE DEF q
  <2>2. PICK f \in [0..2 -> Int] :
          SumOf(q) = f[2] /\ f[0] = 0 /\ \A k \in 1..2 : f[k] = f[k - 1] + q[k]
    BY <2>1, SumUnfolds
  <2>3. f[1] = f[0] + a /\ f[2] = f[1] + b BY <2>1, <2>2
  <2>4. QED BY <2>2, <2>3 DEF q
<1>5. ASSUME NEW a \in Int, NEW b \in Int, NEW c \in Int
      PROVE  SumOf(<<a, b, c>>) = a + b + c
  <2> DEFINE q == <<a, b, c>>
  <2>1. q \in Seq(Int) /\ Len(q) = 3 /\ q[1] = a /\ q[2] = b /\ q[3] = c OBVIOUS
  <2> HIDE DEF q
  <2>2. PICK f \in [0..3 -> Int] :
          SumOf(q) = f[3] /\ f[0] = 0 /\ \A k \in 1..3 : f[k] = f[k - 1] + q[k]
    BY <2>1, SumUnfolds
  <2>3. f[1] = f[0] + a /\ f[2] = f[1] + b /\ f[3] = f[2] + c BY <2>1, <2>2
  <2>4. QED BY <2>2, <2>3 DEF q
<1>6. ASSUME NEW a \in Int, NEW b \in Int, NEW c \in Int, NEW d \in Int
      PROVE  SumOf(<<a, b, c, d>>) = a + b + c + d
  <2> DEFINE q == <<a, b, c, d>>
  <2>1. q \in Seq(Int) /\ Len(q) = 4 /\ q[1] = a /\ q[2] = b /\ q[3] = c /\ q[4] = d
    OBVIOUS
  <2> HIDE DEF q
  <2>2. PICK f \in [0..4 -> Int] :
          SumOf(q) = f[4] /\ f[0] = 0 /\ \A k \in 1..4 : f[k] = f[k - 1] + q[k]
    BY <2>1, SumUnfolds
  <2>3. f[1] = f[0] + a /\ f[2] = f[1] + b /\ f[3] = f[2] + c /\ f[4] = f[3] + d
    BY <2>1, <2>2
  <2>4. QED BY <2>2, <2>3 DEF q
<1>7. QED BY <1>1, <1>2, <1>3, <1>4, <1>5, <1>6

LEMMA SumConcat ==
  ASSUME NEW q \in Seq(Int), NEW r \in Seq(Int)
  PROVE  SumOf(q \o r) = SumOf(q) + SumOf(r)
<1> DEFINE s == q \o r
           n == Len(q)
           m == Len(r)
<1>1. /\ n \in Nat /\ m \in Nat /\ s \in Seq(Int) /\ Len(s) = n + m
      /\ \A k \in 1..n : s[k] = q[k]
      /\ \A k \in 1..m : s[n + k] = r[k]
      /\ \A k \in 1..n : q[k] \in Int
      /\ \A k \in 1..m : r[k] \in Int
  OBVIOUS
<1>2. PICK f \in [0..n -> Int] :
        SumOf(q) = f[n] /\ f[0] = 0 /\ \A k \in 1..n : f[k] = f[k - 1] + q[k]
  BY SumUnfolds
<1>3. PICK g \in [0..m -> Int] :
        SumOf(r) = g[m] /\ g[0] = 0 /\ \A k \in 1..m : g[k] = g[k - 1] + r[k]
  BY SumUnfolds
<1> HIDE DEF s, n, m
<1>4. PICK h \in [0..(n + m) -> Int] :
        SumOf(s) = h[n + m] /\ h[0] = 0 /\ \A k \in 1..(n + m) : h[k] = h[k - 1] + s[k]
  <2>1. s \in Seq(Int) /\ Len(s) = n + m BY <1>1
  <2>2. \E h \in [0..Len(s) -> Int] :
          SumOf(s) = h[Len(s)] /\ h[0] = 0 /\ \A k \in 1..Len(s) : h[k] = h[k - 1] + s[k]
    BY <2>1, SumUnfolds
  <2>3. QED BY <2>1, <2>2
<1>5. h[n] = f[n]
  <2> DEFINE T == {k \in Nat : k <= n => h[k] = f[k]}
  <2>1. 0 \in T BY <1>2, <1>4
  <2>2. ASSUME NEW k \in Nat, k \in T PROVE k + 1 \in T
    <3>1. SUFFICES ASSUME k + 1 <= n PROVE h[k + 1] = f[k + 1] OBVIOUS
    <3>2. k + 1 \in 1..n /\ k + 1 \in 1..(n + m) /\ (k + 1) - 1 = k BY <1>1, <3>1
    <3>3. h[k + 1] = h[k] + s[k + 1] BY <1>4, <3>2
    <3>4. f[k + 1] = f[k] + q[k + 1] BY <1>2, <3>2
    <3>5. h[k] = f[k] BY <1>1, <2>2, <3>1
    <3>6. QED BY <1>1, <3>2, <3>3, <3>4, <3>5
  <2> HIDE DEF T
  <2>3. Nat \subseteq T BY <2>1, <2>2, Induct
  <2>4. QED BY <1>1, <2>3 DEF T
<1>6. h[n + m] = f[n] + g[m]
  <2> DEFINE T == {k \in Nat : k <= m => h[n + k] = f[n] + g[k]}
  <2>1. 0 \in T BY <1>1, <1>2, <1>3, <1>5
  <2>2. ASSUME NEW k \in Nat, k \in T PROVE k + 1 \in T
    <3>1. SUFFICES ASSUME k + 1 <= m PROVE h[n + (k + 1)] = f[n] + g[k + 1] OBVIOUS
    <3>2. /\ k + 1 \in 1..m /\ n + (k + 1) \in 1..(n + m)
          /\ (k + 1) - 1 = k /\ (n + (k + 1)) - 1 = n + k
      BY <1>1, <3>1
    <3>3. h[n + (k + 1)] = h[n + k] + s[n + (k + 1)] BY <1>4, <3>2
    <3>4. g[k + 1] = g[k] + r[k + 1] BY <1>3, <3>2
    <3>5. h[n + k] = f[n] + g[k] BY <1>1, <2>2, <3>1
    <3>6. s[n + (k + 1)] = r[k + 1] BY <1>1, <3>2
    <3>7. f[n] \in Int /\ g[k] \in Int /\ r[k + 1] \in Int 
      <4>1. n \in 0..n /\ k \in 0..m BY <1>1, <3>1
      <4>2. QED BY <1>1, <1>2, <1>3, <3>2, <4>1
    <3>8. QED BY <3>3, <3>4, <3>5, <3>6, <3>7
  <2> HIDE DEF T
  <2>3. Nat \subseteq T BY <2>1, <2>2, Induct
  <2>4. QED BY <1>1, <2>3 DEF T
<1>7. QED BY <1>2, <1>3, <1>4, <1>6 DEF s

-----------------------------------------------------------------------------
Reached == [id : Nodes, dist : Int] \cup {Border}

\* A link is one of the map's.
LEMMA LinksOfMap ==
  ASSUME NEW n \in Nodes, NEW angle, LinksAt(n, angle) # {}
  PROVE  /\ The(LinksAt(n, angle)) \in Map[n] /\ The(LinksAt(n, angle)).angle = angle
         /\ The(LinksAt(n, angle)).id \in Nodes
         /\ The(LinksAt(n, angle)).dist \in 1..MaxDist
<1>1. The(LinksAt(n, angle)) \in LinksAt(n, angle) BY Zenon DEF The
<1>2. ASSUME NEW x \in LinksAt(n, angle)
      PROVE  x \in Map[n] /\ x.angle = angle /\ x.id \in Nodes /\ x.dist \in 1..MaxDist
  <2>1. x \in Map[n] /\ x.angle = angle BY Zenon DEF LinksAt
  <2>2. QED BY <2>1, MapAssumption
<1>3. QED BY <1>1, <1>2, Zenon

LEMMA OnwardOfMap ==
  ASSUME NEW n \in Nodes, NEW h, Onward(n, h) # {}
  PROVE  The(Onward(n, h)).id \in Nodes /\ The(Onward(n, h)).dist \in 1..MaxDist
BY LinksOfMap, Zenon DEF Onward

LEMMA BackOfMap ==
  ASSUME NEW n \in Nodes, NEW h, Back(n, h) # {}
  PROVE  The(Back(n, h)).id \in Nodes /\ The(Back(n, h)).dist \in 1..MaxDist
BY LinksOfMap, Zenon DEF Back

LEMMA AheadUnfolds ==
  ASSUME NEW h, NEW n \in Nodes, NEW d \in Int
  PROVE  /\ d < 0 => Ahead(h)[<<n, d>>] = [id |-> n, dist |-> -d]
         /\ d >= 0 /\ Onward(n, h) = {} => Ahead(h)[<<n, d>>] = Border
         /\ d >= 0 /\ Onward(n, h) # {} =>
              Ahead(h)[<<n, d>>]
                = Ahead(h)[<<The(Onward(n, h)).id, d - The(Onward(n, h)).dist>>]
<1> DEFINE P == Nodes \X Int
           size == [p \in P |-> IF p[2] < 0 THEN 0 ELSE p[2] + 1]
           L(p) == The(Onward(p[1], h))
           Step(p) == <<L(p).id, p[2] - L(p).dist>>
           Here(p) == [id |-> p[1], dist |-> -p[2]]
           Out(p) == Onward(p[1], h) = {}
           Stop == {p \in P : p[2] < 0 \/ Out(p)}
           Val == [p \in P |-> IF p[2] < 0 THEN Here(p) ELSE Border]
           Next == [p \in P |-> IF p \in Stop THEN p ELSE Step(p)]
           Again(w) == [p \in P |-> IF p[2] < 0 THEN Here(p)
                                    ELSE IF Out(p) THEN Border ELSE w[Step(p)]]
<1>1. ASSUME NEW p \in P, p \notin Stop
      PROVE  /\ Step(p) \in P
             /\ size[Step(p)] < size[p]
  <2>1. p[1] \in Nodes /\ p[2] \in Int /\ ~(p[2] < 0) /\ Onward(p[1], h) # {} BY <1>1
  <2>2. L(p).id \in Nodes /\ L(p).dist \in 1..MaxDist BY <2>1, OnwardOfMap, Zenon
  <2>3. PICK e \in Nodes, x \in 1..MaxDist : Step(p) = <<e, p[2] - x>>
    BY <2>2, Zenon
  <2> HIDE DEF Step
  <2>4. p[2] - x \in Int /\ p[2] - x < p[2]
    <3>1. \A y \in Int : y - x \in Int /\ y - x < y BY DEF MaxDist
    <3>2. QED BY <2>1, <3>1
  <2>5. Step(p) \in P /\ Step(p)[2] = p[2] - x BY <2>3, <2>4
  <2>6. QED BY <2>1, <2>4, <2>5
<1>2. \A p \in P : p[1] \in Nodes /\ p[2] \in Int OBVIOUS
<1>3. \A p \in P : Here(p) \in Reached BY <1>2 DEF Reached
<1>4. size \in [P -> Nat] BY <1>2
<1>5. Border \in Reached BY DEF Reached
<1> HIDE DEF P, size, Step, Here, Out, L
<1>6. Val \in [P -> Reached] BY <1>3, <1>5
<1>7. Next \in [P -> P] BY <1>1
<1>8. \A p \in P : p \notin Stop => size[Next[p]] < size[p] BY <1>1
<1>9. \A w : [p \in P |-> IF p \in Stop THEN Val[p] ELSE w[Next[p]]] = Again(w)
  OBVIOUS
<1> HIDE DEF Stop, Val, Next
<1>10. \E f \in [P -> Reached] : f = [p \in P |-> IF p \in Stop THEN Val[p] ELSE f[Next[p]]]
  <2>1. Reached # {} BY <1>5
  <2>2. WalksTo(P, Reached, size, Stop, Val, Next)
    BY <1>4, <1>6, <1>7, <1>8, <2>1 DEF WalksTo
  <2>3. QED BY <2>2, Walk
<1>11. PICK f : f = Again(f) BY <1>9, <1>10
<1>12. Ahead(h) = CHOOSE w : w = Again(w)
  BY Zenon DEF Ahead, Here, Out, Step, L, P
<1>13. Ahead(h) = Again(Ahead(h))
  <2> HIDE DEF Again
  <2>1. (CHOOSE w : w = Again(w)) = Again(CHOOSE w : w = Again(w)) BY <1>11, Zenon
  <2>2. QED BY <1>12, <2>1, Zenon
<1>14. QED
  <2> DEFINE w == Ahead(h)
             p == <<n, d>>
  <2>1. w = Again(w) BY <1>13
  <2>2. p \in P /\ p[1] = n /\ p[2] = d BY DEF P
  <2> HIDE DEF w
  <2>3. w[p] = IF d < 0 THEN Here(p) ELSE IF Out(p) THEN Border ELSE w[Step(p)]
    BY <2>1, <2>2
  <2>4. QED BY <2>2, <2>3 DEF w, Here, Out, Step, L

LEMMA BehindUnfolds ==
  ASSUME NEW h, NEW n \in Nodes, NEW d \in Int
  PROVE  /\ Back(n, h) = {} => Behind(h)[<<n, d>>] = Border
         /\ Back(n, h) # {} /\ d + The(Back(n, h)).dist >= 0 =>
              Behind(h)[<<n, d>>] = [id |-> n, dist |-> -d]
         /\ Back(n, h) # {} /\ ~(d + The(Back(n, h)).dist >= 0) =>
              Behind(h)[<<n, d>>]
                = Behind(h)[<<The(Back(n, h)).id, d + The(Back(n, h)).dist>>]
<1> DEFINE P == Nodes \X Int
           size == [p \in P |-> IF p[2] < 0 THEN -p[2] ELSE 0]
           L(p) == The(Back(p[1], h))
           Step(p) == <<L(p).id, p[2] + L(p).dist>>
           Here(p) == [id |-> p[1], dist |-> -p[2]]
           Out(p) == Back(p[1], h) = {}
           Near(p) == p[2] + L(p).dist >= 0
           Stop == {p \in P : Out(p) \/ Near(p)}
           Val == [p \in P |-> IF Out(p) THEN Border ELSE Here(p)]
           Next == [p \in P |-> IF p \in Stop THEN p ELSE Step(p)]
           Again(w) == [p \in P |-> IF Out(p) THEN Border
                                    ELSE IF Near(p) THEN Here(p) ELSE w[Step(p)]]
<1>1. ASSUME NEW p \in P, p \notin Stop
      PROVE  /\ Step(p) \in P
             /\ size[Step(p)] < size[p]
  <2>1. p[1] \in Nodes /\ p[2] \in Int /\ ~Near(p) /\ Back(p[1], h) # {} BY <1>1
  <2>2. L(p).id \in Nodes /\ L(p).dist \in 1..MaxDist BY <2>1, BackOfMap, Zenon
  <2>3. PICK e \in Nodes, x \in 1..MaxDist :
          Step(p) = <<e, p[2] + x>> /\ ~(p[2] + x >= 0)
    BY <2>1, <2>2, Zenon
  <2> HIDE DEF Step, Near, L, Stop
  <2>4. p[2] + x \in Int /\ p[2] + x < 0 /\ p[2] < p[2] + x
    <3>1. \A y \in Int : y + x \in Int /\ y < y + x /\ (~(y + x >= 0) => y + x < 0)
      BY DEF MaxDist
    <3>2. QED BY <2>1, <2>3, <3>1
  <2>5. Step(p) \in P /\ Step(p)[2] = p[2] + x BY <2>3, <2>4
  <2>6. QED BY <2>1, <2>4, <2>5
<1>2. \A p \in P : p[1] \in Nodes /\ p[2] \in Int OBVIOUS
<1>3. \A p \in P : Here(p) \in Reached BY <1>2 DEF Reached
<1>4. size \in [P -> Nat] BY <1>2
<1>5. Border \in Reached BY DEF Reached
<1> HIDE DEF P, size, Step, Here, Out, Near, L
<1>6. Val \in [P -> Reached] BY <1>3, <1>5
<1>7. Next \in [P -> P] BY <1>1
<1>8. \A p \in P : p \notin Stop => size[Next[p]] < size[p] BY <1>1
<1>9. \A w : [p \in P |-> IF p \in Stop THEN Val[p] ELSE w[Next[p]]] = Again(w)
  OBVIOUS
<1> HIDE DEF Stop, Val, Next
<1>10. \E f \in [P -> Reached] : f = [p \in P |-> IF p \in Stop THEN Val[p] ELSE f[Next[p]]]
  <2>1. Reached # {} BY <1>5
  <2>2. WalksTo(P, Reached, size, Stop, Val, Next)
    BY <1>4, <1>6, <1>7, <1>8, <2>1 DEF WalksTo
  <2>3. QED BY <2>2, Walk
<1>11. PICK f : f = Again(f) BY <1>9, <1>10
<1>12. Behind(h) = CHOOSE w : w = Again(w)
  BY Zenon DEF Behind, Here, Out, Near, Step, L, P
<1>13. Behind(h) = Again(Behind(h))
  <2> HIDE DEF Again
  <2>1. (CHOOSE w : w = Again(w)) = Again(CHOOSE w : w = Again(w)) BY <1>11, Zenon
  <2>2. QED BY <1>12, <2>1, Zenon
<1>14. QED
  <2> DEFINE w == Behind(h)
             p == <<n, d>>
  <2>1. w = Again(w) BY <1>13
  <2>2. p \in P /\ p[1] = n /\ p[2] = d BY DEF P
  <2> HIDE DEF w
  <2>3. w[p] = IF Out(p) THEN Border ELSE IF Near(p) THEN Here(p) ELSE w[Step(p)]
    BY <2>1, <2>2
  <2>4. QED BY <2>2, <2>3 DEF w, Here, Out, Near, Step, L

-----------------------------------------------------------------------------
\* A checkpoint somebody is on the way to, less than a link away
Places == [id : Nodes, dist : 1..MaxDist]
Nearer(r, m) == [r EXCEPT !.dist = @ - m]

LEMMA Numbers ==
  /\ MaxDist \in Nat
  /\ \A x \in 1..MaxDist : x \in Int /\ x >= 1
BY DEF MaxDist

LEMMA PlacesAre ==
  ASSUME NEW n \in Nodes, NEW x \in 1..MaxDist
  PROVE  /\ [id |-> n, dist |-> x] \in Places
         /\ [id |-> n, dist |-> x].id = n /\ [id |-> n, dist |-> x].dist = x
         /\ [id |-> n, dist |-> x] # Border
BY Numbers DEF Places, Border

LEMMA NearerIs ==
  ASSUME NEW n, NEW x, NEW m
  PROVE  Nearer([id |-> n, dist |-> x], m) = [id |-> n, dist |-> x - m]
BY DEF Nearer

\* What get_on_fly_pos finds onwards: nothing but the border, or a checkpoint
\* at most a link away; and as long as the AGV has not reached it, the same
\* checkpoint, nearer.
LEMMA AheadFinds ==
  ASSUME NEW h, NEW n \in Nodes, NEW d \in Nat, Ahead(h)[<<n, d>>] # Border
  PROVE  /\ Ahead(h)[<<n, d>>] \in Places
         /\ \A m \in Nat : m < Ahead(h)[<<n, d>>].dist =>
              Ahead(h)[<<n, d + m>>] = Nearer(Ahead(h)[<<n, d>>], m)
<1> DEFINE A(k, e) == Ahead(h)[<<k, e>>]
           Found(k, e) ==
             A(k, e) # Border =>
               /\ A(k, e) \in Places
               /\ \A m \in Nat : m < A(k, e).dist => A(k, e + m) = Nearer(A(k, e), m)
           T == {s \in Nat : \A k \in Nodes, e \in Nat : e < s => Found(k, e)}
<1>1. 0 \in T OBVIOUS
<1>2. ASSUME NEW s \in Nat, s \in T PROVE s + 1 \in T
  <2> SUFFICES ASSUME NEW k \in Nodes, NEW e \in Nat, e < s + 1, A(k, e) # Border
               PROVE  /\ A(k, e) \in Places
                      /\ \A m \in Nat : m < A(k, e).dist => A(k, e + m) = Nearer(A(k, e), m)
    <3>1. s + 1 \in Nat OBVIOUS
    <3>2. QED BY <3>1, Zenon
  <2>a. \A y \in Nat : y \in Int /\ y >= 0 OBVIOUS
  <2>1. Onward(k, h) # {} BY <2>a, AheadUnfolds, Zenon
  <2>2. PICK f \in Nodes, x \in 1..MaxDist :
          f = The(Onward(k, h)).id /\ x = The(Onward(k, h)).dist
    BY <2>1, OnwardOfMap
  <2>3. x \in Int /\ x >= 1 BY Numbers
  <2>4. \A y \in Nat : A(k, y) = A(f, y - x)
    BY <2>a, <2>1, <2>2, AheadUnfolds, Zenon
  <2>5. CASE e < x
    <3>1. \A y \in Nat : y < x => A(k, y) = [id |-> f, dist |-> x - y]
      <4> SUFFICES ASSUME NEW y \in Nat, y < x
                   PROVE  A(k, y) = [id |-> f, dist |-> x - y]
        OBVIOUS
      <4>1. y - x \in Int /\ y - x < 0 /\ -(y - x) = x - y BY <2>3
      <4>2. A(f, y - x) = [id |-> f, dist |-> -(y - x)] BY <4>1, AheadUnfolds
      <4>3. QED BY <2>4, <4>1, <4>2
    <3>2. A(k, e) = [id |-> f, dist |-> x - e] BY <2>5, <3>1
    <3>3. x - e \in 1..MaxDist BY <2>2, <2>3, <2>5, Numbers
    <3>4. A(k, e) \in Places BY <3>2, <3>3, PlacesAre
    <3>5. ASSUME NEW m \in Nat, m < A(k, e).dist PROVE A(k, e + m) = Nearer(A(k, e), m)
      <4>1. A(k, e).dist = x - e BY <3>2
      <4>2. e + m \in Nat /\ e + m < x /\ x - (e + m) = (x - e) - m BY <2>3, <3>5, <4>1
      <4>3. A(k, e + m) = [id |-> f, dist |-> (x - e) - m] BY <3>1, <4>2
      <4>4. QED BY <3>2, <4>3, NearerIs
    <3>6. QED BY <3>4, <3>5
  <2>6. CASE e >= x
    <3>1. e - x \in Nat /\ e - x < s BY <2>3, <2>6
    <3>2. A(k, e) = A(f, e - x) BY <2>4
    <3>3. Found(f, e - x) BY <1>2, <3>1
    <3>4. A(f, e - x) # Border BY <3>2
    <3>5. ASSUME NEW m \in Nat, m < A(k, e).dist PROVE A(k, e + m) = Nearer(A(k, e), m)
      <4>1. e + m \in Nat /\ (e + m) - x = (e - x) + m BY <2>3
      <4>2. A(k, e + m) = A(f, (e - x) + m) BY <2>4, <4>1
      <4>3. A(f, (e - x) + m) = Nearer(A(f, e - x), m) BY <3>2, <3>3, <3>4, <3>5
      <4>4. QED BY <3>2, <4>2, <4>3
    <3>6. QED BY <3>2, <3>3, <3>4, <3>5
  <2>7. QED BY <2>3, <2>5, <2>6
<1> HIDE DEF T
<1>3. Nat \subseteq T BY <1>1, <1>2, Induct
<1>4. d + 1 \in T BY <1>3
<1>5. Found(n, d) BY <1>4 DEF T
<1>6. QED BY <1>5

\* The same of what get_on_fly_pos finds looking back.
LEMMA BehindFinds ==
  ASSUME NEW h, NEW n \in Nodes, NEW d \in Nat \ {0}, Behind(h)[<<n, -d>>] # Border
  PROVE  /\ Behind(h)[<<n, -d>>] \in Places
         /\ Behind(h)[<<n, -d>>].dist <= d
         /\ \A m \in Nat : m < Behind(h)[<<n, -d>>].dist =>
              Behind(h)[<<n, -(d - m)>>] = Nearer(Behind(h)[<<n, -d>>], m)
<1> DEFINE B(k, e) == Behind(h)[<<k, -e>>]
           Found(k, e) ==
             B(k, e) # Border =>
               /\ B(k, e) \in Places
               /\ B(k, e).dist <= e
               /\ \A m \in Nat : m < B(k, e).dist => B(k, e - m) = Nearer(B(k, e), m)
           T == {s \in Nat : \A k \in Nodes, e \in Nat \ {0} : e < s => Found(k, e)}
<1>1. 0 \in T OBVIOUS
<1>2. ASSUME NEW s \in Nat, s \in T PROVE s + 1 \in T
  <2> SUFFICES ASSUME NEW k \in Nodes, NEW e \in Nat \ {0}, e < s + 1, B(k, e) # Border
               PROVE  /\ B(k, e) \in Places
                      /\ B(k, e).dist <= e
                      /\ \A m \in Nat : m < B(k, e).dist => B(k, e - m) = Nearer(B(k, e), m)
    <3>1. s + 1 \in Nat OBVIOUS
    <3>2. QED BY <3>1, Zenon
  <2>a. \A y \in Nat : -y \in Int OBVIOUS
  <2>1. Back(k, h) # {}
    <3>1. e \in Nat OBVIOUS
    <3>2. QED BY <2>a, <3>1, BehindUnfolds, Zenon
  <2>2. PICK f \in Nodes, x \in 1..MaxDist :
          f = The(Back(k, h)).id /\ x = The(Back(k, h)).dist
    BY <2>1, BackOfMap
  <2>3. x \in Int /\ x >= 1 BY Numbers
  <2>4. \A y \in Nat : -y + x >= 0 => B(k, y) = [id |-> k, dist |-> -(-y)]
    BY <2>a, <2>1, <2>2, BehindUnfolds, Zenon
  <2>5. \A y \in Nat : ~(-y + x >= 0) => B(k, y) = Behind(h)[<<f, -y + x>>]
    BY <2>a, <2>1, <2>2, BehindUnfolds, Zenon
  <2>6. CASE e <= x
    <3>1. \A y \in Nat : y <= x => B(k, y) = [id |-> k, dist |-> y]
      <4> SUFFICES ASSUME NEW y \in Nat, y <= x
                   PROVE  B(k, y) = [id |-> k, dist |-> y]
        OBVIOUS
      <4>1. -y + x >= 0 /\ -(-y) = y BY <2>3
      <4>2. QED BY <2>4, <4>1
    <3>2. B(k, e) = [id |-> k, dist |-> e] BY <2>6, <3>1
    <3>3. e \in 1..MaxDist BY <2>2, <2>3, <2>6, Numbers
    <3>4. B(k, e) \in Places /\ B(k, e).dist = e BY <3>2, <3>3, PlacesAre
    <3>5. ASSUME NEW m \in Nat, m < B(k, e).dist PROVE B(k, e - m) = Nearer(B(k, e), m)
      <4>1. e - m \in Nat /\ e - m <= x BY <2>3, <2>6, <3>4, <3>5
      <4>2. B(k, e - m) = [id |-> k, dist |-> e - m] BY <3>1, <4>1
      <4>3. QED BY <3>2, <4>2, NearerIs
    <3>6. e <= e OBVIOUS
    <3>7. QED BY <3>4, <3>5, <3>6
  <2>7. CASE e > x
    <3>1. \A y \in Nat : y > x => B(k, y) = B(f, y - x)
      <4> SUFFICES ASSUME NEW y \in Nat, y > x PROVE B(k, y) = B(f, y - x)
        OBVIOUS
      <4>1. ~(-y + x >= 0) /\ -y + x = -(y - x) BY <2>3
      <4>2. QED BY <2>5, <4>1
    <3>2. e - x \in Nat \ {0} /\ e - x < s BY <2>3, <2>7
    <3>3. B(k, e) = B(f, e - x) BY <2>7, <3>1
    <3>4. Found(f, e - x) BY <1>2, <3>2
    <3>5. /\ B(f, e - x) \in Places /\ B(f, e - x).dist <= e - x
          /\ \A m \in Nat : m < B(f, e - x).dist =>
               B(f, (e - x) - m) = Nearer(B(f, e - x), m)
      BY <3>3, <3>4
    <3>6. B(f, e - x).dist \in Int BY <3>5, Numbers DEF Places
    <3>7. ASSUME NEW m \in Nat, m < B(k, e).dist PROVE B(k, e - m) = Nearer(B(k, e), m)
      <4>1. m < e - x BY <2>3, <3>2, <3>3, <3>5, <3>6, <3>7
      <4>2. e - m \in Nat /\ e - m > x /\ (e - m) - x = (e - x) - m BY <2>3, <4>1
      <4>3. B(k, e - m) = B(f, (e - x) - m) BY <3>1, <4>2
      <4>4. B(f, (e - x) - m) = Nearer(B(f, e - x), m) BY <3>3, <3>5, <3>7
      <4>5. QED BY <3>3, <4>3, <4>4
    <3>8. B(k, e).dist <= e BY <2>3, <3>3, <3>5, <3>6
    <3>9. QED BY <3>3, <3>5, <3>7, <3>8
  <2>8. QED BY <2>3, <2>6, <2>7
<1> HIDE DEF T
<1>3. Nat \subseteq T BY <1>1, <1>2, Induct
<1>4. d + 1 \in T BY <1>3
<1>5. Found(n, d) BY <1>4 DEF T
<1>6. QED BY <1>5

-----------------------------------------------------------------------------
\* Angles go into the frame of a code and back.
LEMMA Circle ==
  ASSUME NEW a \in 0..359, NEW b \in 0..359
  PROVE  /\ RTOA(a, b) \in 0..359 /\ ATOR(a, b) \in 0..359
         /\ ATOR(RTOA(a, b), b) = a /\ RTOA(ATOR(a, b), b) = a
<1>1. /\ (a + b) % 360 = IF a + b < 360 THEN a + b ELSE a + b - 360
      /\ (a - b + 360) % 360 = IF a < b THEN a - b + 360 ELSE a - b
  OBVIOUS
<1>2. RTOA(a, b) = (IF a + b < 360 THEN a + b ELSE a + b - 360) /\ RTOA(a, b) \in 0..359
  BY <1>1 DEF RTOA
<1>3. ATOR(a, b) = (IF a < b THEN a - b + 360 ELSE a - b) /\ ATOR(a, b) \in 0..359
  BY <1>1 DEF ATOR
<1>4. /\ \A x \in 0..359 : RTOA(x, b) = IF x + b < 360 THEN x + b ELSE x + b - 360
      /\ \A x \in 0..359 : ATOR(x, b) = IF x < b THEN x - b + 360 ELSE x - b
  <2>1. \A x \in 0..359 : (x + b) % 360 = IF x + b < 360 THEN x + b ELSE x + b - 360
    OBVIOUS
  <2>2. \A x \in 0..359 : (x - b + 360) % 360 = IF x < b THEN x - b + 360 ELSE x - b
    OBVIOUS
  <2>3. QED BY <2>1, <2>2 DEF RTOA, ATOR
<1>5. ATOR(RTOA(a, b), b) = a
  <2>1. PICK x \in 0..359 : x = RTOA(a, b) BY <1>2
  <2>2. x = IF a + b < 360 THEN a + b ELSE a + b - 360 BY <1>2, <2>1
  <2>3. ATOR(x, b) = IF x < b THEN x - b + 360 ELSE x - b BY <1>4
  <2>4. (IF x < b THEN x - b + 360 ELSE x - b) = a BY <2>2
  <2>5. QED BY <2>1, <2>3, <2>4
<1>6. RTOA(ATOR(a, b), b) = a
  <2>1. PICK x \in 0..359 : x = ATOR(a, b) BY <1>3
  <2>2. x = IF a < b THEN a - b + 360 ELSE a - b BY <1>3, <2>1
  <2>3. RTOA(x, b) = IF x + b < 360 THEN x + b ELSE x + b - 360 BY <1>4
  <2>4. (IF x + b < 360 THEN x + b ELSE x + b - 360) = a BY <2>2
  <2>5. QED BY <2>1, <2>3, <2>4
<1>7. QED BY <1>2, <1>3, <1>5, <1>6

LEMMA OnlyLink ==
  ASSUME NEW n \in Nodes, NEW angle, NEW l \in LinksAt(n, angle)
  PROVE  The(LinksAt(n, angle)) = l
<1>1. LinksAt(n, angle) # {} BY Zenon
<1>2. The(LinksAt(n, angle)) \in Map[n] /\ The(LinksAt(n, angle)).angle = angle
  BY <1>1, LinksOfMap, Zenon
<1>3. l \in Map[n] /\ l.angle = angle BY Zenon DEF LinksAt
<1>4. QED BY <1>2, <1>3, MapAssumption, Zenon

LEMMA ColumnIs ==
  ASSUME NEW c \in Nodes, NEW h, NEW p, HasColumn(c, h, p)
  PROVE  Column(c, h, p) \in Nodes
<1>1. CASE p.x = 0 BY <1>1, Zenon DEF Column
<1>2. CASE p.x # 0
  <2>1. ColumnLinks(c, h, p) # {} BY <1>2, Zenon DEF HasColumn
  <2>2. The(ColumnLinks(c, h, p)).id \in Nodes
    <3> DEFINE angle == (h - Bias[c] + 540 - 90 * p.x) % 360
    <3>1. ColumnLinks(c, h, p) = LinksAt(c, angle) BY DEF ColumnLinks
    <3> HIDE DEF angle
    <3>2. QED BY <2>1, <3>1, LinksOfMap, Zenon
  <2>3. QED BY <1>2, <2>2, Zenon DEF Column
<1>3. QED BY <1>1, <1>2, Zenon

LEMMA OnFlyIs ==
  ASSUME NEW c, NEW h, NEW yb \in Nat, NEW p \in Positions
  PROVE  /\ p.y + yb \in Int
         /\ ~HasColumn(c, h, p) => OnFly(c, h, yb, p) = Border
         /\ HasColumn(c, h, p) /\ p.y + yb < 0 =>
              OnFly(c, h, yb, p) = Behind(h)[<<Column(c, h, p), p.y + yb>>]
         /\ HasColumn(c, h, p) /\ ~(p.y + yb < 0) =>
              OnFly(c, h, yb, p) = Ahead(h)[<<Column(c, h, p), p.y + yb>>]
<1>1. p.y \in Int BY DEF Positions
<1>2. p.y + yb \in Int BY <1>1
<1>3. QED BY <1>2, Zenon DEF OnFly, HasColumn

\* Where an AGV is on the way to, and how the way there shrinks: what get_command
\* tracks by subtraction is what get_on_fly_pos computes anew.
LEMMA OnFlyFinds ==
  ASSUME NEW c \in Nodes, NEW h, NEW yb \in Nat, NEW p \in Positions,
         OnFly(c, h, yb, p) # Border
  PROVE  /\ OnFly(c, h, yb, p) \in Places
         /\ \A m \in Nat : m < OnFly(c, h, yb, p).dist =>
              OnFly(c, h, yb + m, p) = Nearer(OnFly(c, h, yb, p), m)
<1> DEFINE n == Column(c, h, p)
           d == p.y + yb
<1>1. HasColumn(c, h, p) BY OnFlyIs, Zenon
<1>2. n \in Nodes BY <1>1, ColumnIs, Zenon
<1>3. p.y \in Int /\ d \in Int BY DEF Positions
<1>4. \A m \in Nat : yb + m \in Nat /\ p.y + (yb + m) = d + m BY <1>3
<1>5. \A m \in Nat :
        /\ d + m < 0 => OnFly(c, h, yb + m, p) = Behind(h)[<<n, d + m>>]
        /\ ~(d + m < 0) => OnFly(c, h, yb + m, p) = Ahead(h)[<<n, d + m>>]
  <2> SUFFICES ASSUME NEW m \in Nat
               PROVE  /\ d + m < 0 => OnFly(c, h, yb + m, p) = Behind(h)[<<n, d + m>>]
                      /\ ~(d + m < 0) => OnFly(c, h, yb + m, p) = Ahead(h)[<<n, d + m>>]
    BY Zenon
  <2>1. yb + m \in Nat /\ p.y + (yb + m) = d + m BY <1>4
  <2>2. QED BY <1>1, <2>1, OnFlyIs
<1>6. /\ d < 0 => OnFly(c, h, yb, p) = Behind(h)[<<n, d>>]
      /\ ~(d < 0) => OnFly(c, h, yb, p) = Ahead(h)[<<n, d>>]
  BY <1>1, OnFlyIs, Zenon
<1> HIDE DEF n, d
<1>7. CASE d < 0
  <2> DEFINE e == -d
  <2>1. e \in Nat \ {0} /\ d = -e BY <1>3, <1>7
  <2> HIDE DEF e
  <2>2. OnFly(c, h, yb, p) = Behind(h)[<<n, -e>>] BY <1>6, <1>7, <2>1, Zenon
  <2>3. /\ Behind(h)[<<n, -e>>] \in Places /\ Behind(h)[<<n, -e>>].dist <= e
        /\ \A m \in Nat : m < Behind(h)[<<n, -e>>].dist =>
              Behind(h)[<<n, -(e - m)>>] = Nearer(Behind(h)[<<n, -e>>], m)
    BY <1>2, <2>1, <2>2, BehindFinds, Zenon
  <2>4. Behind(h)[<<n, -e>>].dist \in Int BY <2>3, Numbers DEF Places
  <2>5. ASSUME NEW m \in Nat, m < OnFly(c, h, yb, p).dist
        PROVE  OnFly(c, h, yb + m, p) = Nearer(OnFly(c, h, yb, p), m)
    <3>1. m < e BY <2>1, <2>2, <2>3, <2>4, <2>5
    <3>2. d + m < 0 /\ d + m = -(e - m) BY <2>1, <3>1
    <3>3. OnFly(c, h, yb + m, p) = Behind(h)[<<n, -(e - m)>>] BY <1>5, <3>2, Zenon
    <3>4. QED BY <2>2, <2>3, <2>5, <3>3, Zenon
  <2>6. QED BY <2>2, <2>3, <2>5, Zenon
<1>8. CASE ~(d < 0)
  <2>1. d \in Nat BY <1>3, <1>8
  <2>2. OnFly(c, h, yb, p) = Ahead(h)[<<n, d>>] BY <1>6, <1>8, Zenon
  <2>3. /\ Ahead(h)[<<n, d>>] \in Places
        /\ \A m \in Nat : m < Ahead(h)[<<n, d>>].dist =>
              Ahead(h)[<<n, d + m>>] = Nearer(Ahead(h)[<<n, d>>], m)
    BY <1>2, <2>1, <2>2, AheadFinds, Zenon
  <2>4. ASSUME NEW m \in Nat, m < OnFly(c, h, yb, p).dist
        PROVE  OnFly(c, h, yb + m, p) = Nearer(OnFly(c, h, yb, p), m)
    <3>1. ~(d + m < 0) BY <2>1
    <3>2. OnFly(c, h, yb + m, p) = Ahead(h)[<<n, d + m>>] BY <1>5, <3>1, Zenon
    <3>3. QED BY <2>2, <2>3, <2>4, <3>2, Zenon
  <2>5. QED BY <2>2, <2>3, <2>4, Zenon
<1>9. QED BY <1>7, <1>8, Zenon

\* The centre goes along the link its leg is.
LEMMA CentreLeg ==
  ASSUME NEW c \in Nodes, NEW l \in Map[c]
  PROVE  OnFly(c, RTOA(l.angle, Bias[c]), 0, Centre) = [id |-> l.id, dist |-> l.dist]
<1> DEFINE h == RTOA(l.angle, Bias[c])
<1>1. l.angle \in 0..359 /\ l.id \in Nodes /\ l.dist \in 1..MaxDist /\ Bias[c] \in 0..359
  BY MapAssumption, BiasAssumption
<1>2. ATOR(h, Bias[c]) = l.angle BY <1>1, Circle
<1> HIDE DEF h
<1>3. Onward(c, h) = LinksAt(c, l.angle) BY <1>2, Zenon DEF Onward
<1>4. l \in LinksAt(c, l.angle) BY DEF LinksAt
<1>5. The(Onward(c, h)) = l /\ Onward(c, h) # {} BY <1>3, <1>4, OnlyLink, Zenon
<1>6. Ahead(h)[<<c, 0>>] = [id |-> l.id, dist |-> l.dist]
  <2>1. l.dist \in Int /\ 0 - l.dist < 0 /\ -(0 - l.dist) = l.dist BY <1>1, Numbers
  <2>2. Ahead(h)[<<c, 0>>] = Ahead(h)[<<l.id, 0 - l.dist>>]
    <3>1. 0 \in Int /\ 0 >= 0 OBVIOUS
    <3>2. QED BY <1>5, <3>1, AheadUnfolds, Zenon
  <2>3. 0 - l.dist \in Int BY <2>1
  <2>4. Ahead(h)[<<l.id, 0 - l.dist>>] = [id |-> l.id, dist |-> -(0 - l.dist)]
    BY <1>1, <2>1, <2>3, AheadUnfolds, Zenon
  <2>5. QED BY <2>1, <2>2, <2>4
<1>7. Centre.x = 0 /\ Centre.y + 0 = 0 /\ ~(Centre.y + 0 < 0) BY DEF Centre
<1>8. OnFly(c, h, 0, Centre) = Ahead(h)[<<c, 0>>] BY <1>7 DEF OnFly, Column
<1>9. QED BY <1>6, <1>8 DEF h

\* Where the lines go on, the places relative to a leg's end are those relative
\* to the next leg's start.
LEMMA StaysAbreast ==
  ASSUME NEW c \in Nodes, NEW e \in Nodes, NEW h, NEW p \in Positions,
         LinkTo(c, e).dist \in 1..MaxDist,
         HasColumn(c, h, p), GoesOn(c, e, h, p)
  PROVE  OnFly(c, h, LinkTo(c, e).dist, p) = OnFly(e, h, 0, p)
<1> DEFINE x == LinkTo(c, e).dist
           n == Column(c, h, p)
           m == Column(e, h, p)
<1>1. HasColumn(e, h, p) /\ Joined(n, m, h, x) BY Zenon DEF GoesOn
<1>2. x \in 1..MaxDist OBVIOUS
<1>3. n \in Nodes /\ m \in Nodes BY <1>1, ColumnIs, Zenon
<1>4. p.y \in Int /\ x \in Nat /\ 0 \in Nat /\ p.y + 0 = p.y BY <1>2, Numbers DEF Positions
<1> HIDE DEF x, n, m
<1>5. PICK l \in Onward(n, h) : l.id = m /\ l.dist = x BY <1>1, Zenon DEF Joined
<1>6. PICK k \in Back(m, h) : k.id = n /\ k.dist = x BY <1>1, Zenon DEF Joined
<1>7. The(Onward(n, h)) = l BY <1>3, OnlyLink, Zenon DEF Onward
<1>8. The(Back(m, h)) = k BY <1>3, OnlyLink, Zenon DEF Back
<1>9. Onward(n, h) # {} /\ Back(m, h) # {} BY <1>5, <1>6, Zenon
<1>10. /\ p.y + x < 0 => OnFly(c, h, x, p) = Behind(h)[<<n, p.y + x>>]
       /\ ~(p.y + x < 0) => OnFly(c, h, x, p) = Ahead(h)[<<n, p.y + x>>]
  BY <1>4, OnFlyIs, Zenon DEF n
<1>11. /\ p.y < 0 => OnFly(e, h, 0, p) = Behind(h)[<<m, p.y>>]
       /\ ~(p.y < 0) => OnFly(e, h, 0, p) = Ahead(h)[<<m, p.y>>]
  <2>1. p.y + 0 = p.y BY <1>4
  <2>2. /\ p.y + 0 < 0 => OnFly(e, h, 0, p) = Behind(h)[<<m, p.y + 0>>]
        /\ ~(p.y + 0 < 0) => OnFly(e, h, 0, p) = Ahead(h)[<<m, p.y + 0>>]
    BY <1>1, <1>4, OnFlyIs, Zenon DEF m
  <2>3. QED BY <2>1, <2>2
<1>12. p.y + x \in Int /\ (p.y + x) - x = p.y BY <1>4
<1>13. CASE p.y + x < 0
  <2>1. p.y < 0 /\ ~(p.y + x >= 0) BY <1>4, <1>13
  <2>2. Behind(h)[<<m, p.y>>] = Behind(h)[<<n, p.y + x>>]
    BY <1>3, <1>4, <1>6, <1>8, <1>9, <2>1, BehindUnfolds, Zenon
  <2>3. QED BY <1>10, <1>11, <1>13, <2>1, <2>2, Zenon DEF x
<1>14. CASE ~(p.y + x < 0)
  <2>1. p.y + x >= 0 BY <1>12, <1>14
  <2>2. Ahead(h)[<<n, p.y + x>>] = Ahead(h)[<<m, (p.y + x) - x>>]
    BY <1>3, <1>5, <1>7, <1>9, <1>12, <2>1, AheadUnfolds, Zenon
  <2>3. OnFly(c, h, x, p) = Ahead(h)[<<m, p.y>>]
    BY <1>10, <1>12, <1>14, <2>2, Zenon
  <2>4. CASE p.y < 0
    <3>1. Ahead(h)[<<m, p.y>>] = [id |-> m, dist |-> -p.y]
      BY <1>3, <1>4, <2>4, AheadUnfolds, Zenon
    <3>2. Behind(h)[<<m, p.y>>] = [id |-> m, dist |-> -p.y]
      BY <1>3, <1>4, <1>6, <1>8, <1>9, <2>1, BehindUnfolds, Zenon
    <3>3. QED BY <1>11, <2>3, <2>4, <3>1, <3>2, Zenon DEF x
  <2>5. CASE ~(p.y < 0) BY <1>11, <2>3, <2>5, Zenon DEF x
  <2>6. QED BY <2>4, <2>5, Zenon
<1>15. QED BY <1>13, <1>14, Zenon

-----------------------------------------------------------------------------
LEMMA LeastDistance ==
  ASSUME NEW S, S \subseteq Nat, S # {}
  PROVE  Min(S) \in S /\ \A x \in S : Min(S) <= x
<1>1. \E x \in S : \A y \in S : x <= y BY LeastNumber, Zenon
<1>2. QED BY <1>1, Zenon DEF Min

LEMMA TasksAre ==
  ASSUME NEW t \in Tasks
  PROVE  /\ t.side \in {"HEAD", "29c8610"}
         /\ t.path \in Seq(Nodes) /\ Len(t.path) \in Nat /\ Len(t.path) > 1
         /\ \A k \in 1..Len(t.path) : t.path[k] \in Nodes
         /\ t.form \in Seq(Positions) /\ Len(t.form) \in Nat /\ Len(t.form) > 0
         /\ \A j \in 1..Len(t.form) : t.form[j] \in Positions
         /\ \A k \in 1..(Len(t.path) - 1) :
              /\ LinkTo(t.path[k], t.path[k + 1]) \in Map[t.path[k]]
              /\ LinkTo(t.path[k], t.path[k + 1]).id = t.path[k + 1]
              /\ LinkTo(t.path[k], t.path[k + 1]).dist \in 1..MaxDist
              /\ LinkTo(t.path[k], t.path[k + 1]).angle \in 0..359
              /\ HeadingOn(t, k) \in 0..359
<1>1. /\ t.side \in {"HEAD", "29c8610"}
      /\ t.path \in Seq(Nodes) /\ Len(t.path) > 1
      /\ t.form \in Seq(Positions) /\ Len(t.form) > 0
  BY TaskAssumption
<1>2. /\ Len(t.path) \in Nat /\ \A k \in 1..Len(t.path) : t.path[k] \in Nodes
      /\ Len(t.form) \in Nat /\ \A j \in 1..Len(t.form) : t.form[j] \in Positions
  BY <1>1
<1>3. ASSUME NEW k \in 1..(Len(t.path) - 1)
      PROVE  /\ LinkTo(t.path[k], t.path[k + 1]) \in Map[t.path[k]]
             /\ LinkTo(t.path[k], t.path[k + 1]).id = t.path[k + 1]
             /\ LinkTo(t.path[k], t.path[k + 1]).dist \in 1..MaxDist
             /\ LinkTo(t.path[k], t.path[k + 1]).angle \in 0..359
             /\ HeadingOn(t, k) \in 0..359
  <2> DEFINE l == LinkTo(t.path[k], t.path[k + 1])
  <2>1. \E x \in Map[t.path[k]] : x.id = t.path[k + 1] BY <1>3, TaskAssumption, Zenon
  <2>2. l \in Map[t.path[k]] /\ l.id = t.path[k + 1] BY <2>1, Zenon DEF LinkTo
  <2>3. t.path[k] \in Nodes BY <1>2
  <2> HIDE DEF l
  <2>4. l.dist \in 1..MaxDist /\ l.angle \in 0..359 BY <2>2, <2>3, MapAssumption, Zenon
  <2>5. Bias[t.path[k]] \in 0..359 BY <2>3, BiasAssumption
  <2>6. RTOA(l.angle, Bias[t.path[k]]) \in 0..359 BY <2>4, <2>5, Circle, Zenon
  <2>7. QED BY <2>2, <2>4, <2>6, Zenon DEF l, HeadingOn
<1>4. QED BY <1>1, <1>2, <1>3, Zenon

-----------------------------------------------------------------------------
Values == Int \cup {Radius(p) % 1024 : p \in Positions}
Commands == [op : {"TO_QR", "MOS_GO", "QR_TURN", "MOS_TURN", "MOS_CIR"},
             pf : 0..3, sync : Int, val : Values]
Blocks == [times : Nat, cmds : Seq(Commands)]
Script == Seq(Blocks)

\* The meetings of each block of a script
Counts(s) == [k \in 1..Len(s) |-> s[k].times * SyncsOf(s[k].cmds)]

LEMMA SyncsInt ==
  ASSUME NEW q \in Seq(Commands)
  PROVE  SyncsOf(q) \in Int
<1> DEFINE r == [c \in 1..Len(q) |-> q[c].sync]
<1>1. \A c \in 1..Len(q) : q[c] \in Commands OBVIOUS
<1>2. \A c \in 1..Len(q) : q[c].sync \in Int BY <1>1 DEF Commands
<1>3. Len(q) \in Nat OBVIOUS
<1>4. r \in Seq(Int) BY <1>2, <1>3
<1>5. QED BY <1>4, SumsAre, Zenon DEF SyncsOf

LEMMA CountsInt ==
  ASSUME NEW s \in Script
  PROVE  Counts(s) \in Seq(Int) /\ Len(Counts(s)) = Len(s) /\ Meetings(s) \in Int
         /\ Meetings(s) = SumOf(Counts(s))
<1>1. Len(s) \in Nat /\ \A k \in 1..Len(s) : s[k] \in Blocks BY DEF Script
<1>2. \A k \in 1..Len(s) : s[k].times \in Nat /\ s[k].cmds \in Seq(Commands)
  BY <1>1 DEF Blocks
<1>3. \A k \in 1..Len(s) : SyncsOf(s[k].cmds) \in Int BY <1>2, SyncsInt
<1>4. \A x \in Nat, y \in Int : x * y \in Int OBVIOUS
<1>5. \A k \in 1..Len(s) : s[k].times * SyncsOf(s[k].cmds) \in Int
  BY <1>2, <1>3, <1>4, Zenon
<1>6. Counts(s) \in Seq(Int) /\ Len(Counts(s)) = Len(s) BY <1>1, <1>5 DEF Counts
<1>7. Meetings(s) = SumOf(Counts(s)) BY Zenon DEF Meetings, Counts
<1>8. QED BY <1>6, <1>7, SumsAre

LEMMA ConcatIs ==
  ASSUME NEW S, NEW a \in Seq(S), NEW b \in Seq(S), NEW c \in Seq(S),
         Len(c) = Len(a) + Len(b),
         \A k \in 1..Len(a) : c[k] = a[k],
         \A k \in 1..Len(b) : c[Len(a) + k] = b[k]
  PROVE  c = a \o b
<1>1. /\ Len(a \o b) = Len(a) + Len(b) /\ a \o b \in Seq(S)
      /\ \A k \in 1..Len(a) : (a \o b)[k] = a[k]
      /\ \A k \in 1..Len(b) : (a \o b)[Len(a) + k] = b[k]
      /\ Len(a) \in Nat /\ Len(b) \in Nat
  OBVIOUS
<1>2. ASSUME NEW k \in 1..Len(c) PROVE c[k] = (a \o b)[k]
  <2>1. CASE k \in 1..Len(a) BY <1>1, <2>1
  <2>2. CASE k \notin 1..Len(a)
    <3>1. k - Len(a) \in 1..Len(b) /\ Len(a) + (k - Len(a)) = k BY <1>1, <2>2
    <3>2. QED BY <1>1, <3>1
  <2>3. QED BY <2>1, <2>2
<1>3. QED BY <1>1, <1>2

LEMMA MeetingsConcat ==
  ASSUME NEW s \in Script, NEW t \in Script
  PROVE  s \o t \in Script /\ Meetings(s \o t) = Meetings(s) + Meetings(t)
<1>1. /\ Len(s) \in Nat /\ Len(t) \in Nat /\ s \o t \in Script
      /\ Len(s \o t) = Len(s) + Len(t)
      /\ \A k \in 1..Len(s) : (s \o t)[k] = s[k]
      /\ \A k \in 1..Len(t) : (s \o t)[Len(s) + k] = t[k]
  BY DEF Script
<1>2. /\ Counts(s) \in Seq(Int) /\ Len(Counts(s)) = Len(s)
      /\ Counts(t) \in Seq(Int) /\ Len(Counts(t)) = Len(t)
      /\ Counts(s \o t) \in Seq(Int) /\ Len(Counts(s \o t)) = Len(s) + Len(t)
  BY <1>1, CountsInt
<1>3. \A u : \A k \in 1..Len(u) : Counts(u)[k] = u[k].times * SyncsOf(u[k].cmds)
  BY DEF Counts
<1>4. \A k \in 1..Len(s) : Counts(s \o t)[k] = Counts(s)[k]
  <2> SUFFICES ASSUME NEW k \in 1..Len(s) PROVE Counts(s \o t)[k] = Counts(s)[k]
    BY Zenon
  <2>1. k \in 1..Len(s \o t) /\ (s \o t)[k] = s[k] BY <1>1
  <2>2. QED BY <1>3, <2>1
<1>5. \A k \in 1..Len(t) : Counts(s \o t)[Len(s) + k] = Counts(t)[k]
  <2> SUFFICES ASSUME NEW k \in 1..Len(t)
               PROVE  Counts(s \o t)[Len(s) + k] = Counts(t)[k]
    BY Zenon
  <2>1. Len(s) + k \in 1..Len(s \o t) /\ (s \o t)[Len(s) + k] = t[k] BY <1>1
  <2>2. Counts(s \o t)[Len(s) + k]
          = (s \o t)[Len(s) + k].times * SyncsOf((s \o t)[Len(s) + k].cmds)
    BY <1>3, <2>1, Zenon
  <2>3. QED BY <1>3, <2>1, <2>2
<1>a. Counts(s \o t) = Counts(s) \o Counts(t)
  <2> DEFINE a == Counts(s)
             b == Counts(t)
             c == Counts(s \o t)
  <2>1. /\ a \in Seq(Int) /\ b \in Seq(Int) /\ c \in Seq(Int)
        /\ Len(c) = Len(a) + Len(b)
        /\ \A k \in 1..Len(a) : c[k] = a[k]
        /\ \A k \in 1..Len(b) : c[Len(a) + k] = b[k]
    BY <1>2, <1>4, <1>5
  <2> HIDE DEF a, b, c
  <2>2. c = a \o b BY <2>1, ConcatIs
  <2>3. QED BY <2>2 DEF a, b, c
<1>6. Meetings(s \o t) = SumOf(Counts(s)) + SumOf(Counts(t))
  <2>1. Meetings(s \o t) = SumOf(Counts(s \o t)) BY <1>1, CountsInt, Zenon
  <2>2. QED BY <1>2, <1>a, <2>1, SumConcat
<1>7. Meetings(s) = SumOf(Counts(s)) /\ Meetings(t) = SumOf(Counts(t)) BY CountsInt
<1>8. QED BY <1>1, <1>6, <1>7

LEMMA OneBlock ==
  ASSUME NEW n \in Nat, NEW q \in Seq(Commands)
  PROVE  /\ <<Times(n, q)>> \in Script
         /\ Meetings(<<Times(n, q)>>) = n * SyncsOf(q)
<1>1. <<Times(n, q)>> \in Script BY DEF Times, Script, Blocks
<1>2. n * SyncsOf(q) \in Int
  <2>1. \A x \in Nat, y \in Int : x * y \in Int OBVIOUS
  <2>2. QED BY <2>1, SyncsInt, Zenon
<1>3. Counts(<<Times(n, q)>>) = <<n * SyncsOf(q)>>
  BY DEF Counts, Times
<1>4. QED BY <1>1, <1>2, <1>3, CountsInt, SumsAre

LEMMA TwoSyncs ==
  ASSUME NEW a \in Commands, NEW b \in Commands
  PROVE  SyncsOf(<<a, b>>) = a.sync + b.sync
<1>1. a.sync \in Int /\ b.sync \in Int BY DEF Commands
<1>2. [c \in 1..Len(<<a, b>>) |-> <<a, b>>[c].sync] = <<a.sync, b.sync>> OBVIOUS
<1>3. QED BY <1>1, <1>2, SumsAre DEF SyncsOf

LEMMA OneSync ==
  ASSUME NEW a \in Commands
  PROVE  SyncsOf(<<a>>) = a.sync /\ <<a>> \in Seq(Commands)
<1>1. a.sync \in Int BY DEF Commands
<1>2. [c \in 1..Len(<<a>>) |-> <<a>>[c].sync] = <<a.sync>> OBVIOUS
<1>3. QED BY <1>1, <1>2, SumsAre DEF SyncsOf

LEMMA FourSyncs ==
  ASSUME NEW a \in Commands, NEW b \in Commands, NEW x \in Commands, NEW y \in Commands
  PROVE  SyncsOf(<<a, b, x, y>>) = a.sync + b.sync + x.sync + y.sync
<1>1. a.sync \in Int /\ b.sync \in Int /\ x.sync \in Int /\ y.sync \in Int
  BY DEF Commands
<1>2. [c \in 1..Len(<<a, b, x, y>>) |-> <<a, b, x, y>>[c].sync]
        = <<a.sync, b.sync, x.sync, y.sync>>
  OBVIOUS
<1>3. Len(<<a, b, x, y>>) = 4 OBVIOUS
<1>4. SumOf(<<a.sync, b.sync, x.sync, y.sync>>) = a.sync + b.sync + x.sync + y.sync
  <2>1. \A i1, i2, i3, i4 \in Int : SumOf(<<i1, i2, i3, i4>>) = i1 + i2 + i3 + i4
    BY SumsAre
  <2>2. QED BY <1>1, <2>1
<1>5. QED BY <1>2, <1>4, Zenon DEF SyncsOf

LEMMA CmdIs ==
  ASSUME NEW op \in {"TO_QR", "MOS_GO", "QR_TURN", "MOS_TURN", "MOS_CIR"},
         NEW pf \in 0..3, NEW sync \in Int, NEW val \in Values
  PROVE  /\ Cmd(op, pf, sync, val) \in Commands
         /\ Cmd(op, pf, sync, val).sync = sync
         /\ Cmd(op, pf, sync, val).op = op /\ Cmd(op, pf, sync, val).pf = pf
         /\ Cmd(op, pf, sync, val).val = val
BY DEF Cmd, Commands

\* A round of the straight move holds one meeting for everybody.
LEMMA RoundMeets ==
  ASSUME heading \in 0..359, NEW n \in Nodes, NEW m \in 1..MaxDist
  PROVE  /\ ToQr(n, m) \in Script /\ Meetings(ToQr(n, m)) = 1
         /\ Go(m) \in Script /\ Meetings(Go(m)) = 1
<1>1. n \in Nat /\ m \in Int /\ Bias[n] \in 0..359
  BY MapAssumption, BiasAssumption, Numbers
<1>2. /\ n \div 256 \in Values /\ n % 255 \in Values /\ m \in Values
      /\ ATOR(heading, Bias[n]) \in Values
  <2>1. n \div 256 \in Int /\ n % 255 \in Int BY <1>1
  <2>2. ATOR(heading, Bias[n]) \in Int
    <3>1. heading - Bias[n] + 360 \in Int BY <1>1
    <3>2. \A v \in Int : v % 360 \in Int OBVIOUS
    <3>3. QED BY <3>1, <3>2, Zenon DEF ATOR
  <2>3. QED BY <1>1, <2>1, <2>2 DEF Values
<1> DEFINE a == Cmd("TO_QR", 0, 0, n \div 256)
           b == Cmd("TO_QR", 1, 0, n % 255)
           x == Cmd("TO_QR", 2, 0, ATOR(heading, Bias[n]))
           y == Cmd("TO_QR", 3, 1, m)
           z == Cmd("MOS_GO", 0, 1, m)
<1>3. /\ a \in Commands /\ b \in Commands /\ x \in Commands /\ y \in Commands
      /\ z \in Commands
      /\ a.sync = 0 /\ b.sync = 0 /\ x.sync = 0 /\ y.sync = 1 /\ z.sync = 1
  <2>1. \A v \in Values :
           /\ Cmd("TO_QR", 0, 0, v) \in Commands /\ Cmd("TO_QR", 1, 0, v) \in Commands
           /\ Cmd("TO_QR", 2, 0, v) \in Commands /\ Cmd("TO_QR", 3, 1, v) \in Commands
           /\ Cmd("MOS_GO", 0, 1, v) \in Commands
    BY CmdIs
  <2>2. \A op, pf, sync, v : Cmd(op, pf, sync, v).sync = sync BY DEF Cmd
  <2>3. a.sync = 0 /\ b.sync = 0 /\ x.sync = 0 /\ y.sync = 1 /\ z.sync = 1 BY <2>2
  <2>4. a \in Commands /\ b \in Commands BY <1>2, <2>1, Zenon
  <2>5. x \in Commands /\ y \in Commands /\ z \in Commands BY <1>2, <2>1, Zenon
  <2>6. QED BY <2>3, <2>4, <2>5
<1>4. ToQr(n, m) = <<Times(1, <<a, b, x, y>>)>> /\ Go(m) = <<Times(1, <<z>>)>>
  BY DEF ToQr, Go, Once
<1> HIDE DEF a, b, x, y, z
<1>5. SyncsOf(<<a, b, x, y>>) = 1 /\ SyncsOf(<<z>>) = 1
  BY <1>3, FourSyncs, OneSync
<1>6. <<a, b, x, y>> \in Seq(Commands) /\ <<z>> \in Seq(Commands)
  BY <1>3
<1>7. /\ <<Times(1, <<a, b, x, y>>)>> \in Script
      /\ Meetings(<<Times(1, <<a, b, x, y>>)>>) = 1 * 1
  BY <1>5, <1>6, OneBlock
<1>8. /\ <<Times(1, <<z>>)>> \in Script
      /\ Meetings(<<Times(1, <<z>>)>>) = 1 * 1
  BY <1>5, <1>6, OneBlock
<1>9. QED BY <1>4, <1>7, <1>8

LEMMA DegreesAre ==
  ASSUME NEW a \in 0..359, NEW b \in 0..359
  PROVE  get_angle_diff(a, b) \in Int /\ Degrees(get_angle_diff(a, b)) \in Nat
BY DEF get_angle_diff, Degrees

\* A turn holds as many meetings for the AGV at the centre as for the others,
\* with the side of the conflict that counts the others' circle steps.
LEMMA TurnMeets ==
  ASSUME task \in Tasks, heading \in 0..359,
         NEW n \in Nodes, NEW next \in 0..359, NEW link \in Map[n],
         NEW p \in Positions, p.x # 0 => Tangent[p] \in -360..360
  PROVE  /\ TurnOf(p, n, next, link) \in Script
         /\ task.side = "29c8610" =>
              Meetings(TurnOf(p, n, next, link))
                = 2 + Degrees(get_angle_diff(heading, link.angle))
<1> DEFINE turn == get_angle_diff(heading, IF task.side = "HEAD" THEN next ELSE link.angle)
<1>1. link.angle \in 0..359 /\ Bias[n] \in 0..359
  BY MapAssumption, BiasAssumption
<1>2. turn \in Int /\ Degrees(turn) \in Nat
  <2>1. (IF task.side = "HEAD" THEN next ELSE link.angle) \in 0..359 BY <1>1
  <2>2. QED BY <2>1, DegreesAre, Zenon
<1>3. task.side = "29c8610" => turn = get_angle_diff(heading, link.angle) OBVIOUS
<1> HIDE DEF turn
<1>4. CASE p = Centre
  <2> DEFINE v == ATOR(IF task.side = "HEAD" THEN next ELSE link.angle, Bias[n])
             c == Cmd("QR_TURN", 0, TurnSync(turn), v)
  <2>1. v \in Values
    <3>1. PICK w \in 0..359 : w = IF task.side = "HEAD" THEN next ELSE link.angle
      BY <1>1
    <3>2. (w - Bias[n] + 360) % 360 \in Int BY <1>1
    <3>3. QED BY <3>1, <3>2, Zenon DEF ATOR, Values
  <2>2. TurnSync(turn) \in Int BY <1>2 DEF TurnSync
  <2>3. c \in Commands /\ c.sync = TurnSync(turn) BY <2>1, <2>2, CmdIs
  <2>4. TurnOf(p, n, next, link) = <<Times(1, <<c>>)>>
    BY <1>4 DEF TurnOf, CentreTurn, Once, turn
  <2> HIDE DEF c
  <2>5. <<c>> \in Seq(Commands) /\ SyncsOf(<<c>>) = TurnSync(turn) BY <2>3, OneSync
  <2>6. TurnOf(p, n, next, link) \in Script
        /\ Meetings(TurnOf(p, n, next, link)) = 1 * TurnSync(turn)
    BY <2>4, <2>5, OneBlock
  <2>7. task.side = "29c8610" => TurnSync(turn) = 2 + Degrees(turn) BY DEF TurnSync
  <2>8. QED BY <1>2, <1>3, <2>2, <2>6, <2>7
<1>5. CASE p # Centre
  <2> DEFINE a == Cmd("MOS_TURN", 0, 1, TangentAngle(p))
             b == Cmd("MOS_TURN", 0, 1, -TangentAngle(p))
             x == Cmd("MOS_CIR", 0, 0, CentreSide(p) * 512 + (Inverter(p) % 512))
             y == Cmd("MOS_CIR", 1, 1, Radius(p) % 1024)
  <2>1. /\ TangentAngle(p) \in Values /\ -TangentAngle(p) \in Values
        /\ CentreSide(p) * 512 + (Inverter(p) % 512) \in Values
        /\ Radius(p) % 1024 \in Values
    <3>1. TangentAngle(p) \in Int BY DEF TangentAngle
    <3>2. -TangentAngle(p) \in Int BY <3>1
    <3>3. CentreSide(p) * 512 + (Inverter(p) % 512) \in Int
      BY DEF CentreSide, Inverter
    <3>4. QED BY <3>1, <3>2, <3>3 DEF Values
  <2>2. /\ a \in Commands /\ b \in Commands /\ x \in Commands /\ y \in Commands
        /\ a.sync = 1 /\ b.sync = 1 /\ x.sync = 0 /\ y.sync = 1
    BY <2>1, CmdIs
  <2>3. TurnOf(p, n, next, link)
          = <<Times(1, <<a>>)>> \o <<Times(Degrees(turn), <<x, y>>)>>
              \o <<Times(1, <<b>>)>>
    BY <1>5 DEF TurnOf, OuterTurn, CircleStep, Once, turn
  <2> HIDE DEF a, b, x, y
  <2>4. /\ SyncsOf(<<a>>) = 1 /\ SyncsOf(<<b>>) = 1 /\ SyncsOf(<<x, y>>) = 1
        /\ <<a>> \in Seq(Commands) /\ <<b>> \in Seq(Commands) /\ <<x, y>> \in Seq(Commands)
    BY <2>2, OneSync, TwoSyncs
  <2> DEFINE s == <<Times(1, <<a>>)>>
             t == <<Times(Degrees(turn), <<x, y>>)>>
             u == <<Times(1, <<b>>)>>
  <2>5. /\ s \in Script /\ Meetings(s) = 1
        /\ t \in Script /\ Meetings(t) = Degrees(turn)
        /\ u \in Script /\ Meetings(u) = 1
    <3>1. 1 \in Nat OBVIOUS
    <3>2. s \in Script /\ Meetings(s) = 1 * 1 BY <2>4, <3>1, OneBlock, Zenon
    <3>3. t \in Script /\ Meetings(t) = Degrees(turn) * 1 BY <1>2, <2>4, OneBlock, Zenon
    <3>4. u \in Script /\ Meetings(u) = 1 * 1 BY <2>4, <3>1, OneBlock, Zenon
    <3>5. QED BY <1>2, <3>2, <3>3, <3>4
  <2> HIDE DEF s, t, u
  <2>6. s \o t \in Script /\ Meetings(s \o t) = 1 + Degrees(turn)
    BY <2>5, MeetingsConcat
  <2>7. (s \o t) \o u \in Script /\ Meetings((s \o t) \o u) = 1 + Degrees(turn) + 1
    BY <2>5, <2>6, MeetingsConcat
  <2>8. TurnOf(p, n, next, link) = (s \o t) \o u BY <2>3 DEF s, t, u
  <2>9. QED BY <1>2, <1>3, <2>7, <2>8
<1>6. QED BY <1>4, <1>5

-----------------------------------------------------------------------------
\* What the walk keeps: everything it deals with is of its kind, ...
WalkTypes ==
  /\ task \in Tasks
  /\ mode \in {"leg", "straight", "done", "exit"}
  /\ i \in 1..Len(task.path)
  /\ heading \in 0..359
  /\ yBias \in 0..MaxDist
  /\ remain \in [Members -> Places \cup {Border}]
  /\ script \in [Team -> Script]
\* ... it goes on only while there is a next checkpoint and nobody left the map,
UnderWay ==
  mode \in {"leg", "straight"} => i < Len(task.path) /\ ~Exceeds(remain)
\* a leg in the old direction starts where the AGVs already are,
LegStart ==
  mode = "leg" /\ heading = NextHeading => remain = TeamOnFly(task.path[i], heading, 0)
\* and a straight move tracks the formation along the link of its leg.
OnLink ==
  mode = "straight" =>
    /\ heading = NextHeading
    /\ remain = TeamOnFly(task.path[i], heading, yBias)
    /\ remain[0] = [id |-> task.path[i + 1], dist |-> NextLink.dist - yBias]
SMInv == WalkTypes /\ UnderWay /\ LegStart /\ OnLink /\ SyncParity

LEMMA MembersAre ==
  ASSUME task \in Tasks
  PROVE  /\ 0 \in Members /\ Pos(0) = Centre
         /\ \A j \in Members : Pos(j) \in Positions
         /\ \A a \in Team : a \in Members /\ Pos(a) = task.form[a]
         /\ \A j \in Members : j = 0 \/ j \in Team
         /\ \A a \in Team : Pos(a).x # 0 => Tangent[Pos(a)] \in -360..360
<1>1. Len(task.form) \in Nat /\ \A j \in 1..Len(task.form) : task.form[j] \in Positions
  BY TasksAre
<1>2. Centre \in Positions BY DEF Centre, Positions
<1>3. \A a \in Team : a \in Members /\ a # 0 BY <1>1 DEF Team, Members
<1>4. \A j \in Members : j = 0 \/ j \in Team BY <1>1 DEF Team, Members
<1>5. 0 \in Members BY <1>1 DEF Members
<1>6. Pos(0) = Centre /\ \A a \in Team : Pos(a) = task.form[a] BY <1>3 DEF Pos
<1>7. \A a \in Team : Pos(a) \in Positions BY <1>1, <1>6 DEF Team
<1>8. \A a \in Team : Pos(a).x # 0 => Tangent[Pos(a)] \in -360..360
  <2>1. \A j \in 1..Len(task.form) :
          task.form[j].x # 0 => Tangent[task.form[j]] \in -360..360
    BY TangentAssumption
  <2>2. QED BY <1>6, <2>1, Zenon DEF Team
<1>9. QED BY <1>2, <1>3, <1>4, <1>5, <1>6, <1>7, <1>8, Zenon

LEMMA TeamOnFlyIs ==
  ASSUME task \in Tasks, NEW c \in Nodes, NEW h, NEW yb \in Nat
  PROVE  /\ TeamOnFly(c, h, yb) \in [Members -> Places \cup {Border}]
         /\ \A j \in Members : TeamOnFly(c, h, yb)[j] = OnFly(c, h, yb, Pos(j))
<1>1. \A j \in Members : OnFly(c, h, yb, Pos(j)) \in Places \cup {Border}
  <2> SUFFICES ASSUME NEW j \in Members
               PROVE  OnFly(c, h, yb, Pos(j)) \in Places \cup {Border}
    BY Zenon
  <2>1. Pos(j) \in Positions BY MembersAre, Zenon
  <2>2. QED BY <2>1, OnFlyFinds, Zenon
<1>2. QED BY <1>1 DEF TeamOnFly

\* The checkpoints of a leg, and the link along which it goes
LEMMA LegIs ==
  ASSUME task \in Tasks, i \in 1..Len(task.path), i < Len(task.path)
  PROVE  /\ task.path[i] \in Nodes /\ task.path[i + 1] \in Nodes
         /\ i + 1 \in 1..Len(task.path) /\ i \in Nat
         /\ NextLink = LinkTo(task.path[i], task.path[i + 1])
         /\ NextLink \in Map[task.path[i]] /\ NextLink.id = task.path[i + 1]
         /\ NextLink.dist \in 1..MaxDist /\ NextLink.angle \in 0..359
         /\ NextHeading \in 0..359
         /\ TeamOnFly(task.path[i], NextHeading, 0)[0]
              = [id |-> task.path[i + 1], dist |-> NextLink.dist]
<1>1. /\ Len(task.path) \in Nat
      /\ \A k \in 1..Len(task.path) : task.path[k] \in Nodes
      /\ \A k \in 1..(Len(task.path) - 1) :
           /\ LinkTo(task.path[k], task.path[k + 1]) \in Map[task.path[k]]
           /\ LinkTo(task.path[k], task.path[k + 1]).id = task.path[k + 1]
           /\ LinkTo(task.path[k], task.path[k + 1]).dist \in 1..MaxDist
           /\ LinkTo(task.path[k], task.path[k + 1]).angle \in 0..359
           /\ HeadingOn(task, k) \in 0..359
  BY TasksAre, Zenon
<1>2. /\ i \in Nat /\ i \in 1..Len(task.path) /\ i + 1 \in 1..Len(task.path)
      /\ i \in 1..(Len(task.path) - 1)
  BY <1>1
<1>3. /\ NextLink \in Map[task.path[i]] /\ NextLink.id = task.path[i + 1]
      /\ NextLink.dist \in 1..MaxDist /\ NextLink.angle \in 0..359
      /\ NextHeading \in 0..359
  BY <1>1, <1>2, Zenon DEF NextLink, NextHeading
<1>4. task.path[i] \in Nodes /\ task.path[i + 1] \in Nodes BY <1>1, <1>2, Zenon
<1>5. NextHeading = RTOA(NextLink.angle, Bias[task.path[i]])
  BY Zenon DEF NextHeading, NextLink, HeadingOn
<1>6. OnFly(task.path[i], NextHeading, 0, Centre)
        = [id |-> task.path[i + 1], dist |-> NextLink.dist]
  BY <1>3, <1>4, <1>5, CentreLeg
<1>7. 0 \in Nat /\ 0 \in Members /\ Pos(0) = Centre BY MembersAre
<1>8. TeamOnFly(task.path[i], NextHeading, 0)[0]
        = OnFly(task.path[i], NextHeading, 0, Centre)
  BY <1>4, <1>7, TeamOnFlyIs, Zenon
<1>9. QED BY <1>2, <1>3, <1>4, <1>6, <1>8, Zenon DEF NextLink

\* A round of a straight move: how far it goes, and whom it brings where
LEMMA RoundGoes ==
  ASSUME SMInv, Round,
         NEW min, min = Min({remain[j].dist : j \in Members})
  PROVE  /\ min \in 1..MaxDist
         /\ \A j \in Members : remain[j] \in Places /\ remain[j] # Border
         /\ yBias + min \in 0..MaxDist /\ yBias + min <= NextLink.dist
         /\ yBias + min = NextLink.dist <=> remain[0].dist = min
         /\ yBias' = yBias + min
         /\ remain' = TeamOnFly(task.path[i], heading, yBias + min)
         /\ remain[0].dist # min => remain'[0] = Nearer(remain[0], min)
<1> DEFINE c == task.path[i]
           S == {remain[j].dist : j \in Members}
<1>1. mode = "straight" /\ task \in Tasks /\ i \in 1..Len(task.path) /\ i < Len(task.path)
      /\ heading = NextHeading /\ ~Exceeds(remain) /\ yBias \in 0..MaxDist
      /\ remain \in [Members -> Places \cup {Border}]
      /\ remain = TeamOnFly(c, heading, yBias)
      /\ remain[0] = [id |-> task.path[i + 1], dist |-> NextLink.dist - yBias]
  BY Zenon DEF SMInv, WalkTypes, UnderWay, OnLink, Round
<1>2. c \in Nodes /\ NextLink.dist \in 1..MaxDist BY <1>1, LegIs
<1>3. 0 \in Members /\ \A j \in Members : Pos(j) \in Positions BY <1>1, MembersAre
<1>4. yBias \in Nat BY <1>1, Numbers
<1>5. \A j \in Members : remain[j] # Border /\ remain[j] \in Places
  BY <1>1 DEF Exceeds
<1>6. \A j \in Members : remain[j].dist \in 1..MaxDist BY <1>5 DEF Places
<1>7. S \subseteq Nat /\ S # {} BY <1>3, <1>6, Numbers
<1>8. min \in S /\ \A x \in S : min <= x
  <2>1. min = Min(S) OBVIOUS
  <2> HIDE DEF S
  <2>2. QED BY <1>7, <2>1, LeastDistance
<1>9. min \in 1..MaxDist /\ \A j \in Members : min <= remain[j].dist BY <1>6, <1>8
<1>10. \A j \in Members : remain[j] = OnFly(c, heading, yBias, Pos(j))
  BY <1>1, <1>2, <1>4, TeamOnFlyIs, Zenon
<1>11. yBias' = yBias + min
  BY DEF Round, Farther
<1>12. remain' = [j \in Members |->
                   IF remain[j].dist = min THEN OnFly(c, heading, yBias + min, Pos(j))
                   ELSE Nearer(remain[j], min)]
  BY DEF Round, Farther, Closer, Nearer
<1> HIDE DEF c, S
<1>13. ASSUME NEW j \in Members, remain[j].dist # min
       PROVE  OnFly(c, heading, yBias + min, Pos(j)) = Nearer(remain[j], min)
  <2>1. min < remain[j].dist /\ min \in Nat BY <1>6, <1>9, <1>13, Numbers
  <2>2. OnFly(c, heading, yBias, Pos(j)) # Border
        /\ min < OnFly(c, heading, yBias, Pos(j)).dist
    BY <1>5, <1>10, <2>1
  <2>3. OnFly(c, heading, yBias + min, Pos(j))
          = Nearer(OnFly(c, heading, yBias, Pos(j)), min)
    <3>1. \A m \in Nat : m < OnFly(c, heading, yBias, Pos(j)).dist =>
            OnFly(c, heading, yBias + m, Pos(j))
              = Nearer(OnFly(c, heading, yBias, Pos(j)), m)
      BY <1>2, <1>3, <1>4, <2>2, OnFlyFinds, Zenon
    <3>2. QED BY <2>1, <2>2, <3>1, Zenon
  <2>4. QED BY <1>10, <2>3
<1>14. remain' = TeamOnFly(c, heading, yBias + min) BY <1>12, <1>13 DEF TeamOnFly
<1>15. remain[0].dist = NextLink.dist - yBias BY <1>1
<1>16. /\ yBias + min \in 0..MaxDist /\ yBias + min <= NextLink.dist
       /\ yBias + min = NextLink.dist <=> remain[0].dist = min
  BY <1>1, <1>2, <1>3, <1>9, <1>15, Numbers
<1>17. remain[0].dist # min => remain'[0] = Nearer(remain[0], min) BY <1>3, <1>12
<1>18. QED BY <1>5, <1>9, <1>11, <1>14, <1>16, <1>17 DEF c

\* Where the next leg goes on in the same direction, its start is the last one's end.
LEMMA NextLeg ==
  ASSUME task \in Tasks, NEW k \in 1..(Len(task.path) - 2),
         HeadingOn(task, k) = HeadingOn(task, k + 1),
         NEW yb \in Nat, yb = LinkTo(task.path[k], task.path[k + 1]).dist,
         ~Exceeds(TeamOnFly(task.path[k], HeadingOn(task, k), yb))
  PROVE  TeamOnFly(task.path[k], HeadingOn(task, k), yb)
           = TeamOnFly(task.path[k + 1], HeadingOn(task, k), 0)
<1> DEFINE c == task.path[k]
           e == task.path[k + 1]
           h == HeadingOn(task, k)
<1>1. c \in Nodes /\ e \in Nodes /\ LinkTo(c, e).dist \in 1..MaxDist
  <2>1. Len(task.path) \in Nat BY TasksAre
  <2>2. k \in 1..Len(task.path) /\ k + 1 \in 1..Len(task.path)
        /\ k \in 1..(Len(task.path) - 1)
    BY <2>1
  <2>3. QED BY <2>2, TasksAre, Zenon
<1>2. GoesOn(c, e, h, Centre) /\ \A j \in 1..Len(task.form) : GoesOn(c, e, h, task.form[j])
  BY ParallelAssumption, Zenon
<1>3. \A j \in Members : GoesOn(c, e, h, Pos(j)) /\ Pos(j) \in Positions
  BY <1>2, MembersAre, Zenon DEF Team
<1>4. yb = LinkTo(c, e).dist OBVIOUS
<1>5. ~Exceeds(TeamOnFly(c, h, yb)) OBVIOUS
<1> HIDE DEF c, e, h
<1>6. \A j \in Members : OnFly(c, h, yb, Pos(j)) = OnFly(e, h, 0, Pos(j))
  <2> SUFFICES ASSUME NEW j \in Members
               PROVE  OnFly(c, h, yb, Pos(j)) = OnFly(e, h, 0, Pos(j))
    BY Zenon
  <2>1. OnFly(c, h, yb, Pos(j)) # Border BY <1>5 DEF Exceeds, TeamOnFly
  <2>2. HasColumn(c, h, Pos(j)) BY <1>3, <2>1, OnFlyIs, Zenon
  <2>3. OnFly(c, h, LinkTo(c, e).dist, Pos(j)) = OnFly(e, h, 0, Pos(j))
    BY <1>1, <1>3, <2>2, StaysAbreast, Zenon
  <2>4. QED BY <1>4, <2>3
<1>7. QED BY <1>6 DEF TeamOnFly, c, e, h

-----------------------------------------------------------------------------
LEMMA EmptyScript == <<>> \in Script /\ Meetings(<<>>) = 0
<1>1. <<>> \in Script /\ Len(<<>>) = 0 BY DEF Script
<1>2. Counts(<<>>) = <<>> BY DEF Counts
<1>3. Meetings(<<>>) = SumOf(Counts(<<>>)) BY <1>1, CountsInt
<1>4. QED BY <1>1, <1>2, <1>3, SumsAre

LEMMA InitHolds == SMInit => SMInv
<1> SUFFICES ASSUME SMInit PROVE SMInv OBVIOUS
<1>1. /\ task \in Tasks /\ i = 1 /\ yBias = 0 /\ heading = HeadingOn(task, 1)
      /\ remain = TeamOnFly(task.path[1], heading, 0)
      /\ script = [a \in Team |-> <<>>]
      /\ mode = IF Exceeds(remain) THEN "exit" ELSE "leg"
  BY DEF SMInit
<1>2. Len(task.path) \in Nat /\ Len(task.path) > 1 BY <1>1, TasksAre
<1>3. i \in 1..Len(task.path) /\ i < Len(task.path) BY <1>1, <1>2
<1>4. /\ task.path[i] \in Nodes /\ NextHeading \in 0..359 /\ heading = NextHeading
  <2>1. heading = NextHeading BY <1>1 DEF NextHeading
  <2>2. QED BY <1>1, <1>3, <2>1, LegIs, Zenon
<1>5. remain = TeamOnFly(task.path[i], heading, 0) BY <1>1
<1>6. remain \in [Members -> Places \cup {Border}]
  <2>1. 0 \in Nat OBVIOUS
  <2>2. task \in Tasks /\ task.path[i] \in Nodes BY <1>1, <1>4
  <2>3. TeamOnFly(task.path[i], heading, 0) \in [Members -> Places \cup {Border}]
    BY <2>1, <2>2, TeamOnFlyIs, Zenon
  <2>4. QED BY <1>5, <2>3
<1>7. \A a \in Team : script[a] = <<>> BY <1>1
<1>8. script \in [Team -> Script]
  BY <1>1, EmptyScript
<1>9. WalkTypes
  <2>1. yBias \in 0..MaxDist BY <1>1, Numbers
  <2>2. mode \in {"leg", "straight", "done", "exit"} BY <1>1
  <2>3. heading \in 0..359 BY <1>4
  <2>4. QED BY <1>1, <1>3, <1>6, <1>8, <2>1, <2>2, <2>3, Zenon DEF WalkTypes
<1>10. UnderWay BY <1>1, <1>3 DEF UnderWay
<1>11. LegStart BY <1>5 DEF LegStart
<1>12. OnLink BY <1>1 DEF OnLink
<1>13. SyncParity BY <1>7 DEF SyncParity
<1>14. QED BY <1>9, <1>10, <1>11, <1>12, <1>13 DEF SMInv

LEMMA KeepOnKeeps == SMInv /\ KeepOn => SMInv'
<1> SUFFICES ASSUME SMInv, KeepOn PROVE SMInv' OBVIOUS
<1> USE DEF SMInv, KeepOn
<1>1. /\ WalkTypes /\ UnderWay /\ LegStart
      /\ mode = "leg" /\ mode' = "straight" /\ heading = NextHeading /\ yBias' = 0
      /\ task' = task /\ i' = i /\ heading' = heading /\ remain' = remain
      /\ script' = script
  OBVIOUS
<1>2. task \in Tasks /\ i \in 1..Len(task.path) /\ i < Len(task.path)
  BY <1>1 DEF WalkTypes, UnderWay
<1>3. WalkTypes' BY <1>1, Numbers DEF WalkTypes, Members, Team
<1>4. UnderWay' BY <1>1 DEF UnderWay, Exceeds
<1>5. LegStart' BY <1>1 DEF LegStart
<1>6. NextHeading' = NextHeading /\ NextLink' = NextLink
  BY <1>1 DEF NextHeading, NextLink
<1>7. remain = TeamOnFly(task.path[i], heading, 0) BY <1>1 DEF LegStart
<1>8. remain[0] = [id |-> task.path[i + 1], dist |-> NextLink.dist]
  BY <1>1, <1>2, <1>7, LegIs
<1>9. NextLink.dist - 0 = NextLink.dist BY <1>2, LegIs, Numbers
<1>10. OnLink'
  <2>1. TeamOnFly(task.path[i], heading, 0)' = TeamOnFly(task.path[i], heading, 0)
    BY <1>1 DEF TeamOnFly, Members, Pos
  <2>2. (remain = TeamOnFly(task.path[i], heading, yBias))'
    BY <1>1, <1>7 DEF TeamOnFly, Members, Pos
  <2>3. (remain[0] = [id |-> task.path[i + 1], dist |-> NextLink.dist - yBias])'
    BY <1>1, <1>6, <1>8, <1>9
  <2>4. QED BY <1>1, <1>6, <2>2, <2>3 DEF OnLink
<1>11. SyncParity' BY <1>1 DEF SyncParity, Team
<1>12. QED BY <1>3, <1>4, <1>5, <1>10, <1>11

\* A turn of the team adds as many meetings to the script of each AGV.
LEMMA TurnAdds ==
  ASSUME SMInv, TeamTurn
  PROVE  /\ script' \in [Team -> Script]
         /\ task.side = "29c8610" => \E x \in Int : \A a \in Team :
              Meetings(script'[a]) = Meetings(script[a]) + x
<1> DEFINE turn(a) == TurnOf(Pos(a), task.path[i], NextHeading, NextLink)
           x == 2 + Degrees(get_angle_diff(heading, NextLink.angle))
<1>1. /\ task \in Tasks /\ i \in 1..Len(task.path) /\ i < Len(task.path)
      /\ heading \in 0..359 /\ script \in [Team -> Script]
  BY DEF SMInv, WalkTypes, UnderWay, TeamTurn
<1>2. /\ task.path[i] \in Nodes /\ NextHeading \in 0..359
      /\ NextLink \in Map[task.path[i]] /\ NextLink.angle \in 0..359
  BY <1>1, LegIs
<1>3. \A a \in Team : Pos(a) \in Positions /\ (Pos(a).x # 0 => Tangent[Pos(a)] \in -360..360)
  BY <1>1, MembersAre, Zenon
<1>4. \A a \in Team :
        turn(a) \in Script /\ (task.side = "29c8610" => Meetings(turn(a)) = x)
  <2> SUFFICES ASSUME NEW a \in Team
               PROVE  turn(a) \in Script /\ (task.side = "29c8610" => Meetings(turn(a)) = x)
    BY Zenon
  <2>1. Pos(a) \in Positions /\ (Pos(a).x # 0 => Tangent[Pos(a)] \in -360..360) BY <1>3
  <2> DEFINE p == Pos(a)
             n == task.path[i]
             next == NextHeading
             link == NextLink
  <2>2. /\ task \in Tasks /\ heading \in 0..359 /\ n \in Nodes /\ next \in 0..359
        /\ link \in Map[n] /\ p \in Positions
        /\ p.x # 0 => Tangent[p] \in -360..360
    BY <1>1, <1>2, <2>1, Zenon
  <2> HIDE DEF p, n, next, link
  <2>3. /\ TurnOf(p, n, next, link) \in Script
        /\ task.side = "29c8610" =>
             Meetings(TurnOf(p, n, next, link))
               = 2 + Degrees(get_angle_diff(heading, link.angle))
    BY <2>2, TurnMeets
  <2>4. QED BY <2>3, Zenon DEF p, n, next, link
<1>5. x \in Int
  <2>1. Degrees(get_angle_diff(heading, NextLink.angle)) \in Nat
    BY <1>1, <1>2, DegreesAre, Zenon
  <2>2. QED BY <2>1
<1>6. \A a \in Team : script'[a] = script[a] \o turn(a) BY DEF TeamTurn
<1>7. DOMAIN script' = Team /\ script' = [a \in Team |-> script[a] \o turn(a)]
  BY DEF TeamTurn
<1> HIDE DEF turn, x
<1>8. \A a \in Team : script[a] \in Script BY <1>1
<1>9. \A a \in Team :
        /\ script[a] \o turn(a) \in Script
        /\ Meetings(script[a] \o turn(a)) = Meetings(script[a]) + Meetings(turn(a))
  BY <1>4, <1>8, MeetingsConcat, Zenon
<1>10. script' \in [Team -> Script] BY <1>7, <1>9
<1>11. task.side = "29c8610" => \A a \in Team :
         Meetings(script'[a]) = Meetings(script[a]) + x
  BY <1>4, <1>6, <1>9
<1>12. QED BY <1>5, <1>10, <1>11

LEMMA TeamTurnKeeps == SMInv /\ TeamTurn => SMInv'
<1> SUFFICES ASSUME SMInv, TeamTurn PROVE SMInv' OBVIOUS
<1>1. /\ task \in Tasks /\ i \in 1..Len(task.path) /\ i < Len(task.path)
      /\ task' = task /\ i' = i /\ heading' = NextHeading /\ yBias' = 0
      /\ remain' = TeamOnFly(task.path[i], NextHeading, 0)
      /\ mode' = IF Exceeds(remain') THEN "exit" ELSE "straight"
  BY DEF SMInv, WalkTypes, UnderWay, TeamTurn
<1>2. /\ task.path[i] \in Nodes /\ NextHeading \in 0..359
      /\ NextLink.dist \in 1..MaxDist
      /\ TeamOnFly(task.path[i], NextHeading, 0)[0]
              = [id |-> task.path[i + 1], dist |-> NextLink.dist]
  BY <1>1, LegIs
<1>3. NextHeading' = NextHeading /\ NextLink' = NextLink
  BY <1>1 DEF NextHeading, NextLink
<1>4. Members' = Members /\ Team' = Team /\ \A j : Pos(j)' = Pos(j)
  BY <1>1 DEF Members, Team, Pos
<1>5. remain' \in [Members -> Places \cup {Border}]
  <2>1. 0 \in Nat OBVIOUS
  <2>2. QED BY <1>1, <1>2, <2>1, TeamOnFlyIs, Zenon
<1>6. WalkTypes'
  BY <1>1, <1>2, <1>4, <1>5, TurnAdds, Numbers DEF WalkTypes
<1>7. UnderWay' BY <1>1 DEF UnderWay, Exceeds
<1>8. LegStart' BY <1>1 DEF LegStart
<1>9. OnLink'
  <2>1. (remain = TeamOnFly(task.path[i], heading, yBias))'
    BY <1>1 DEF TeamOnFly, Members, Pos
  <2>2. NextLink.dist - 0 = NextLink.dist BY <1>2, Numbers
  <2>3. (remain[0] = [id |-> task.path[i + 1], dist |-> NextLink.dist - yBias])'
    BY <1>1, <1>2, <1>3, <2>2
  <2>4. QED BY <1>1, <1>3, <2>1, <2>3 DEF OnLink
<1>10. SyncParity'
  <2> SUFFICES ASSUME task.side = "29c8610", NEW a \in Team, NEW b \in Team
               PROVE  Meetings(script'[a]) = Meetings(script'[b])
    BY <1>1, <1>4 DEF SyncParity
  <2>1. Meetings(script[a]) = Meetings(script[b]) BY DEF SMInv, SyncParity
  <2>2. QED BY <2>1, TurnAdds
<1>11. QED BY <1>6, <1>7, <1>8, <1>9, <1>10 DEF SMInv

\* A round adds one meeting to the script of each AGV.
LEMMA RoundAdds ==
  ASSUME SMInv, Round
  PROVE  /\ script' \in [Team -> Script]
         /\ \A a \in Team : Meetings(script'[a]) = Meetings(script[a]) + 1
<1> DEFINE min == Min({remain[j].dist : j \in Members})
           more(a) == IF remain[a].dist = min THEN ToQr(remain[a].id, min) ELSE Go(min)
<1>1. task \in Tasks /\ heading \in 0..359 /\ script \in [Team -> Script]
  BY DEF SMInv, WalkTypes
<1>2. min \in 1..MaxDist /\ \A j \in Members : remain[j] \in Places
  BY RoundGoes, Zenon
<1>3. \A a \in Team : a \in Members BY <1>1, MembersAre
<1>4. script' = [a \in Team |-> script[a] \o more(a)] BY DEF Round
<1> HIDE DEF min
<1>5. \A a \in Team : more(a) \in Script /\ Meetings(more(a)) = 1
  <2> SUFFICES ASSUME NEW a \in Team PROVE more(a) \in Script /\ Meetings(more(a)) = 1
    BY Zenon
  <2>1. remain[a].id \in Nodes BY <1>2, <1>3 DEF Places
  <2>2. /\ ToQr(remain[a].id, min) \in Script /\ Meetings(ToQr(remain[a].id, min)) = 1
        /\ Go(min) \in Script /\ Meetings(Go(min)) = 1
    BY <1>1, <1>2, <2>1, RoundMeets, Zenon
  <2>3. QED BY <2>2, Zenon
<1> HIDE DEF more
<1>6. \A a \in Team : script[a] \in Script BY <1>1
<1>7. \A a \in Team :
        /\ script[a] \o more(a) \in Script
        /\ Meetings(script[a] \o more(a)) = Meetings(script[a]) + Meetings(more(a))
  BY <1>5, <1>6, MeetingsConcat, Zenon
<1>8. QED BY <1>4, <1>5, <1>7

LEMMA RoundKeeps == SMInv /\ Round => SMInv'
<1> SUFFICES ASSUME SMInv, Round PROVE SMInv' OBVIOUS
<1> DEFINE min == Min({remain[j].dist : j \in Members})
           far == yBias + min
           c == task.path[i]
<1>1. /\ task \in Tasks /\ i \in 1..Len(task.path) /\ i < Len(task.path)
      /\ heading \in 0..359 /\ heading = NextHeading /\ yBias \in Nat
      /\ remain[0] = [id |-> task.path[i + 1], dist |-> NextLink.dist - yBias]
      /\ SyncParity
  BY Numbers DEF SMInv, WalkTypes, UnderWay, OnLink, Round
<1>2. /\ task' = task /\ heading' = heading
      /\ i' = IF remain[0].dist = min /\ ~Exceeds(remain') THEN i + 1 ELSE i
      /\ mode' = IF Exceeds(remain') THEN "exit"
                 ELSE IF remain[0].dist # min THEN "straight"
                 ELSE IF i' = Len(task.path) THEN "done" ELSE "leg"
  BY DEF Round
<1>3. min = Min({remain[j].dist : j \in Members}) OBVIOUS
<1> HIDE DEF min
<1>4. /\ min \in 1..MaxDist /\ far \in 0..MaxDist /\ far <= NextLink.dist
      /\ far = NextLink.dist <=> remain[0].dist = min
      /\ yBias' = far
      /\ remain' = TeamOnFly(c, heading, far)
      /\ remain[0].dist # min => remain'[0] = Nearer(remain[0], min)
  BY <1>3, RoundGoes, Zenon
<1>5. /\ c \in Nodes /\ i + 1 \in 1..Len(task.path) /\ i \in Nat
      /\ NextLink.dist \in 1..MaxDist /\ NextLink = LinkTo(c, task.path[i + 1])
  BY <1>1, LegIs
<1>6. Members' = Members /\ Team' = Team /\ \A j : Pos(j)' = Pos(j)
  BY <1>2 DEF Members, Team, Pos
<1>7. far \in Nat BY <1>4, Numbers
<1> HIDE DEF far
<1>8. remain' \in [Members -> Places \cup {Border}]
  <2>1. TeamOnFly(c, heading, far) \in [Members -> Places \cup {Border}]
    BY <1>1, <1>5, <1>7, TeamOnFlyIs, Zenon
  <2>2. QED BY <1>4, <2>1
<1>9. WalkTypes'
  <2>1. i' \in 1..Len(task.path) BY <1>1, <1>2, <1>5
  <2>2. mode' \in {"leg", "straight", "done", "exit"} BY <1>2
  <2>3. script' \in [Team -> Script] BY RoundAdds
  <2>4. QED BY <1>1, <1>2, <1>4, <1>6, <1>8, <2>1, <2>2, <2>3, Zenon DEF WalkTypes
<1>10. UnderWay'
  <2>1. Exceeds(remain)' = Exceeds(remain') BY DEF Exceeds
  <2>2. Len(task.path) \in Nat BY <1>1, TasksAre
  <2>3. mode' \in {"leg", "straight"} => ~Exceeds(remain') /\ i' < Len(task.path)
    BY <1>1, <1>2, <1>5, <2>2
  <2>4. QED BY <1>2, <2>1, <2>3 DEF UnderWay
<1>11. ASSUME mode' = "leg", heading' = NextHeading'
       PROVE  remain' = TeamOnFly(task.path[i'], heading, 0)
  <2>1. i' = i + 1 /\ remain[0].dist = min /\ ~Exceeds(remain') /\ i + 1 # Len(task.path)
    BY <1>2, <1>11
  <2>2. far = NextLink.dist BY <1>4, <2>1
  <2>3. NextHeading' = HeadingOn(task, i + 1) BY <1>2, <2>1 DEF NextHeading
  <2>4. heading = HeadingOn(task, i) BY <1>1 DEF NextHeading
  <2>5. HeadingOn(task, i) = HeadingOn(task, i + 1) BY <1>2, <1>11, <2>3, <2>4
  <2>6. i \in 1..(Len(task.path) - 2)
    <3>1. Len(task.path) \in Nat BY <1>1, TasksAre
    <3>2. QED BY <1>1, <1>5, <2>1, <3>1
  <2>7. ~Exceeds(TeamOnFly(task.path[i], HeadingOn(task, i), far)) BY <1>4, <2>1, <2>4
  <2>8. far = LinkTo(task.path[i], task.path[i + 1]).dist BY <1>5, <2>2
  <2>9. TeamOnFly(task.path[i], HeadingOn(task, i), far)
          = TeamOnFly(task.path[i + 1], HeadingOn(task, i), 0)
    BY <1>1, <1>7, <2>5, <2>6, <2>7, <2>8, NextLeg, Zenon
  <2>10. QED BY <1>4, <2>1, <2>4, <2>9
<1>12. LegStart'
  <2>1. TeamOnFly(task.path[i], heading, 0)' = TeamOnFly(task.path[i'], heading, 0)
    BY <1>2 DEF TeamOnFly, Members, Pos
  <2>2. QED BY <1>11, <2>1 DEF LegStart
<1>13. ASSUME mode' = "straight"
       PROVE  /\ heading' = NextHeading'
              /\ (remain = TeamOnFly(task.path[i], heading, yBias))'
              /\ (remain[0] = [id |-> task.path[i + 1], dist |-> NextLink.dist - yBias])'
  <2>1. i' = i /\ remain[0].dist # min BY <1>2, <1>13
  <2>2. NextHeading' = NextHeading /\ NextLink' = NextLink
    BY <1>2, <2>1 DEF NextHeading, NextLink
  <2>3. heading' = NextHeading' BY <1>1, <1>2, <2>2
  <2>4. (remain = TeamOnFly(task.path[i], heading, yBias))'
    BY <1>2, <1>4, <2>1 DEF TeamOnFly, Members, Pos
  <2>5. remain'[0] = [id |-> task.path[i + 1], dist |-> (NextLink.dist - yBias) - min]
    BY <1>1, <1>4, <2>1, NearerIs
  <2>6. (NextLink.dist - yBias) - min = NextLink.dist - far
    BY <1>1, <1>4, <1>5, Numbers DEF far
  <2>7. QED BY <1>2, <1>4, <2>1, <2>2, <2>3, <2>4, <2>5, <2>6
<1>14. OnLink' BY <1>13 DEF OnLink
<1>15. SyncParity'
  <2> SUFFICES ASSUME task.side = "29c8610", NEW a \in Team, NEW b \in Team
               PROVE  Meetings(script'[a]) = Meetings(script'[b])
    BY <1>2, <1>6 DEF SyncParity
  <2>1. Meetings(script[a]) = Meetings(script[b]) BY <1>1 DEF SyncParity
  <2>2. QED BY <2>1, RoundAdds
<1>16. QED BY <1>9, <1>10, <1>12, <1>14, <1>15 DEF SMInv

LEMMA StutterKeeps == SMInv /\ UNCHANGED smVars => SMInv'
<1> SUFFICES ASSUME SMInv, UNCHANGED smVars PROVE SMInv' OBVIOUS
<1>1. /\ task' = task /\ mode' = mode /\ i' = i /\ heading' = heading
      /\ yBias' = yBias /\ remain' = remain /\ script' = script
  BY DEF smVars
<1>2. WalkTypes' BY <1>1 DEF SMInv, WalkTypes, Members, Team
<1>3. UnderWay' BY <1>1 DEF SMInv, UnderWay, Exceeds
<1>4. LegStart' BY <1>1 DEF SMInv, LegStart, NextHeading, TeamOnFly, Members, Pos
<1>5. OnLink'
  BY <1>1 DEF SMInv, OnLink, NextHeading, NextLink, TeamOnFly, Members, Pos
<1>6. SyncParity' BY <1>1 DEF SMInv, SyncParity, Team
<1>7. QED BY <1>2, <1>3, <1>4, <1>5, <1>6 DEF SMInv

LEMMA StepKeeps == SMInv /\ [SMNext]_smVars => SMInv'
BY KeepOnKeeps, TeamTurnKeeps, RoundKeeps, StutterKeeps, Zenon DEF SMNext, Ended

LEMMA WalkInvariant == SMSpec => []SMInv
BY InitHolds, StepKeeps, PTL DEF SMSpec

-----------------------------------------------------------------------------
\* Every variable of get_command's walk stays in its range.
THEOREM WalkIsTyped == SMSpec => []SMTypeOK
<1>1. SMInv => SMTypeOK
  <2>1. SMInv => DOMAIN script = Team BY DEF SMInv, WalkTypes
  <2>2. QED BY <2>1, Zenon DEF SMInv, WalkTypes, Places, SMTypeOK
<1>2. QED BY <1>1, WalkInvariant, PTL

\* The scripts of a team ask for equally many meetings (script_manager.c:270-339,
\* side 29c8610), whatever the map, the formation and the path.
THEOREM ScriptsMeet == SMSpec => []SyncParity
<1>1. SMInv => SyncParity BY DEF SMInv
<1>2. QED BY <1>1, WalkInvariant, PTL

\* What get_command tracks by subtraction is what get_on_fly_pos computes
\* (script_manager.c:361-394 against 150-207).
THEOREM FormationIsKept == SMSpec => []KeepsFormation
<1>1. SMInv => KeepsFormation BY DEF SMInv, OnLink, KeepsFormation
<1>2. QED BY <1>1, WalkInvariant, PTL

\* A leg ends when the centre has gone the link to the path's next checkpoint
\* (script_manager.c:255-261, 391-393).
THEOREM LegsFollowThePath == SMSpec => CentreOnPath
<1>1. SMInv /\ [SMNext]_smVars =>
        [i' # i => /\ remain[0].id = task.path[i + 1]
                   /\ yBias' = NextLink.dist]_smVars
  <2> SUFFICES ASSUME SMInv, [SMNext]_smVars, i' # i
               PROVE  remain[0].id = task.path[i + 1] /\ yBias' = NextLink.dist
    BY Zenon
  <2>1. Round BY DEF SMNext, KeepOn, TeamTurn, Ended, smVars
  <2> DEFINE min == Min({remain[j].dist : j \in Members})
  <2>2. remain[0].dist = min BY <2>1 DEF Round
  <2>3. remain[0] = [id |-> task.path[i + 1], dist |-> NextLink.dist - yBias]
    BY <2>1 DEF SMInv, OnLink, Round
  <2>4. min = Min({remain[j].dist : j \in Members}) OBVIOUS
  <2> HIDE DEF min
  <2>5. yBias' = yBias + min /\ (yBias + min = NextLink.dist <=> remain[0].dist = min)
    BY <2>1, <2>4, RoundGoes, Zenon
  <2>6. QED BY <2>2, <2>3, <2>5
<1>2. QED BY <1>1, WalkInvariant, PTL DEF SMSpec, CentreOnPath

-----------------------------------------------------------------------------
\* What the AGV makes of the ten bits it gets: an angle up to a full circle, either
\* way, is what was meant.
LEMMA SignedIs ==
  ASSUME NEW v \in -360..360
  PROVE  Signed(v, 512) = v
<1>1. (v + 512) % 1024 = v + 512 OBVIOUS
<1>2. 2 * 512 = 1024 OBVIOUS
<1>3. QED BY <1>1, <1>2 DEF Signed

\* A step of the circle turns the AGV by a degree, clockwise on either side.
LEMMA CircledIs ==
  ASSUME NEW p \in Positions
  PROVE  Circled(CentreSide(p) * 512 + (Inverter(p) % 512)) = 1
<1>1. /\ (-1) % 512 = 511 /\ 511 \div 512 = 0 /\ (511 + 256) % (2 * 256) = 255
      /\ 1 % 512 = 1 /\ 513 \div 512 = 1 /\ (513 + 256) % (2 * 256) = 257
  <2>1. (-1) % 512 = 511
    <3>1. \A x \in Int : (x + 512) % 512 = x % 512 OBVIOUS
    <3>2. PICK x \in Int : x = -1 OBVIOUS
    <3>3. x + 512 = 511 /\ 511 % 512 = 511 BY <3>2
    <3>4. x % 512 = 511 BY <3>1, <3>3
    <3>5. QED BY <3>2, <3>4
  <2>2. 511 \div 512 = 0 OBVIOUS
  <2>3. (511 + 256) % (2 * 256) = 255 OBVIOUS
  <2>4. 1 % 512 = 1 OBVIOUS
  <2>5. 513 \div 512 = 1 OBVIOUS
  <2>6. (513 + 256) % (2 * 256) = 257 OBVIOUS
  <2>7. QED BY <2>1, <2>2, <2>3, <2>4, <2>5, <2>6
<1>2. Circled(511) = 1 BY <1>1 DEF Circled, Signed
<1>3. Circled(513) = 1 BY <1>1 DEF Circled, Signed
<1>4. CASE CentreSide(p) = 0
  <2>1. Inverter(p) = -1 BY <1>4 DEF Inverter
  <2>2. CentreSide(p) * 512 + (Inverter(p) % 512) = 511 BY <1>1, <1>4, <2>1
  <2>3. QED BY <1>2, <2>2
<1>5. CASE CentreSide(p) # 0
  <2>1. CentreSide(p) = 1 /\ Inverter(p) = 1 BY <1>5 DEF Inverter, CentreSide
  <2>2. CentreSide(p) * 512 + (Inverter(p) % 512) = 513 BY <1>1, <2>1
  <2>3. QED BY <1>3, <2>2
<1>6. QED BY <1>4, <1>5

LEMMA TangentIs ==
  ASSUME NEW p \in Positions, p.x # 0 => Tangent[p] \in -360..360
  PROVE  TangentAngle(p) \in -360..360 /\ -TangentAngle(p) \in -360..360
<1>1. TangentAngle(p) \in -360..360 BY DEF TangentAngle
<1>2. QED BY <1>1

LEMMA OneByOne ==
  ASSUME NEW S, NEW q \in S, NEW w \in S, NEW z \in S
  PROVE  <<q>> \o <<w>> \o <<z>> = <<q, w, z>>
<1> DEFINE t == <<q>> \o <<w>> \o <<z>>
<1>1. t \in Seq(S) /\ Len(t) = 3 /\ t[1] = q /\ t[2] = w /\ t[3] = z OBVIOUS
<1> HIDE DEF t
<1>2. t = <<q, w, z>> BY <1>1
<1>3. QED BY <1>2 DEF t

\* Onto the tangent, along the circle and back: the turn of an AGV beside the centre
LEMMA OuterTurns ==
  ASSUME NEW p \in Positions, p.x # 0 => Tangent[p] \in -360..360, NEW g \in Int
  PROVE  LET t == OuterTurn(p, g)
         IN  SumOf([k \in 1..Len(t) |-> t[k].times * DegreesOf(t[k].cmds)]) = Degrees(g)
<1> DEFINE v == TangentAngle(p)
           a == Cmd("MOS_TURN", 0, 1, v)
           b == Cmd("MOS_TURN", 0, 1, -v)
           x == Cmd("MOS_CIR", 0, 0, CentreSide(p) * 512 + (Inverter(p) % 512))
           y == Cmd("MOS_CIR", 1, 1, Radius(p) % 1024)
           n == Degrees(g)
           t == OuterTurn(p, g)
<1>1. n \in Int BY DEF Degrees
<1>2. v \in -360..360 /\ -v \in -360..360 BY TangentIs
<1>3. TurnedBy(a) = v /\ TurnedBy(b) = -v
  <2>1. Signed(v, 512) = v /\ Signed(-v, 512) = -v BY <1>2, SignedIs
  <2>2. \A w : TurnedBy(Cmd("MOS_TURN", 0, 1, w)) = Signed(w, 512) BY DEF TurnedBy, Cmd
  <2>3. QED BY <2>1, <2>2
<1>4. TurnedBy(x) = 1 /\ TurnedBy(y) = 0
  <2>1. \A w : TurnedBy(Cmd("MOS_CIR", 0, 0, w)) = Circled(w) BY DEF TurnedBy, Cmd
  <2>2. \A w : TurnedBy(Cmd("MOS_CIR", 1, 1, w)) = 0 BY DEF TurnedBy, Cmd
  <2>3. QED BY <2>1, <2>2, CircledIs
<1>5. t = <<Times(1, <<a>>), Times(n, <<x, y>>), Times(1, <<b>>)>>
  <2>1. t = <<Times(1, <<a>>)>> \o <<Times(n, <<x, y>>)>> \o <<Times(1, <<b>>)>>
    BY Zenon DEF OuterTurn, CircleStep, Once
  <2>2. \A S : \A q, w, z \in S : <<q>> \o <<w>> \o <<z>> = <<q, w, z>>
    BY OneByOne, Zenon
  <2> DEFINE q == Times(1, <<a>>)
             w == Times(n, <<x, y>>)
             z == Times(1, <<b>>)
  <2>3. t = <<q>> \o <<w>> \o <<z>> BY <2>1, Zenon
  <2> HIDE DEF q, w, z
  <2>4. q \in {q, w, z} /\ w \in {q, w, z} /\ z \in {q, w, z} OBVIOUS
  <2>5. <<q>> \o <<w>> \o <<z>> = <<q, w, z>> BY <2>2, <2>4, Zenon
  <2>6. t = <<q, w, z>> BY <2>3, <2>5, Zenon
  <2>7. QED BY <2>6, Zenon DEF q, w, z
<1> HIDE DEF v, a, b, x, y, n, t
<1>6. DegreesOf(<<a>>) = v /\ DegreesOf(<<b>>) = -v /\ DegreesOf(<<x, y>>) = 1
  <2>1. /\ [c \in 1..Len(<<a>>) |-> TurnedBy(<<a>>[c])] = <<TurnedBy(a)>>
        /\ [c \in 1..Len(<<b>>) |-> TurnedBy(<<b>>[c])] = <<TurnedBy(b)>>
        /\ [c \in 1..Len(<<x, y>>) |-> TurnedBy(<<x, y>>[c])] = <<TurnedBy(x), TurnedBy(y)>>
    OBVIOUS
  <2>2. v \in Int /\ -v \in Int BY <1>2
  <2>3. SumOf(<<v>>) = v /\ SumOf(<<-v>>) = -v /\ SumOf(<<1, 0>>) = 1 + 0
    <3>1. /\ \A w \in Int : SumOf(<<w>>) = w
          /\ \A w, z \in Int : SumOf(<<w, z>>) = w + z
      BY SumsAre
    <3>2. QED BY <2>2, <3>1
  <2>4. QED BY <1>3, <1>4, <2>1, <2>3 DEF DegreesOf
<1>7. [k \in 1..Len(t) |-> t[k].times * DegreesOf(t[k].cmds)] = <<1 * v, n * 1, 1 * (-v)>>
  BY <1>5, <1>6 DEF Times
<1>8. v \in Int /\ 1 * v = v /\ n * 1 = n /\ 1 * (-v) = -v /\ -v \in Int BY <1>1, <1>2
<1>9. SumOf(<<v, n, -v>>) = v + n + (-v)
  <2>1. \A q, w, z \in Int : SumOf(<<q, w, z>>) = q + w + z BY SumsAre
  <2>2. QED BY <1>1, <1>8, <2>1
<1>10. SumOf([k \in 1..Len(t) |-> t[k].times * DegreesOf(t[k].cmds)]) = n
  <2>1. v + n + (-v) = n BY <1>1, <1>8
  <2>2. <<1 * v, n * 1, 1 * (-v)>> = <<v, n, -v>> BY <1>8
  <2>3. QED BY <1>7, <1>9, <2>1, <2>2, Zenon
<1>11. QED BY <1>10 DEF t, n

\* A clockwise turn by the difference of two headings leads from one to the other.
LEMMA TurnLeads ==
  ASSUME NEW a \in 0..359, NEW b \in 0..359, get_angle_diff(a, b) > 0
  PROVE  (a + Degrees(get_angle_diff(a, b))) % 360 = b
<1>1. get_angle_diff(a, b) = IF a < b THEN b - a ELSE b - a + 360 BY DEF get_angle_diff
<1>2. Degrees(get_angle_diff(a, b)) = get_angle_diff(a, b) BY <1>1 DEF Degrees
<1>3. /\ a < b => (a + (b - a)) % 360 = b
      /\ ~(a < b) => (a + (b - a + 360)) % 360 = b
  OBVIOUS
<1>4. QED BY <1>1, <1>2, <1>3

LEMMA AddedIs ==
  ASSUME NEW S, NEW s \in Seq(S), NEW t \in Seq(S)
  PROVE  SubSeq(s \o t, Len(s) + 1, Len(s \o t)) = t
<1> DEFINE u == SubSeq(s \o t, Len(s) + 1, Len(s \o t))
<1>1. /\ Len(s) \in Nat /\ Len(t) \in Nat /\ s \o t \in Seq(S)
      /\ Len(s \o t) = Len(s) + Len(t)
      /\ \A k \in 1..Len(t) : (s \o t)[Len(s) + k] = t[k]
  OBVIOUS
<1>2. u \in Seq(S) /\ Len(u) = Len(t) BY <1>1
<1>3. ASSUME NEW k \in 1..Len(t) PROVE u[k] = t[k]
  <2>1. u[k] = (s \o t)[Len(s) + 1 + k - 1] BY <1>1
  <2>2. Len(s) + 1 + k - 1 = Len(s) + k BY <1>1
  <2>3. QED BY <1>1, <2>1, <2>2
<1>4. QED BY <1>2, <1>3

\* After a team turn to the right every AGV heads where the team heads, with side
\* HEAD of the conflict (script_manager.c:265-340).
THEOREM TeamTurnsRight == SMSpec => RightTurnsTogether
<1>1. SMInv /\ [SMNext]_smVars =>
        [task.side = "HEAD" /\ get_angle_diff(heading, heading') > 0
           => TurnTogether]_smVars
  <2> SUFFICES ASSUME SMInv, [SMNext]_smVars,
                      task.side = "HEAD", get_angle_diff(heading, heading') > 0
               PROVE  TurnTogether
    BY Zenon
  <2> DEFINE c == task.path[i]
             turn(a) == TurnOf(Pos(a), c, NextHeading, NextLink)
  <2>1. heading \in 0..359 /\ task \in Tasks /\ i \in 1..Len(task.path)
        /\ script \in [Team -> Script]
    BY DEF SMInv, WalkTypes
  <2>2. heading' # heading BY <2>1 DEF get_angle_diff
  <2>3. TeamTurn BY <2>2 DEF SMNext, KeepOn, Round, Ended, smVars
  <2>4. i < Len(task.path) BY <2>3 DEF SMInv, UnderWay, TeamTurn
  <2>5. /\ heading' = NextHeading
        /\ \A a \in Team : script'[a] = script[a] \o turn(a)
    BY <2>3 DEF TeamTurn
  <2>6. c \in Nodes /\ NextHeading \in 0..359 /\ NextLink \in Map[c] BY <2>1, <2>4, LegIs
  <2>7. Bias[c] \in 0..359 BY <2>6, BiasAssumption
  <2> DEFINE g == get_angle_diff(heading, NextHeading)
  <2>8. g > 0 /\ g \in Int /\ (heading + Degrees(g)) % 360 = NextHeading
    BY <2>1, <2>5, <2>6, DegreesAre, TurnLeads
  <2>9. ASSUME NEW a \in Team
        PROVE  HeadingAfter(a, SubSeq(script'[a], Len(script[a]) + 1, Len(script'[a])))
                 = heading'
    <3>1. /\ Pos(a) \in Positions /\ (Pos(a).x # 0 => Tangent[Pos(a)] \in -360..360)
          /\ script[a] \in Script
      BY <2>1, MembersAre
    <3>2. turn(a) \in Script
      <4> DEFINE p == Pos(a)
                 next == NextHeading
                 link == NextLink
      <4>1. /\ task \in Tasks /\ heading \in 0..359 /\ c \in Nodes /\ next \in 0..359
            /\ link \in Map[c] /\ p \in Positions
            /\ p.x # 0 => Tangent[p] \in -360..360
        BY <2>1, <2>6, <3>1, Zenon
      <4> HIDE DEF p, next, link, c
      <4>2. TurnOf(p, c, next, link) \in Script BY <4>1, TurnMeets
      <4>3. QED BY <4>2, Zenon DEF p, next, link
    <3>3. SubSeq(script'[a], Len(script[a]) + 1, Len(script'[a])) = turn(a)
      <4> DEFINE s == script[a]
                 t == turn(a)
      <4>1. s \in Seq(Blocks) /\ t \in Seq(Blocks) /\ script'[a] = s \o t
        BY <2>5, <3>1, <3>2 DEF Script
      <4> HIDE DEF s, t
      <4>2. SubSeq(s \o t, Len(s) + 1, Len(s \o t)) = t BY <4>1, AddedIs
      <4>3. QED BY <4>1, <4>2 DEF s, t
    <3>4. CASE Pos(a) = Centre
      <4>1. turn(a) = CentreTurn(c, NextHeading, NextLink, g)
        BY <3>4 DEF TurnOf
      <4>2. turn(a)[1].cmds[1].val = ATOR(NextHeading, Bias[c])
        BY <4>1 DEF CentreTurn, Once, Times, Cmd
      <4>3. RTOA(ATOR(NextHeading, Bias[c]), Bias[c]) = NextHeading
        BY <2>6, <2>7, Circle
      <4> HIDE DEF turn
      <4>4. HeadingAfter(a, turn(a)) = RTOA(turn(a)[1].cmds[1].val, Bias[c])
        BY <3>4, Zenon DEF HeadingAfter
      <4>5. QED BY <2>5, <3>3, <4>2, <4>3, <4>4
    <3>5. CASE Pos(a) # Centre
      <4>1. turn(a) = OuterTurn(Pos(a), g)
        BY <3>5 DEF TurnOf
      <4> DEFINE t == OuterTurn(Pos(a), g)
                 sum == SumOf([k \in 1..Len(t) |-> t[k].times * DegreesOf(t[k].cmds)])
      <4> HIDE DEF g, turn
      <4>2. sum = Degrees(g) BY <2>8, <3>1, OuterTurns, Zenon
      <4>3. HeadingAfter(a, t) = (heading + sum) % 360
        BY <3>5, Zenon DEF HeadingAfter
      <4> HIDE DEF t, sum
      <4>4. HeadingAfter(a, t) = NextHeading BY <2>8, <4>2, <4>3
      <4>5. QED BY <2>5, <3>3, <4>1, <4>4 DEF t
    <3>6. QED BY <3>4, <3>5
  <2>10. QED BY <2>9 DEF TurnTogether
<1>2. QED BY <1>1, WalkInvariant, PTL DEF SMSpec, RightTurnsTogether
====
