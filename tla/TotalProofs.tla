------------------------------ MODULE TotalProofs ------------------------------
(***************************************************************************)
(* The total of an order, for carts of any length: Total computes what Sum *)
(* says as long as an int64 can hold it.                                   *)
(*                                                                         *)
(* The induction over the lines is by a least counterexample, as the rules *)
(* of induction with an operator as parameter are out of the prover's      *)
(* reach.                                                                  *)
(***************************************************************************)
EXTENDS CheckoutProofs, NaturalsInduction, WellFoundedInduction

Line == [item : Items, price : Nat, quantity : Nat]

LEMMA WrapKeeps ==
  ASSUME CheckoutAssumption, NEW n \in Nat, 2 * n < Word
  PROVE  Wrap(n) = n
<1>1. n % Word = n
  BY DEF CheckoutAssumption
<1> QED  BY <1>1 DEF Wrap

LEMMA WrapIsInt ==
  ASSUME CheckoutAssumption, NEW n \in Int
  PROVE  Wrap(n) \in Int
<1>1. n % Word \in Int /\ Word \in Int
  BY DEF CheckoutAssumption
<1> QED  BY <1>1 DEF Wrap
-----------------------------------------------------------------------------
LEMMA Least ==
  ASSUME NEW T \in SUBSET Nat, T # {}
  PROVE  \E m \in T : \A n \in T : ~(n < m)
<1>1. IsWellFoundedOn(OpToRel(<, Nat), Nat)
  BY NatLessThanWellFounded
<1>2. \E m \in T : \A n \in T : ~(<<n, m>> \in OpToRel(<, Nat))
  BY <1>1, WFMin
<1> QED  BY <1>2 DEF OpToRel

\* A set with 0 and, up to N, the successors of its elements.
LEMMA Induction ==
  ASSUME NEW N \in Nat, NEW S, 0 \in S, \A n \in 1..N : n - 1 \in S => n \in S
  PROVE  0..N \subseteq S
<1> DEFINE T == 0..N \ S
<1>1. SUFFICES ASSUME T # {} PROVE FALSE
  OBVIOUS
<1>2. T \in SUBSET Nat
  OBVIOUS
<1>3. PICK k \in T : \A n \in T : ~(n < k)
  <2> HIDE DEF T
  <2> QED  BY <1>1, <1>2, Least
<1>4. k \in 1..N /\ k - 1 \in 0..N /\ k - 1 < k
  BY <1>3
<1>5. k - 1 \in S
  BY <1>3, <1>4
<1> QED  BY <1>3, <1>4, <1>5

\* A number that starts at 0 and is changed N times.
Runs(f, F, N) ==
  /\ f \in [0..N -> Int] /\ f[0] = 0
  /\ \A n \in 1..N : f[n] = F[n][f[n - 1]]

LEMMA RunExists ==
  ASSUME NEW N \in Nat, NEW F \in [1..N -> [Int -> Int]]
  PROVE  \E f : Runs(f, F, N)
<1> DEFINE S == {n \in 0..N : \E f : Runs(f, F, n)}
<1>1. 0 \in S
  <2> DEFINE g == [n \in 0..0 |-> 0]
  <2>1. g \in [0..0 -> Int] /\ g[0] = 0
    OBVIOUS
  <2>2. \A n \in 1..0 : g[n] = F[n][g[n - 1]]
    OBVIOUS
  <2>3. Runs(g, F, 0)
    BY <2>1, <2>2 DEF Runs
  <2> QED  BY <2>3
<1>2. ASSUME NEW n \in 1..N, n - 1 \in S
      PROVE  n \in S
  <2>1. PICK f : Runs(f, F, n - 1)
    BY <1>2
  <2> DEFINE g == [i \in 0..n |-> IF i = n THEN F[n][f[n - 1]] ELSE f[i]]
  <2>2. f \in [0..(n - 1) -> Int] /\ f[0] = 0 /\ n - 1 \in 0..(n - 1) /\ n \in 0..N
    BY <2>1 DEF Runs
  <2>3. F[n][f[n - 1]] \in Int
    <3>1. f[n - 1] \in Int
      BY <2>2
    <3> QED  BY <3>1
  <2>4. g \in [0..n -> Int] /\ g[0] = 0
    <3>1. ASSUME NEW i \in 0..n PROVE g[i] \in Int
      BY <2>2, <2>3
    <3>2. g[0] = 0
      BY <2>2
    <3> QED  BY <3>1, <3>2
  <2>5. ASSUME NEW m \in 1..n
        PROVE  g[m] = F[m][g[m - 1]]
    <3>1. m \in 0..n /\ m - 1 \in 0..n /\ m - 1 # n
      OBVIOUS
    <3>2. CASE m = n
      BY <3>1, <3>2
    <3>3. CASE m # n
      <4>1. m \in 1..(n - 1)
        BY <3>3
      <4>2. f[m] = F[m][f[m - 1]]
        BY <2>1, <4>1 DEF Runs
      <4> QED  BY <3>1, <3>3, <4>2
    <3> QED  BY <3>2, <3>3
  <2>6. Runs(g, F, n)
    <3> HIDE DEF g
    <3> QED  BY <2>4, <2>5 DEF Runs
  <2> QED  BY <2>2, <2>6
<1>3. 0..N \subseteq S
  <2> HIDE DEF S
  <2> QED  BY <1>1, <1>2, Induction
<1> QED  BY <1>3
-----------------------------------------------------------------------------
\* The two recursive functions do what they say.
LEMMA TotalRuns ==
  ASSUME CheckoutAssumption, NEW lines \in Seq(Line)
  PROVE  \E f \in [0..Len(lines) -> Int] :
           /\ f[0] = 0 /\ Total(lines) = f[Len(lines)]
           /\ \A n \in 1..Len(lines) :
                f[n] = Wrap(f[n - 1] + Wrap(lines[n].price * lines[n].quantity))
<1> DEFINE N == Len(lines)
           cost == [n \in 1..N |-> Wrap(lines[n].price * lines[n].quantity)]
           F == [n \in 1..N |-> [x \in Int |-> Wrap(x + cost[n])]]
           Rec(g) == [n \in 0..N |-> IF n = 0 THEN 0 ELSE Wrap(g[n - 1] + cost[n])]
           Def(g) == [n \in 0..N |->
                        IF n = 0 THEN 0
                        ELSE Wrap(g[n - 1] + Wrap(lines[n].price * lines[n].quantity))]
           total == CHOOSE g : g = Def(g)
<1>1. N \in Nat
  OBVIOUS
<1>2. cost \in [1..N -> Int]
  <2> SUFFICES ASSUME NEW n \in 1..N PROVE Wrap(lines[n].price * lines[n].quantity) \in Int
    OBVIOUS
  <2>1. lines[n] \in Line
    OBVIOUS
  <2>2. lines[n].price * lines[n].quantity \in Int
    BY <2>1 DEF Line
  <2> QED  BY <2>2, WrapIsInt
<1>3. F \in [1..N -> [Int -> Int]]
  <2> HIDE DEF cost
  <2> SUFFICES ASSUME NEW n \in 1..N, NEW x \in Int PROVE Wrap(x + cost[n]) \in Int
    OBVIOUS
  <2>1. x + cost[n] \in Int
    BY <1>2
  <2> QED  BY <2>1, WrapIsInt
<1>4. PICK f : Runs(f, F, N)
  <2> HIDE DEF F, N
  <2> QED  BY <1>1, <1>3, RunExists
<1>5. ASSUME NEW n \in 1..N
      PROVE  f[n] = Wrap(f[n - 1] + Wrap(lines[n].price * lines[n].quantity))
  <2>1. f[n - 1] \in Int /\ f[n] = F[n][f[n - 1]]
    <3> HIDE DEF F
    <3> QED  BY <1>4 DEF Runs
  <2>2. F[n] = [x \in Int |-> Wrap(x + cost[n])] /\ cost[n] = Wrap(lines[n].price * lines[n].quantity)
    BY <1>5
  <2> QED  BY <2>1, <2>2
<1>6. f \in [0..N -> Int] /\ f[0] = 0
  <2> HIDE DEF F
  <2> QED  BY <1>4 DEF Runs
<1>7. f = Def(f)
  <2> HIDE DEF F, cost
  <2> QED  BY <1>5, <1>6
<1>8. total = Def(total)
  <2> HIDE DEF Def
  <2> QED  BY <1>7
<1>9. total[0] = 0 /\ DOMAIN total = 0..N
  <2> HIDE DEF total
  <2> QED  BY <1>1, <1>8
<1>10. ASSUME NEW n \in 1..N
       PROVE  total[n] = Wrap(total[n - 1] + Wrap(lines[n].price * lines[n].quantity))
  <2> HIDE DEF total
  <2> QED  BY <1>1, <1>8
<1>11. total \in [0..N -> Int]
  <2> HIDE DEF total, F, cost
  <2> DEFINE S == {n \in 0..N : total[n] \in Int}
  <2>1. 0 \in S
    BY <1>1, <1>9
  <2>2. ASSUME NEW n \in 1..N, n - 1 \in S
        PROVE  n \in S
    <3>1. total[n - 1] + cost[n] \in Int
      BY <1>2, <2>2
    <3>2. total[n] \in Int
      BY <1>10, <3>1, WrapIsInt DEF cost
    <3> QED  BY <3>2
  <2>3. 0..N \subseteq S
    <3> HIDE DEF S, N
    <3> QED  BY <1>1, <2>1, <2>2, Induction
  <2>4. total = [n \in 0..N |-> total[n]]
    BY <1>8
  <2> QED  BY <2>3, <2>4
<1>12. Total(lines) = total[N]
  BY DEF Total
<1> QED
  <2> HIDE DEF total
  <2> QED  BY <1>9, <1>10, <1>11, <1>12

LEMMA SumRuns ==
  ASSUME NEW lines \in Seq(Line)
  PROVE  \E f \in [0..Len(lines) -> Int] :
           /\ f[0] = 0 /\ Sum(lines) = f[Len(lines)]
           /\ \A n \in 1..Len(lines) : f[n] = f[n - 1] + lines[n].price * lines[n].quantity
<1> DEFINE N == Len(lines)
           cost == [n \in 1..N |-> lines[n].price * lines[n].quantity]
           F == [n \in 1..N |-> [x \in Int |-> x + cost[n]]]
           Def(g) == [n \in 0..N |->
                        IF n = 0 THEN 0 ELSE g[n - 1] + lines[n].price * lines[n].quantity]
           sum == CHOOSE g : g = Def(g)
<1>1. N \in Nat
  OBVIOUS
<1>2. cost \in [1..N -> Int]
  <2> SUFFICES ASSUME NEW n \in 1..N PROVE lines[n].price * lines[n].quantity \in Int
    OBVIOUS
  <2>1. lines[n] \in Line
    OBVIOUS
  <2> QED  BY <2>1 DEF Line
<1>3. F \in [1..N -> [Int -> Int]]
  <2> HIDE DEF cost
  <2> QED  BY <1>2
<1>4. PICK f : Runs(f, F, N)
  <2> HIDE DEF F, N
  <2> QED  BY <1>1, <1>3, RunExists
<1>5. ASSUME NEW n \in 1..N
      PROVE  f[n] = f[n - 1] + lines[n].price * lines[n].quantity
  <2>1. f[n - 1] \in Int /\ f[n] = F[n][f[n - 1]]
    <3> HIDE DEF F
    <3> QED  BY <1>4 DEF Runs
  <2>2. F[n] = [x \in Int |-> x + cost[n]] /\ cost[n] = lines[n].price * lines[n].quantity
    BY <1>5
  <2> QED  BY <2>1, <2>2
<1>6. f \in [0..N -> Int] /\ f[0] = 0
  <2> HIDE DEF F
  <2> QED  BY <1>4 DEF Runs
<1>7. f = Def(f)
  <2> HIDE DEF F, cost
  <2> QED  BY <1>5, <1>6
<1>8. sum = Def(sum)
  <2> HIDE DEF Def
  <2> QED  BY <1>7
<1>9. sum[0] = 0 /\ DOMAIN sum = 0..N
  <2> HIDE DEF sum
  <2> QED  BY <1>1, <1>8
<1>10. ASSUME NEW n \in 1..N
       PROVE  sum[n] = sum[n - 1] + lines[n].price * lines[n].quantity
  <2> HIDE DEF sum
  <2> QED  BY <1>1, <1>8
<1>11. sum \in [0..N -> Int]
  <2> HIDE DEF sum, F, cost
  <2> DEFINE S == {n \in 0..N : sum[n] \in Int}
  <2>1. 0 \in S
    BY <1>1, <1>9
  <2>2. ASSUME NEW n \in 1..N, n - 1 \in S
        PROVE  n \in S
    <3>1. sum[n] = sum[n - 1] + cost[n]
      BY <1>10 DEF cost
    <3> QED  BY <1>2, <2>2, <3>1
  <2>3. 0..N \subseteq S
    <3> HIDE DEF S, N
    <3> QED  BY <1>1, <2>1, <2>2, Induction
  <2>4. sum = [n \in 0..N |-> sum[n]]
    BY <1>8
  <2> QED  BY <2>3, <2>4
<1>12. Sum(lines) = sum[N]
  BY DEF Sum
<1> QED
  <2> HIDE DEF sum
  <2> QED  BY <1>9, <1>10, <1>11, <1>12
-----------------------------------------------------------------------------
\* Partial sums only grow.
LEMMA SumsGrow ==
  ASSUME NEW N \in Nat, NEW f \in [0..N -> Int], NEW cost \in [1..N -> Nat],
         f[0] = 0, \A n \in 1..N : f[n] = f[n - 1] + cost[n]
  PROVE  \A n \in 0..N : 0 <= f[n] /\ f[n] <= f[N]
<1> DEFINE Up == {n \in 0..N : 0 <= f[n]}
           Down == {k \in 0..N : f[N - k] <= f[N]}
<1>1. 0..N \subseteq Up
  <2>1. 0 \in Up
    OBVIOUS
  <2>2. ASSUME NEW n \in 1..N, n - 1 \in Up
        PROVE  n \in Up
    <3>1. f[n] = f[n - 1] + cost[n] /\ cost[n] \in Nat
      OBVIOUS
    <3>2. f[n - 1] \in Int /\ 0 <= f[n - 1] /\ n \in 0..N
      BY <2>2
    <3> QED  BY <3>1, <3>2
  <2> HIDE DEF Up
  <2> QED  BY <2>1, <2>2, Induction
<1>2. 0..N \subseteq Down
  <2>1. 0 \in Down
    OBVIOUS
  <2>2. ASSUME NEW k \in 1..N, k - 1 \in Down
        PROVE  k \in Down
    <3> DEFINE n == N - (k - 1)
    <3>1. n \in 1..N /\ n - 1 = N - k /\ n - 1 \in 0..N /\ k \in 0..N
      OBVIOUS
    <3>2. f[n] <= f[N]
      BY <2>2
    <3> HIDE DEF n
    <3>3. f[n] = f[n - 1] + cost[n] /\ cost[n] \in Nat /\ f[n - 1] \in Int /\ f[n] \in Int
          /\ f[N] \in Int
      BY <3>1
    <3>4. f[n - 1] <= f[N]
      BY <3>2, <3>3
    <3> QED  BY <3>1, <3>4
  <2> HIDE DEF Down
  <2> QED  BY <2>1, <2>2, Induction
<1>3. ASSUME NEW n \in 0..N
      PROVE  f[n] <= f[N]
  <2>1. N - n \in 0..N /\ N - (N - n) = n
    OBVIOUS
  <2>2. N - n \in Down
    BY <1>2, <2>1
  <2> QED  BY <2>1, <2>2
<1> QED  BY <1>1, <1>3

\* The total is exact when the sum fits: no partial sum and no product can then
\* be wrapped.
LEMMA TotalIsSum ==
  ASSUME CheckoutAssumption, NEW lines \in Seq(Line), 2 * Sum(lines) < Word
  PROVE  Total(lines) = Sum(lines)
<1> DEFINE N == Len(lines)
           cost == [n \in 1..N |-> lines[n].price * lines[n].quantity]
<1>1. N \in Nat /\ Word \in Nat
  BY DEF CheckoutAssumption
<1>2. PICK t \in [0..N -> Int] :
        /\ t[0] = 0 /\ Total(lines) = t[N]
        /\ \A n \in 1..N : t[n] = Wrap(t[n - 1] + Wrap(lines[n].price * lines[n].quantity))
  BY TotalRuns
<1>3. PICK s \in [0..N -> Int] :
        /\ s[0] = 0 /\ Sum(lines) = s[N]
        /\ \A n \in 1..N : s[n] = s[n - 1] + lines[n].price * lines[n].quantity
  BY SumRuns
<1>4. cost \in [1..N -> Nat]
  <2> SUFFICES ASSUME NEW n \in 1..N PROVE lines[n].price * lines[n].quantity \in Nat
    OBVIOUS
  <2>1. lines[n] \in Line
    OBVIOUS
  <2>2. lines[n].price \in Nat /\ lines[n].quantity \in Nat
    BY <2>1 DEF Line
  <2> QED  BY <2>2
<1>5. \A n \in 1..N : s[n] = s[n - 1] + cost[n] /\ t[n] = Wrap(t[n - 1] + Wrap(cost[n]))
  BY <1>2, <1>3
<1> HIDE DEF cost, N
<1>6. \A n \in 0..N : 0 <= s[n] /\ s[n] <= s[N]
  BY <1>1, <1>3, <1>4, <1>5, SumsGrow
<1> DEFINE S == {n \in 0..N : t[n] = s[n]}
<1>7. 0 \in S
  BY <1>1, <1>2, <1>3
<1>8. ASSUME NEW n \in 1..N, n - 1 \in S
      PROVE  n \in S
  <2>1. /\ n \in 0..N /\ n - 1 \in 0..N /\ t[n - 1] = s[n - 1]
        /\ s[n] = s[n - 1] + cost[n] /\ t[n] = Wrap(t[n - 1] + Wrap(cost[n]))
    BY <1>1, <1>5, <1>8
  <2>2. /\ s[n] \in Int /\ s[n - 1] \in Int /\ s[N] \in Int /\ cost[n] \in Nat
        /\ 0 <= s[n - 1] /\ s[n] <= s[N] /\ 2 * s[N] < Word
    BY <1>1, <1>3, <1>4, <1>6, <2>1
  <2>3. /\ cost[n] \in Nat /\ 2 * cost[n] < Word
        /\ s[n - 1] + cost[n] \in Nat /\ 2 * (s[n - 1] + cost[n]) < Word
    <3>1. \A p, c, q, l \in Int : 0 <= p /\ 0 <= c /\ q = p + c /\ q <= l /\ 2 * l < Word =>
            2 * c < Word /\ 0 <= p + c /\ 2 * (p + c) < Word
      BY <1>1
    <3>2. s[n] = s[n - 1] + cost[n] /\ cost[n] \in Int /\ 0 <= cost[n]
      BY <2>1, <2>2
    <3>3. 2 * cost[n] < Word /\ 0 <= s[n - 1] + cost[n] /\ 2 * (s[n - 1] + cost[n]) < Word
      BY <2>2, <3>1, <3>2
    <3> QED  BY <2>2, <3>2, <3>3
  <2>4. Wrap(cost[n]) = cost[n] /\ Wrap(s[n - 1] + cost[n]) = s[n - 1] + cost[n]
    BY <2>3, WrapKeeps
  <2> QED  BY <2>1, <2>4
<1>9. 0..N \subseteq S
  <2> HIDE DEF S
  <2> QED  BY <1>1, <1>7, <1>8, Induction
<1>10. N \in 0..N
  BY <1>1
<1> QED  BY <1>2, <1>3, <1>9, <1>10
-----------------------------------------------------------------------------
\* A committed order has lines, and the total that was computed from them.
Totalled(r) ==
  orders[r] # NoOrder =>
    orders[r].lines \in Seq(Line) /\ orders[r].total = Total(orders[r].lines)

LEMMA PriceOfRow ==
  ASSUME CheckoutAssumption, NEW row \in Row
  PROVE  row.price \in Nat
<1>1. row.price \in Prices \cup {0}
  BY DEF Row
<1>2. Prices \subseteq Nat
  BY DEF CheckoutAssumption
<1>3. Prices \cup {0} \subseteq Nat
  BY <1>2
<1> QED  BY <1>1, <1>3

LEMMA LinesOfCart ==
  ASSUME CheckoutAssumption, IInv, NEW r \in Requests, Commit(r)
  PROVE  Lines(r) \in Seq(Line)
<1> DEFINE cart == reqs[r].cart
           line(n) == [item |-> cart[n].item, price |-> reqs[r].read[cart[n].item].price,
                       quantity |-> cart[n].quantity]
<1>1. reqs[r].pc = "commit" /\ reqs[r] \in Request
  BY DEF Commit, IInv, Typed
<1>2. cart \in Carts
  BY <1>1 DEF Request, IInv, RequestSound, WishSound
<1>3. cart \in Seq([item : Items, quantity : Int])
  BY <1>2 DEF CheckoutAssumption
<1>4. PICK k \in Nat : DOMAIN cart = 1..k
  BY <1>3
<1>5. ASSUME NEW n \in 1..k
      PROVE  line(n) \in Line
  <2>1. cart[n] \in [item : Items, quantity : Int]
    BY <1>3, <1>4, LineOfSeq
  <2>2. /\ cart[n].item \in Items /\ cart[n].quantity \in Int /\ cart[n].quantity > 0
        /\ reqs[r].read[cart[n].item] = items[cart[n].item]
    BY <1>1, <1>4, <2>1, ValidatedRows
  <2>3. items[cart[n].item] \in Row
    BY <2>2 DEF IInv, Typed
  <2>4. items[cart[n].item].price \in Nat
    BY <2>3, PriceOfRow
  <2> HIDE DEF cart
  <2> QED  BY <2>2, <2>4 DEF Line
<1>6. Lines(r) = [n \in 1..k |-> line(n)]
  BY <1>4 DEF Lines
<1> HIDE DEF line
<1> QED  BY <1>5, <1>6

LEMMA TotalledKeeps ==
  ASSUME CheckoutAssumption, IInv, [Next]_vars, NEW r \in Requests, Totalled(r)
  PROVE  Totalled(r)'
<1>1. CASE orders'[r] = orders[r]
  BY <1>1 DEF Totalled
<1>2. CASE orders'[r] # orders[r]
  <2>1. Commit(r)
    BY <1>2, OnlyCommitSells
  <2>2. orders'[r] = Order(r)
    BY <2>1, CommittedOrder
  <2>3. Order(r).lines = Lines(r) /\ Order(r).total = Total(Lines(r))
    BY DEF Order
  <2>4. Lines(r) \in Seq(Line)
    BY <2>1, LinesOfCart
  <2> QED  BY <2>2, <2>3, <2>4 DEF Totalled
<1> QED  BY <1>1, <1>2

\* What the database and the client may rely on in a committed order: its
\* lines are of quantities that may be asked for, its total is not negative,
\* and it is the price of its lines wherever an int64 can hold that, for carts
\* of any length.
THEOREM TotalsStayExact == Spec => []OrdersAreSound
<1> DEFINE AllTotalled == \A r \in Requests : Totalled(r)
<1>1. Init => AllTotalled
  <2> SUFFICES ASSUME Init, NEW r \in Requests PROVE orders[r] = NoOrder
    BY DEF Totalled
  <2> QED  BY DEF Init
<1>2. IInv /\ AllTotalled /\ [Next]_vars => AllTotalled'
  BY CheckoutAssumption, TotalledKeeps
<1>3. AllTotalled => TotalsAreExact
  <2> SUFFICES ASSUME AllTotalled, NEW r \in Requests, orders[r] # NoOrder,
                      2 * Sum(orders[r].lines) < Word
               PROVE  orders[r].total = Sum(orders[r].lines)
    BY DEF TotalsAreExact
  <2> QED  BY CheckoutAssumption, TotalIsSum DEF Totalled
<1>4. OrdersKeepChecks /\ TotalsAreExact => OrdersAreSound
  BY DEF OrdersAreSound
<1> HIDE DEF AllTotalled
<1>5. Spec => []TotalsAreExact
  BY <1>1, <1>2, <1>3, Invariance, PTL DEF Spec
<1> QED  BY <1>4, <1>5, OrdersStaySound, PTL
================================================================================
