---------------------------- MODULE YieldBotProofs ----------------------------
(***************************************************************************)
(* Machine-checked proofs about YieldBot, for any number of earners, any   *)
(* indices that do not decrease, any batch size and any number of runs and *)
(* transfers.  First: what the bot validates, the vault can pay, whatever  *)
(* becomes of the transactions.  Sums over accounts, what the walk         *)
(* computes and what a transaction does; then an inductive invariant, in   *)
(* which an amount is due to each account that covers the claims that may  *)
(* still be executed; then a lemma for each action.  Second: a claim pays  *)
(* what was accrued.  Sums along the history, the arithmetic of rounding,  *)
(* the walk over the updates, and an invariant that says of each claim     *)
(* under way that its balance is the normalized yield of its time.         *)
(***************************************************************************)
EXTENDS YieldBot, SequenceTheorems, FiniteSetTheorems, WellFoundedInduction, TLAPS

\* The element by which a sum is defined.
Pick(s) == CHOOSE x \in s : TRUE

-----------------------------------------------------------------------------
(* Sums over accounts.                                                      *)

LEMMA AccountsFinite ==
  /\ IsFiniteSet(Accounts)
  /\ \A s \in SUBSET Accounts : /\ IsFiniteSet(s) /\ Cardinality(s) \in Nat
                                /\ Cardinality(s) = 0 <=> s = {}
  /\ \A s \in SUBSET Accounts : \A x \in s : /\ Cardinality(s \ {x}) = Cardinality(s) - 1
                                             /\ s \ {x} \in SUBSET Accounts
<1>1. IsFiniteSet(Accounts)
  BY BotAssumption, FS_AddElement DEF Accounts
<1>2. ASSUME NEW s \in SUBSET Accounts
      PROVE  IsFiniteSet(s) /\ Cardinality(s) \in Nat /\ (Cardinality(s) = 0 <=> s = {})
  BY <1>1, FS_Subset, FS_CardinalityType, FS_EmptySet
<1>3. ASSUME NEW s \in SUBSET Accounts, NEW x \in s
      PROVE  Cardinality(s \ {x}) = Cardinality(s) - 1
  BY <1>2, FS_RemoveElement
<1>. QED  BY <1>1, <1>2, <1>3

\* Facts about all sets of accounts are proved by a smallest counterexample.
LEMMA SmallestOf ==
  ASSUME NEW T \in SUBSET SUBSET Accounts, T # {}
  PROVE  \E s \in T : \A t \in T : ~ (Cardinality(t) < Cardinality(s))
<1>. DEFINE N == {Cardinality(t) : t \in T}
<1>1. N \subseteq Nat /\ N # {}
  BY AccountsFinite
<1>2. PICK n \in N : \A m \in N : ~ (<<m, n>> \in OpToRel(<, Nat))
  <2>. HIDE DEF N
  <2>. QED  BY <1>1, NatLessThanWellFounded, WFMin
<1>3. \A m \in N : ~ (m < n)
  BY <1>1, <1>2 DEF OpToRel
<1>. QED  BY <1>3

\* sum has the sums of f over the sets of at most n accounts.
Summing(f, sum, n) ==
  \A s \in SUBSET Accounts :
    Cardinality(s) <= n => sum[s] = IF s = {} THEN 0 ELSE f[Pick(s)] + sum[s \ {Pick(s)}]

LEMMA SummingExist ==
  ASSUME NEW f, NEW n \in Nat
  PROVE  \E sum : Summing(f, sum, n)
<1>. DEFINE T == {k \in Nat : ~ \E sum : Summing(f, sum, k)}
<1>1. SUFFICES T = {}
  OBVIOUS
<1>2. SUFFICES ASSUME T # {}  PROVE FALSE
  OBVIOUS
<1>3. T \subseteq Nat
  OBVIOUS
<1>4. PICK k \in T : \A j \in T : ~ (<<j, k>> \in OpToRel(<, Nat))
  <2>. HIDE DEF T
  <2>. QED  BY <1>2, <1>3, NatLessThanWellFounded, WFMin
<1>5. \A j \in T : ~ (j < k)
  BY <1>3, <1>4 DEF OpToRel
<1>6. CASE k = 0
  <2>. DEFINE sum == [s \in SUBSET Accounts |-> 0]
  <2>1. \A s \in SUBSET Accounts : Cardinality(s) <= 0 => s = {}
    BY AccountsFinite
  <2>2. Summing(f, sum, 0)
    BY <2>1 DEF Summing
  <2>. QED  BY <1>4, <1>6, <2>2
<1>7. CASE k # 0
  <2>1. k \in Nat /\ k - 1 \in Nat /\ k - 1 \notin T
    BY <1>3, <1>5, <1>7
  <2>2. PICK r : Summing(f, r, k - 1)
    BY <2>1
  <2>. DEFINE step(s) == IF s = {} THEN 0 ELSE f[Pick(s)] + r[s \ {Pick(s)}]
              sum == [s \in SUBSET Accounts |-> IF Cardinality(s) <= k THEN step(s) ELSE 0]
  <2>3. ASSUME NEW s \in SUBSET Accounts, Cardinality(s) <= k
        PROVE  sum[s] = IF s = {} THEN 0 ELSE f[Pick(s)] + sum[s \ {Pick(s)}]
    <3>1. sum[s] = step(s)
      BY <2>3
    <3>2. CASE s = {}
      BY <3>1, <3>2
    <3>3. CASE s # {}
      <4>. DEFINE t == s \ {Pick(s)}
      <4>1. Pick(s) \in s
        BY <3>3 DEF Pick
      <4>2. t \in SUBSET Accounts /\ Cardinality(t) \in Nat /\ Cardinality(t) <= k - 1
        BY <2>1, <2>3, <4>1, AccountsFinite
      <4>3. r[t] = step(t)
        BY <2>2, <4>2 DEF Summing
      <4>4. sum[t] = step(t)
        <5>. HIDE DEF t, step
        <5>. QED  BY <2>1, <4>2
      <4>. HIDE DEF sum
      <4>. QED  BY <3>1, <3>3, <4>3, <4>4
    <3>. QED  BY <3>2, <3>3
  <2>. HIDE DEF sum
  <2>4. Summing(f, sum, k)
    BY <2>3 DEF Summing
  <2>. QED  BY <1>4, <2>4
<1>. QED  BY <1>6, <1>7

\* The sum of f over the accounts of s.
Sum(f, s) ==
  (CHOOSE q : q = [t \in SUBSET Accounts |->
                     IF t = {} THEN 0 ELSE f[Pick(t)] + q[t \ {Pick(t)}]])[s]

LEMMA SumIs ==
  ASSUME NEW f
  PROVE  /\ Total(f) = Sum(f, Accounts)
         /\ Sum(f, {}) = 0
         /\ \A s \in SUBSET Accounts : s # {} => Sum(f, s) = f[Pick(s)] + Sum(f, s \ {Pick(s)})
<1>1. PICK r : Summing(f, r, Cardinality(Accounts))
  BY AccountsFinite, SummingExist
<1>. DEFINE Q(q) == q = [t \in SUBSET Accounts |->
                           IF t = {} THEN 0 ELSE f[Pick(t)] + q[t \ {Pick(t)}]]
            c == CHOOSE q : Q(q)
            g == [t \in SUBSET Accounts |-> r[t]]
<1>2. ASSUME NEW s \in SUBSET Accounts
      PROVE  g[s] = IF s = {} THEN 0 ELSE f[Pick(s)] + g[s \ {Pick(s)}]
  <2>1. Cardinality(s) <= Cardinality(Accounts)
    BY AccountsFinite, FS_Subset
  <2>2. r[s] = IF s = {} THEN 0 ELSE f[Pick(s)] + r[s \ {Pick(s)}]
    BY <1>1, <2>1 DEF Summing
  <2>3. s \ {Pick(s)} \in SUBSET Accounts
    OBVIOUS
  <2>4. g[s] = r[s] /\ g[s \ {Pick(s)}] = r[s \ {Pick(s)}]
    BY <2>3
  <2>. HIDE DEF g
  <2>. QED  BY <2>2, <2>4
<1>3. g = [t \in SUBSET Accounts |-> g[t]]
  OBVIOUS
<1>. HIDE DEF g
<1>4. Q(g)
  BY <1>2, <1>3
<1>5. Q(c)
  <2>. HIDE DEF Q
  <2>. QED  BY <1>4
<1>. DEFINE step(t) == IF t = {} THEN 0 ELSE f[Pick(t)] + c[t \ {Pick(t)}]
<1>6. c = [t \in SUBSET Accounts |-> step(t)]
  BY <1>5
<1>7. \A s : Sum(f, s) = c[s]
  BY DEF Sum
<1>8. step({}) = 0 /\ \A s : s # {} => step(s) = f[Pick(s)] + c[s \ {Pick(s)}]
  OBVIOUS
<1>9. Total(f) = c[Accounts]
  BY DEF Total, MapThenSumSet, MapThenFoldSet, Pick
<1>. HIDE DEF step, c
<1>10. \A s \in SUBSET Accounts : c[s] = step(s)
  BY <1>6
<1>11. {} \in SUBSET Accounts /\ Accounts \in SUBSET Accounts
  OBVIOUS
<1>12. Total(f) = Sum(f, Accounts) /\ Sum(f, {}) = 0
  BY <1>7, <1>8, <1>9, <1>10, <1>11
<1>13. ASSUME NEW s \in SUBSET Accounts, s # {}
       PROVE  Sum(f, s) = f[Pick(s)] + Sum(f, s \ {Pick(s)})
  <2>1. c[s] = f[Pick(s)] + c[s \ {Pick(s)}]
    <3>1. c[s] = step(s)
      BY <1>10
    <3>2. step(s) = f[Pick(s)] + c[s \ {Pick(s)}]
      BY <1>8, <1>13
    <3>. QED  BY <3>1, <3>2
  <2>. QED  BY <1>7, <2>1
<1>. QED  BY <1>12, <1>13

LEMMA SumType ==
  ASSUME NEW f \in [Accounts -> Int], NEW s \in SUBSET Accounts
  PROVE  Sum(f, s) \in Int
<1>. DEFINE T == {t \in SUBSET Accounts : Sum(f, t) \notin Int}
<1>1. SUFFICES ASSUME T # {}  PROVE FALSE
  OBVIOUS
<1>2. PICK t \in T : \A u \in T : ~ (Cardinality(u) < Cardinality(t))
  BY <1>1, SmallestOf
<1>3. Sum(f, {}) = 0
  BY SumIs
<1>4. t # {} /\ Pick(t) \in t
  BY <1>2, <1>3 DEF Pick
<1>5. t \ {Pick(t)} \in SUBSET Accounts /\ Cardinality(t \ {Pick(t)}) < Cardinality(t)
  BY <1>4, AccountsFinite
<1>6. Sum(f, t \ {Pick(t)}) \in Int
  BY <1>2, <1>5
<1>7. Sum(f, t) = f[Pick(t)] + Sum(f, t \ {Pick(t)})
  BY <1>4, SumIs
<1>. QED  BY <1>4, <1>6, <1>7

\* Any account can be taken out of a sum, not only the one the definition picks.
LEMMA SumTakes ==
  ASSUME NEW f \in [Accounts -> Int], NEW s \in SUBSET Accounts, NEW x \in s
  PROVE  Sum(f, s) = f[x] + Sum(f, s \ {x})
<1>. DEFINE Good(t) == \A y \in t : Sum(f, t) = f[y] + Sum(f, t \ {y})
            T == {t \in SUBSET Accounts : ~ Good(t)}
<1>1. SUFFICES ASSUME T # {}  PROVE FALSE
  OBVIOUS
<1>2. PICK t \in T : \A u \in T : ~ (Cardinality(u) < Cardinality(t))
  BY <1>1, SmallestOf
<1>3. PICK y \in t : Sum(f, t) # f[y] + Sum(f, t \ {y})
  OBVIOUS
<1>. DEFINE p == Pick(t)
<1>4. t \in SUBSET Accounts /\ t # {} /\ y \in t
  OBVIOUS
<1>5. p \in t
  BY <1>4 DEF Pick
<1>6. Sum(f, t) = f[p] + Sum(f, t \ {p})
  BY <1>4, SumIs
<1>7. y # p
  BY <1>3, <1>6
<1>8. ASSUME NEW z \in t  PROVE Good(t \ {z})
  <2>1. t \ {z} \in SUBSET Accounts /\ Cardinality(t \ {z}) < Cardinality(t)
    BY <1>4, AccountsFinite
  <2>. HIDE DEF Good
  <2>. QED  BY <1>2, <2>1
<1>9. Sum(f, t \ {p}) = f[y] + Sum(f, (t \ {p}) \ {y})
  BY <1>4, <1>5, <1>7, <1>8
<1>10. Sum(f, t \ {y}) = f[p] + Sum(f, (t \ {y}) \ {p})
  BY <1>4, <1>5, <1>7, <1>8
<1>11. Sum(f, (t \ {p}) \ {y}) = Sum(f, (t \ {y}) \ {p})
  <2>1. (t \ {p}) \ {y} = (t \ {y}) \ {p}
    OBVIOUS
  <2>. QED  BY <2>1
<1>12. f[p] \in Int /\ f[y] \in Int /\ Sum(f, (t \ {y}) \ {p}) \in Int
  BY <1>4, <1>5, SumType
<1>. HIDE DEF p
<1>. QED  BY <1>3, <1>6, <1>9, <1>10, <1>11, <1>12

LEMMA SumMonotone ==
  ASSUME NEW f \in [Accounts -> Int], NEW g \in [Accounts -> Int],
         NEW s \in SUBSET Accounts, \A a \in s : f[a] <= g[a]
  PROVE  Sum(f, s) <= Sum(g, s)
<1>. DEFINE Less(t) == \A a \in t : f[a] <= g[a]
            T == {t \in SUBSET Accounts : Less(t) /\ ~ (Sum(f, t) <= Sum(g, t))}
<1>1. SUFFICES ASSUME T # {}  PROVE FALSE
  OBVIOUS
<1>2. PICK t \in T : \A u \in T : ~ (Cardinality(u) < Cardinality(t))
  BY <1>1, SmallestOf
<1>3. Sum(f, {}) = 0 /\ Sum(g, {}) = 0
  BY SumIs
<1>9. t # {}
  BY <1>2, <1>3
<1>. DEFINE p == Pick(t)
            u == t \ {p}
<1>4. p \in t
  BY <1>9 DEF Pick
<1>5. u \in SUBSET Accounts /\ Cardinality(u) < Cardinality(t) /\ Less(u)
  BY <1>4, AccountsFinite
<1>6. Sum(f, u) <= Sum(g, u)
  BY <1>2, <1>5
<1>7. Sum(f, t) = f[p] + Sum(f, u) /\ Sum(g, t) = g[p] + Sum(g, u)
  BY <1>9, SumIs
<1>8. f[p] \in Int /\ g[p] \in Int /\ f[p] <= g[p] /\ Sum(f, u) \in Int /\ Sum(g, u) \in Int
  BY <1>2, <1>4, <1>5, SumType
<1>10. Sum(f, t) <= Sum(g, t)
  <2>. HIDE DEF u, p
  <2>. QED  BY <1>6, <1>7, <1>8
<1>. QED  BY <1>2, <1>10

LEMMA TotalMonotone ==
  ASSUME NEW f \in [Accounts -> Int], NEW g \in [Accounts -> Int],
         \A a \in Accounts : f[a] <= g[a]
  PROVE  Total(f) \in Int /\ Total(g) \in Int /\ Total(f) <= Total(g)
BY SumIs, SumType, SumMonotone

LEMMA TotalAdds ==
  ASSUME NEW f \in [Accounts -> Int], NEW g \in [Accounts -> Int], NEW h \in [Accounts -> Int],
         \A a \in Accounts : h[a] = f[a] + g[a]
  PROVE  Total(h) = Total(f) + Total(g)
<1>. DEFINE T == {t \in SUBSET Accounts : Sum(h, t) # Sum(f, t) + Sum(g, t)}
<1>1. T = {}
  <2>1. SUFFICES ASSUME T # {}  PROVE FALSE
    OBVIOUS
  <2>2. PICK t \in T : \A u \in T : ~ (Cardinality(u) < Cardinality(t))
    BY <2>1, SmallestOf
  <2>3. Sum(f, {}) = 0 /\ Sum(g, {}) = 0 /\ Sum(h, {}) = 0
    BY SumIs
  <2>4. t # {}
    BY <2>2, <2>3
  <2>. DEFINE p == Pick(t)
              u == t \ {p}
  <2>5. p \in t /\ p \in Accounts
    BY <2>4 DEF Pick
  <2>6. u \in SUBSET Accounts /\ Cardinality(u) < Cardinality(t)
    BY <2>5, AccountsFinite
  <2>7. Sum(h, u) = Sum(f, u) + Sum(g, u)
    BY <2>2, <2>6
  <2>8. /\ Sum(f, t) = f[p] + Sum(f, u) /\ Sum(g, t) = g[p] + Sum(g, u)
        /\ Sum(h, t) = h[p] + Sum(h, u)
    BY <2>4, SumIs
  <2>9. /\ f[p] \in Int /\ g[p] \in Int /\ h[p] = f[p] + g[p]
        /\ Sum(f, u) \in Int /\ Sum(g, u) \in Int
    BY <2>5, <2>6, SumType
  <2>10. Sum(h, t) = Sum(f, t) + Sum(g, t)
    <3>. HIDE DEF u, p
    <3>. QED  BY <2>7, <2>8, <2>9
  <2>. QED  BY <2>2, <2>10
<1>2. Accounts \in SUBSET Accounts
  OBVIOUS
<1>3. Sum(h, Accounts) = Sum(f, Accounts) + Sum(g, Accounts)
  BY <1>1, <1>2
<1>. QED  BY <1>3, SumIs

\* What one account gives another keeps the total.
LEMMA TotalMoved ==
  ASSUME NEW f \in [Accounts -> Int], NEW g \in [Accounts -> Int],
         NEW from \in Accounts, NEW to \in Accounts, from # to, NEW amount \in Int,
         g[from] = f[from] - amount, g[to] = f[to] + amount,
         \A a \in Accounts \ {from, to} : g[a] = f[a]
  PROVE  Total(g) = Total(f)
<1>. DEFINE s == Accounts \ {from}
            t == s \ {to}
<1>1. s \in SUBSET Accounts /\ t \in SUBSET Accounts /\ to \in s /\ Accounts \in SUBSET Accounts
  OBVIOUS
<1>2. /\ Sum(f, Accounts) = f[from] + Sum(f, s) /\ Sum(f, s) = f[to] + Sum(f, t)
      /\ Sum(g, Accounts) = g[from] + Sum(g, s) /\ Sum(g, s) = g[to] + Sum(g, t)
  BY <1>1, SumTakes
<1>3. \A a \in t : g[a] = f[a] /\ f[a] \in Int
  OBVIOUS
<1>4. \A a \in t : g[a] <= f[a] /\ f[a] <= g[a]
  BY <1>3
<1>5. Sum(g, t) <= Sum(f, t) /\ Sum(f, t) <= Sum(g, t)
  BY <1>1, <1>4, SumMonotone
<1>6. Sum(f, t) \in Int /\ Sum(g, t) \in Int /\ f[from] \in Int /\ f[to] \in Int
  BY <1>1, SumType
<1>. HIDE DEF s, t
<1>7. Sum(f, Accounts) = Sum(g, Accounts)
  BY <1>2, <1>5, <1>6
<1>. QED  BY <1>7, SumIs

-----------------------------------------------------------------------------
(* Rows of the database, and what is computed from them.                    *)

LEMMA GreatestOf ==
  ASSUME NEW n \in Nat, NEW T \in SUBSET (0..n), T # {}
  PROVE  /\ Max(T) \in T /\ \A j \in T : j <= Max(T)
         /\ Min(T) \in T /\ \A j \in T : Min(T) <= j
<1>1. \E k \in T : \A j \in T : j <= k
  <2>. DEFINE N == {n - k : k \in T}
  <2>1. N \subseteq Nat /\ N # {}
    <3>1. \A k \in T : n - k \in Nat
      OBVIOUS
    <3>. QED  BY <3>1
  <2>2. PICK m \in N : \A j \in N : ~ (<<j, m>> \in OpToRel(<, Nat))
    <3>. HIDE DEF N
    <3>. QED  BY <2>1, NatLessThanWellFounded, WFMin
  <2>3. \A j \in N : ~ (j < m)
    BY <2>1, <2>2 DEF OpToRel
  <2>4. PICK k \in T : m = n - k
    BY <2>2
  <2>5. ASSUME NEW j \in T  PROVE j <= k
    <3>1. n - j \in N /\ j \in 0..n /\ k \in 0..n
      BY <2>4
    <3>2. ~ (n - j < n - k)
      BY <2>3, <2>4, <3>1
    <3>. QED  BY <3>1, <3>2
  <2>. QED  BY <2>5
<1>2. \E k \in T : \A j \in T : k <= j
  <2>1. T \subseteq Nat
    OBVIOUS
  <2>2. PICK m \in T : \A j \in T : ~ (<<j, m>> \in OpToRel(<, Nat))
    BY <2>1, NatLessThanWellFounded, WFMin
  <2>3. \A j \in T : ~ (j < m)
    BY <2>1, <2>2 DEF OpToRel
  <2>. QED  BY <2>1, <2>3
<1>3. (\A j \in T : j <= Max(T)) /\ Max(T) \in T
  <2>1. \E k \in T : \A j \in T : k >= j
    BY <1>1
  <2>2. \A j \in T : Max(T) >= j /\ Max(T) \in T
    BY <2>1 DEF Max
  <2>. QED  BY <2>2
<1>4. (\A j \in T : Min(T) <= j) /\ Min(T) \in T
  BY <1>2 DEF Min
<1>. QED  BY <1>3, <1>4

RowOK(row) ==
  /\ row.ts \in Nat /\ row.index \in Nat
  /\ \A a \in DOMAIN row.post : row.post[a] \in Int

\* rows can be the indexed transactions: the first one sets an index.
RowsOK(rows) ==
  /\ Len(rows) \in Nat \ {0}
  /\ rows[1].index # 0
  /\ \A k \in 1..Len(rows) : RowOK(rows[k])

LEMMA CurrentIndexIs ==
  ASSUME NEW rows, RowsOK(rows)
  PROVE  \E k \in 1..Len(rows) : /\ currentIndex(rows) = rows[k]
                                 /\ rows[k].index \in Nat \ {0}
                                 /\ \A j \in (k + 1)..Len(rows) : rows[j].index = 0
<1>. DEFINE T == allIndexUpdates(rows)
<1>1. Len(rows) \in Nat /\ T \in SUBSET (0..Len(rows)) /\ 1 \in T
  BY DEF RowsOK, allIndexUpdates
<1>2. Max(T) \in T /\ \A j \in T : j <= Max(T)
  <2>. HIDE DEF T
  <2>. QED  BY <1>1, GreatestOf
<1>3. Max(T) \in 1..Len(rows) /\ rows[Max(T)].index # 0
  BY <1>2 DEF allIndexUpdates
<1>4. rows[Max(T)].index \in Nat
  BY <1>3 DEF RowsOK, RowOK
<1>5. ASSUME NEW j \in (Max(T) + 1)..Len(rows)  PROVE rows[j].index = 0
  <2>1. j \in 1..Len(rows) /\ ~ (j <= Max(T))
    BY <1>1, <1>3
  <2>. QED  BY <1>2, <2>1 DEF allIndexUpdates
<1>. QED  BY <1>3, <1>4, <1>5 DEF currentIndex

LEMMA BalanceIsInt ==
  ASSUME NEW rows, RowsOK(rows), NEW account, NEW ts
  PROVE  getBalanceAt(rows, account, ts) \in Int
<1>. DEFINE T == {k \in 1..Len(rows) : account \in DOMAIN rows[k].post /\ rows[k].ts < ts}
<1>1. CASE T = {}
  BY <1>1 DEF getBalanceAt
<1>2. CASE T # {}
  <2>1. Len(rows) \in Nat /\ T \in SUBSET (0..Len(rows))
    BY DEF RowsOK
  <2>2. Max(T) \in T
    <3>. HIDE DEF T
    <3>. QED  BY <1>2, <2>1, GreatestOf
  <2>3. rows[Max(T)].post[account] \in Int
    BY <2>2 DEF RowsOK, RowOK
  <2>4. getBalanceAt(rows, account, ts) = rows[Max(T)].post[account]
    BY <1>2 DEF getBalanceAt
  <2>. QED  BY <2>3, <2>4
<1>. QED  BY <1>1, <1>2

StartOfWalk(rows, steps) == [last |-> rows[Min(steps)], refused |-> FALSE, claimYield |-> 0]
NextOfWalk(rows, account, steps, walk, k) ==
  IF k \in steps THEN WalkStep(rows, account, walk, rows[k]) ELSE walk

\* r has the walk over the first m rows.
Walking(r, rows, account, steps, m) ==
  /\ r[0] = StartOfWalk(rows, steps)
  /\ \A k \in 1..m : r[k] = NextOfWalk(rows, account, steps, r[k - 1], k)

LEMMA WalkingExist ==
  ASSUME NEW rows, NEW account, NEW steps, NEW m \in Nat
  PROVE  \E r : Walking(r, rows, account, steps, m)
<1>. DEFINE T == {k \in Nat : ~ \E r : Walking(r, rows, account, steps, k)}
            next(w, k) == NextOfWalk(rows, account, steps, w, k)
<1>1. SUFFICES ASSUME T # {}  PROVE FALSE
  OBVIOUS
<1>2. T \subseteq Nat
  OBVIOUS
<1>3. PICK k \in T : \A j \in T : ~ (<<j, k>> \in OpToRel(<, Nat))
  <2>. HIDE DEF T
  <2>. QED  BY <1>1, <1>2, NatLessThanWellFounded, WFMin
<1>4. \A j \in T : ~ (j < k)
  BY <1>2, <1>3 DEF OpToRel
<1>5. CASE k = 0
  <2>. DEFINE s == [n \in 0..0 |-> StartOfWalk(rows, steps)]
  <2>1. Walking(s, rows, account, steps, 0)
    BY DEF Walking
  <2>. QED  BY <1>3, <1>5, <2>1
<1>6. CASE k # 0
  <2>1. k \in Nat /\ k - 1 \in Nat /\ k - 1 \notin T
    BY <1>2, <1>4, <1>6
  <2>2. PICK r : Walking(r, rows, account, steps, k - 1)
    BY <2>1
  <2>. DEFINE s == [n \in 0..k |-> IF n = k THEN next(r[k - 1], k) ELSE r[n]]
  <2>. HIDE DEF next
  <2>3. s[0] = StartOfWalk(rows, steps)
    BY <1>6, <2>1, <2>2 DEF Walking
  <2>4. ASSUME NEW n \in 1..k  PROVE s[n] = next(s[n - 1], n)
    <3>1. CASE n = k
      <4>1. s[n] = next(r[k - 1], k) /\ s[n - 1] = r[k - 1]
        BY <2>1, <3>1
      <4>. QED  BY <3>1, <4>1
    <3>2. CASE n # k
      <4>1. s[n] = r[n] /\ s[n - 1] = r[n - 1] /\ n \in 1..(k - 1)
        BY <2>1, <3>2
      <4>2. r[n] = next(r[n - 1], n)
        BY <2>2, <4>1 DEF Walking, next
      <4>. QED  BY <4>1, <4>2
    <3>. QED  BY <3>1, <3>2
  <2>. HIDE DEF s
  <2>5. Walking(s, rows, account, steps, k)
    BY <2>3, <2>4 DEF Walking, next
  <2>. QED  BY <1>3, <2>5
<1>. QED  BY <1>5, <1>6

LEMMA WalkIs ==
  ASSUME NEW rows, Len(rows) \in Nat, NEW account, NEW steps, steps # {}
  PROVE  \E r : /\ Walking(r, rows, account, steps, Len(rows))
               /\ Walk(rows, account, steps) = r[Len(rows)]
<1>. DEFINE m == Len(rows)
            start == StartOfWalk(rows, steps)
            next(w, k) == NextOfWalk(rows, account, steps, w, k)
            Q(q) == q = [k \in 0..m |-> IF k = 0 THEN start ELSE next(q[k - 1], k)]
            c == CHOOSE q : Q(q)
<1>1. PICK r : Walking(r, rows, account, steps, m)
  BY WalkingExist
<1>. DEFINE g == [k \in 0..m |-> r[k]]
<1>2. ASSUME NEW k \in 0..m
      PROVE  g[k] = IF k = 0 THEN start ELSE next(g[k - 1], k)
  <2>1. CASE k = 0
    BY <1>1, <2>1 DEF Walking
  <2>2. CASE k # 0
    <3>1. k \in 1..m /\ k - 1 \in 0..m
      BY <2>2
    <3>2. g[k] = r[k] /\ g[k - 1] = r[k - 1]
      BY <3>1
    <3>3. r[k] = next(r[k - 1], k)
      BY <1>1, <3>1 DEF Walking
    <3>. HIDE DEF g, next
    <3>. QED  BY <2>2, <3>2, <3>3
  <2>. QED  BY <2>1, <2>2
<1>3. g = [k \in 0..m |-> g[k]]
  OBVIOUS
<1>4. Q(g)
  <2>. HIDE DEF g, next, start
  <2>. QED  BY <1>2, <1>3
<1>5. Q(c)
  <2>. HIDE DEF Q, g
  <2>. QED  BY <1>4
<1>6. Walk(rows, account, steps) = c[m]
  BY DEF Walk, NextOfWalk, StartOfWalk
<1>. HIDE DEF c, start, next
<1>. DEFINE step(k) == IF k = 0 THEN start ELSE next(c[k - 1], k)
<1>7. c = [k \in 0..m |-> step(k)]
  BY <1>5
<1>8. step(0) = start /\ \A k \in 1..m : step(k) = next(c[k - 1], k)
  OBVIOUS
<1>. HIDE DEF step
<1>9. \A k \in 0..m : c[k] = step(k)
  BY <1>7
<1>10. 0 \in 0..m /\ \A k \in 1..m : k \in 0..m
  OBVIOUS
<1>11. Walking(c, rows, account, steps, m)
  BY <1>8, <1>9, <1>10 DEF Walking, start, next
<1>. QED  BY <1>6, <1>11

WalkOK(walk) == walk.claimYield \in Int /\ walk.last.index \in Nat \ {0}

LEMMA NextOfWalkOK ==
  ASSUME NEW rows, RowsOK(rows), NEW account, NEW steps \in SUBSET allIndexUpdates(rows),
         NEW walk, WalkOK(walk), NEW k \in 1..Len(rows)
  PROVE  WalkOK(NextOfWalk(rows, account, steps, walk, k))
<1>1. CASE k \notin steps \/ rows[k].ts = walk.last.ts
  BY <1>1 DEF NextOfWalk, WalkStep
<1>2. CASE k \in steps /\ rows[k].ts # walk.last.ts
  <2>. DEFINE b == getBalanceAt(rows, account, rows[k].ts)
              y == Compounded(walk.claimYield, b, rows[k], walk.last)
  <2>1. rows[k].index \in Nat \ {0}
    BY <1>2 DEF allIndexUpdates, RowsOK, RowOK
  <2>2. b \in Int
    BY BalanceIsInt
  <2>3. y \in Int
    <3>1. walk.claimYield \in Int /\ walk.last.index \in Nat \ {0}
      BY DEF WalkOK
    <3>2. \A c, d, i \in Int, l \in Nat \ {0} : ((c + d) * i) \div l - d \in Int
      OBVIOUS
    <3>. HIDE DEF b
    <3>3. ((walk.claimYield + b) * rows[k].index) \div walk.last.index - b \in Int
      <4>1. rows[k].index \in Int
        BY <2>1
      <4>. QED  BY <2>2, <3>1, <3>2, <4>1
    <3>. QED  BY <3>3 DEF Compounded
  <2>. DEFINE w == NextOfWalk(rows, account, steps, walk, k)
  <2>4. w.claimYield = y /\ w.last = rows[k]
    BY <1>2 DEF NextOfWalk, WalkStep
  <2>. HIDE DEF w, y
  <2>. QED  BY <2>1, <2>3, <2>4 DEF WalkOK, w
<1>. QED  BY <1>1, <1>2

LEMMA ClaimBalanceIsInt ==
  ASSUME NEW rows, RowsOK(rows), NEW account, NEW data,
         data.lastClaimIndex \in Nat \ {0}, ~ AlreadyClaimed(rows, data)
  PROVE  ClaimBalance(rows, account, data) \in Int
<1>. DEFINE steps == Steps(rows, data)
            y == Walk(rows, account, steps).claimYield
<1>1. steps \in SUBSET allIndexUpdates(rows) /\ Len(rows) \in Nat
  BY DEF Steps, indexUpdates, RowsOK
<1>2. ASSUME steps = {}  PROVE y \in Int
  <2>1. Walk(rows, account, steps) = [refused |-> FALSE, claimYield |-> 0]
    BY <1>2 DEF Walk
  <2>. QED  BY <2>1
<1>3. ASSUME steps # {}  PROVE y \in Int
  <2>. HIDE DEF steps
  <2>1. PICK r : /\ Walking(r, rows, account, steps, Len(rows))
                 /\ Walk(rows, account, steps) = r[Len(rows)]
    BY <1>1, <1>3, WalkIs
  <2>. DEFINE T == {k \in 0..Len(rows) : ~ WalkOK(r[k])}
  <2>2. T = {}
    <3>1. SUFFICES ASSUME T # {}  PROVE FALSE
      OBVIOUS
    <3>2. T \in SUBSET (0..Len(rows))
      OBVIOUS
    <3>. DEFINE k == Min(T)
    <3>3. k \in T /\ \A j \in T : k <= j
      <4>. HIDE DEF T
      <4>. QED  BY <1>1, <3>1, <3>2, GreatestOf
    <3>. HIDE DEF k
    <3>4. CASE k = 0
      <4>1. Min(steps) \in steps
        <5>1. steps \in SUBSET (0..Len(rows))
          BY <1>1 DEF allIndexUpdates
        <5>. QED  BY <1>1, <1>3, <5>1, GreatestOf
      <4>2. rows[Min(steps)].index \in Nat \ {0}
        BY <1>1, <4>1 DEF allIndexUpdates, RowsOK, RowOK
      <4>3. WalkOK(r[0])
        BY <2>1, <4>2 DEF Walking, StartOfWalk, WalkOK
      <4>. QED  BY <3>3, <3>4, <4>3
    <3>5. CASE k # 0
      <4>1. k \in 1..Len(rows) /\ k - 1 \in 0..Len(rows) /\ ~ (k <= k - 1)
        BY <1>1, <3>3, <3>5
      <4>2. WalkOK(r[k - 1])
        BY <3>3, <4>1
      <4>3. r[k] = NextOfWalk(rows, account, steps, r[k - 1], k)
        BY <2>1, <4>1 DEF Walking
      <4>4. WalkOK(r[k])
        BY <1>1, <4>1, <4>2, <4>3, NextOfWalkOK
      <4>. QED  BY <3>3, <4>4
    <3>. QED  BY <3>4, <3>5
  <2>3. Len(rows) \in 0..Len(rows)
    BY <1>1
  <2>4. WalkOK(r[Len(rows)])
    BY <2>2, <2>3
  <2>. QED  BY <2>1, <2>4 DEF WalkOK
<1>4. y \in Int
  BY <1>2, <1>3
<1>5. PICK k \in 1..Len(rows) : currentIndex(rows) = rows[k] /\ rows[k].index \in Nat \ {0}
  BY CurrentIndexIs
<1>6. currentIndex(rows).index - data.lastClaimIndex \in Nat \ {0}
  BY <1>5 DEF AlreadyClaimed
<1>7. \A i \in Int, l \in Nat, d \in Nat \ {0} : (i * l) \div d \in Int
  OBVIOUS
<1>. HIDE DEF y
<1>. QED  BY <1>4, <1>6, <1>7 DEF ClaimBalance, y

-----------------------------------------------------------------------------
(* What a transaction does.                                                 *)

LEMMA Divided ==
  ASSUME NEW a \in Nat, NEW d \in Nat \ {0}
  PROVE  a \div d \in Nat /\ d * (a \div d) <= a /\ a < d * (a \div d) + d
OBVIOUS

LEMMA ProductMonotone ==
  ASSUME NEW a \in Nat, NEW b \in Nat, NEW d \in Nat, a <= b
  PROVE  a * d <= b * d /\ d * a <= d * b
OBVIOUS

LEMMA QuotientMonotone ==
  ASSUME NEW a \in Nat, NEW b \in Nat, NEW d \in Nat \ {0}, a <= b
  PROVE  a \div d <= b \div d
<1>. DEFINE p == a \div d
            q == b \div d
<1>1. p \in Nat /\ q \in Nat /\ d * p <= a /\ b < d * q + d
  BY Divided
<1>. HIDE DEF p, q
<1>2. SUFFICES ASSUME q + 1 <= p  PROVE FALSE
  BY <1>1 DEF p, q
<1>3. d * (q + 1) <= d * p
  BY <1>1, <1>2, ProductMonotone
<1>4. d * (q + 1) = d * q + d /\ d * p \in Nat /\ d * q \in Nat
  BY <1>1
<1>. QED  BY <1>1, <1>3, <1>4

\* What a claim of b, made since one index and executed at another, pays.
Interest(b, index, since) == (b * index) \div since - b

LEMMA InterestGrows ==
  ASSUME NEW b \in Nat, NEW since \in Nat \ {0}, NEW g \in Nat, NEW h \in Nat,
         since <= g, g <= h
  PROVE  /\ Interest(b, g, since) \in Nat
         /\ Interest(b, h, since) \in Nat
         /\ Interest(b, g, since) <= Interest(b, h, since)
<1>1. b * since \in Nat /\ b * g \in Nat /\ b * h \in Nat
  OBVIOUS
<1>2. b * since <= b * g /\ b * g <= b * h
  BY ProductMonotone
<1>3. (b * since) \div since = b
  OBVIOUS
<1>4. /\ (b * g) \div since \in Nat /\ (b * h) \div since \in Nat
      /\ b <= (b * g) \div since /\ (b * g) \div since <= (b * h) \div since
  BY <1>1, <1>2, <1>3, QuotientMonotone, Divided
<1>. QED  BY <1>4 DEF Interest

GlobalData == [index : Nat \ {0}, timestamp : Nat]
EarnerData == [lastClaimIndex : Nat \ {0}, lastClaimTimestamp : Nat]
TxState == [global : GlobalData, earner : [Earners -> EarnerData], balance : [Accounts -> Int],
            ok : BOOLEAN]

\* The chain's own state, for any balances, indices and times.
ChainOK ==
  /\ balance \in [Accounts -> Nat]
  /\ global \in GlobalData /\ earner \in [Earners -> EarnerData]
  /\ mIndex.index \in Nat \ {0} /\ mIndex.ts \in Nat
  /\ global.index <= mIndex.index

IsClaim(ix) == /\ ix.op = "claim" /\ ix.earner \in Earners /\ ix.balance \in Nat
IsSync(ix) == ix.op = "sync"

\* Instructions the bot builds: no earner is paid twice.
ListOK(list) ==
  /\ Len(list) \in Nat
  /\ \A k \in 1..Len(list) : IsSync(list[k]) \/ IsClaim(list[k])
  /\ \A j, k \in 1..Len(list) :
       IsClaim(list[j]) /\ IsClaim(list[k]) /\ list[j].earner = list[k].earner => j = k

\* Some instruction up to the k-th is a claim of a.
Claimed(list, k, a) == \E j \in 1..k : IsClaim(list[j]) /\ list[j].earner = a

LEMMA SyncIs ==
  ASSUME ChainOK, NEW st \in TxState, NEW ix, IsSync(ix)
  PROVE  /\ ExecuteIx(st, ix) \in TxState
         /\ ExecuteIx(st, ix).global.index = mIndex.index
         /\ ExecuteIx(st, ix).earner = st.earner
         /\ ExecuteIx(st, ix).balance = st.balance
         /\ ExecuteIx(st, ix).ok = st.ok
<1>. DEFINE after == [st EXCEPT !.global = [index |-> mIndex.index, timestamp |-> mIndex.ts]]
<1>1. ExecuteIx(st, ix) = after
  BY DEF ExecuteIx, IsSync
<1>2. [index |-> mIndex.index, timestamp |-> mIndex.ts] \in GlobalData
  BY DEF ChainOK, GlobalData
<1>3. after \in TxState
  BY <1>2 DEF TxState
<1>4. /\ after.global.index = mIndex.index /\ after.earner = st.earner
      /\ after.balance = st.balance /\ after.ok = st.ok
  BY DEF TxState
<1>. HIDE DEF after
<1>. QED  BY <1>1, <1>3, <1>4

LEMMA ClaimIs ==
  ASSUME NEW st \in TxState, NEW ix, IsClaim(ix)
  PROVE  LET after == ExecuteIx(st, ix)
             e == ix.earner
             since == st.earner[e].lastClaimIndex
         IN  /\ after \in TxState
             /\ after.global = st.global
             /\ after.ok <=> st.ok /\ since < st.global.index
             /\ after.balance[e] = st.balance[e] + Interest(ix.balance, st.global.index, since)
             /\ \A a \in Accounts \ {e} : after.balance[a] = st.balance[a]
             /\ \A a \in Earners \ {e} : after.earner[a] = st.earner[a]
             /\ after.earner[e].lastClaimIndex = st.global.index
<1>. DEFINE e == ix.earner
            since == st.earner[e].lastClaimIndex
            paid == st.balance[e] + (ix.balance * st.global.index) \div since - ix.balance
            data == [lastClaimIndex |-> st.global.index, lastClaimTimestamp |-> st.global.timestamp]
            ok == st.ok /\ since < st.global.index
            after == [st EXCEPT !.ok = ok, !.balance[e] = paid, !.earner[e] = data]
<1>1. ix.op # "sync" /\ e \in Earners /\ ix.balance \in Nat /\ e \in Accounts
  BY DEF IsClaim, Accounts
<1>2. ExecuteIx(st, ix) = after
  BY <1>1 DEF ExecuteIx
<1>3. /\ st.global \in GlobalData /\ st.earner \in [Earners -> EarnerData]
      /\ st.balance \in [Accounts -> Int] /\ st.ok \in BOOLEAN
  BY DEF TxState
<1>4. since \in Nat \ {0} /\ st.global.index \in Nat \ {0} /\ st.balance[e] \in Int
  BY <1>1, <1>3 DEF EarnerData, GlobalData
<1>5. (ix.balance * st.global.index) \div since \in Int
  <2>1. \A b, g \in Nat, s \in Nat \ {0} : (b * g) \div s \in Int
    OBVIOUS
  <2>. HIDE DEF since
  <2>. QED  BY <1>1, <1>4, <2>1
<1>6. paid \in Int /\ paid = st.balance[e] + Interest(ix.balance, st.global.index, since)
  <2>. HIDE DEF since
  <2>. QED  BY <1>1, <1>4, <1>5 DEF Interest
<1>7. data \in EarnerData /\ data.lastClaimIndex = st.global.index
  BY <1>3 DEF EarnerData, GlobalData
<1>8. ok \in BOOLEAN
  OBVIOUS
<1>. HIDE DEF ok, paid, data, since
<1>9. /\ after.global = st.global /\ after.ok = ok
      /\ after.earner = [st.earner EXCEPT ![e] = data]
      /\ after.balance = [st.balance EXCEPT ![e] = paid]
  BY DEF TxState
<1>10. [st.earner EXCEPT ![e] = data] \in [Earners -> EarnerData]
  BY <1>3, <1>7
<1>11. [st.balance EXCEPT ![e] = paid] \in [Accounts -> Int]
  BY <1>3, <1>6
<1>12. after \in TxState
  BY <1>3, <1>8, <1>10, <1>11 DEF TxState
<1>13. /\ after.global = st.global /\ (after.ok <=> ok)
       /\ after.balance[e] = paid
       /\ \A a \in Accounts \ {e} : after.balance[a] = st.balance[a]
       /\ \A a \in Earners \ {e} : after.earner[a] = st.earner[a]
       /\ after.earner[e].lastClaimIndex = st.global.index
  BY <1>1, <1>3, <1>7, <1>9
<1>. HIDE DEF after
<1>. QED  BY <1>2, <1>6, <1>12, <1>13 DEF ok, since

StartOfTx == [global |-> global, earner |-> earner, balance |-> balance, ok |-> TRUE]

\* r has the states of a transaction through its first m instructions.
Executing(r, list, m) ==
  /\ r[0] = StartOfTx
  /\ \A k \in 1..m : r[k] = ExecuteIx(r[k - 1], list[k])

LEMMA ExecutingExist ==
  ASSUME NEW list, NEW m \in Nat
  PROVE  \E r : Executing(r, list, m)
<1>. DEFINE T == {k \in Nat : ~ \E r : Executing(r, list, k)}
            next(w, k) == ExecuteIx(w, list[k])
<1>1. SUFFICES ASSUME T # {}  PROVE FALSE
  OBVIOUS
<1>2. T \subseteq Nat
  OBVIOUS
<1>3. PICK k \in T : \A j \in T : ~ (<<j, k>> \in OpToRel(<, Nat))
  <2>. HIDE DEF T
  <2>. QED  BY <1>1, <1>2, NatLessThanWellFounded, WFMin
<1>4. \A j \in T : ~ (j < k)
  BY <1>2, <1>3 DEF OpToRel
<1>5. CASE k = 0
  <2>. DEFINE s == [n \in 0..0 |-> StartOfTx]
  <2>1. Executing(s, list, 0)
    BY DEF Executing
  <2>. QED  BY <1>3, <1>5, <2>1
<1>6. CASE k # 0
  <2>1. k \in Nat /\ k - 1 \in Nat /\ k - 1 \notin T
    BY <1>2, <1>4, <1>6
  <2>2. PICK r : Executing(r, list, k - 1)
    BY <2>1
  <2>. DEFINE s == [n \in 0..k |-> IF n = k THEN next(r[k - 1], k) ELSE r[n]]
  <2>. HIDE DEF next
  <2>3. s[0] = StartOfTx
    BY <1>6, <2>1, <2>2 DEF Executing
  <2>4. ASSUME NEW n \in 1..k  PROVE s[n] = next(s[n - 1], n)
    <3>1. CASE n = k
      <4>1. s[n] = next(r[k - 1], k) /\ s[n - 1] = r[k - 1]
        BY <2>1, <3>1
      <4>. QED  BY <3>1, <4>1
    <3>2. CASE n # k
      <4>1. s[n] = r[n] /\ s[n - 1] = r[n - 1] /\ n \in 1..(k - 1)
        BY <2>1, <3>2
      <4>2. r[n] = next(r[n - 1], n)
        BY <2>2, <4>1 DEF Executing, next
      <4>. QED  BY <4>1, <4>2
    <3>. QED  BY <3>1, <3>2
  <2>. HIDE DEF s
  <2>5. Executing(s, list, k)
    BY <2>3, <2>4 DEF Executing, next
  <2>. QED  BY <1>3, <2>5
<1>. QED  BY <1>5, <1>6

LEMMA ExecutedIs ==
  ASSUME NEW list, Len(list) \in Nat
  PROVE  \E r : Executing(r, list, Len(list)) /\ Executed(list) = r[Len(list)]
<1>. DEFINE m == Len(list)
            start == StartOfTx
            next(w, k) == ExecuteIx(w, list[k])
            Q(q) == q = [k \in 0..m |-> IF k = 0 THEN start ELSE next(q[k - 1], k)]
            c == CHOOSE q : Q(q)
<1>1. PICK r : Executing(r, list, m)
  BY ExecutingExist
<1>. DEFINE g == [k \in 0..m |-> r[k]]
<1>. HIDE DEF start
<1>2. ASSUME NEW k \in 0..m
      PROVE  g[k] = IF k = 0 THEN start ELSE next(g[k - 1], k)
  <2>1. CASE k = 0
    BY <1>1, <2>1 DEF Executing, start
  <2>2. CASE k # 0
    <3>1. k \in 1..m /\ k - 1 \in 0..m
      BY <2>2
    <3>2. g[k] = r[k] /\ g[k - 1] = r[k - 1]
      BY <3>1
    <3>3. r[k] = next(r[k - 1], k)
      BY <1>1, <3>1 DEF Executing
    <3>. HIDE DEF g, next
    <3>. QED  BY <2>2, <3>2, <3>3
  <2>. QED  BY <2>1, <2>2
<1>3. g = [k \in 0..m |-> g[k]]
  OBVIOUS
<1>4. Q(g)
  <2>. HIDE DEF g, next, start
  <2>. QED  BY <1>2, <1>3
<1>5. Q(c)
  <2>. HIDE DEF Q, g
  <2>. QED  BY <1>4
<1>6. Executed(list) = c[m]
  BY DEF Executed, StartOfTx, start
<1>. HIDE DEF c, next
<1>. DEFINE step(k) == IF k = 0 THEN start ELSE next(c[k - 1], k)
<1>7. c = [k \in 0..m |-> step(k)]
  BY <1>5
<1>8. step(0) = start /\ \A k \in 1..m : step(k) = next(c[k - 1], k)
  OBVIOUS
<1>. HIDE DEF step
<1>9. \A k \in 0..m : c[k] = step(k)
  BY <1>7
<1>10. 0 \in 0..m /\ \A k \in 1..m : k \in 0..m
  OBVIOUS
<1>11. Executing(c, list, m)
  BY <1>8, <1>9, <1>10 DEF Executing, start, next
<1>. QED  BY <1>6, <1>11

\* What has been done after k instructions of a list, r having the states.
Reached(r, list, k) ==
  /\ r[k] \in TxState /\ r[k].global.index <= mIndex.index
  /\ \A a \in Accounts : ~ Claimed(list, k, a) =>
       r[k].balance[a] = balance[a] /\ (a \in Earners => r[k].earner[a] = earner[a])
  /\ k # 0 /\ IsSync(list[1]) => r[k].global.index = mIndex.index
  /\ r[k].ok => \A j \in 1..k : IsClaim(list[j]) =>
       LET e == list[j].earner
           since == earner[e].lastClaimIndex
       IN  /\ since < r[j - 1].global.index
           /\ r[k].balance[e] = balance[e] + Interest(list[j].balance, r[j - 1].global.index, since)
           /\ r[k].earner[e].lastClaimIndex = r[j - 1].global.index

LEMMA ReachedStart ==
  ASSUME ChainOK, NEW list, NEW r, r[0] = StartOfTx
  PROVE  Reached(r, list, 0)
<1>1. StartOfTx \in TxState
  <2>1. balance \in [Accounts -> Int] /\ earner \in [Earners -> EarnerData] /\ global \in GlobalData
    BY DEF ChainOK
  <2>. QED  BY <2>1 DEF StartOfTx, TxState
<1>2. /\ StartOfTx.global = global /\ StartOfTx.balance = balance /\ StartOfTx.earner = earner
  BY DEF StartOfTx
<1>3. global.index <= mIndex.index
  BY DEF ChainOK
<1>4. 1..0 = {}
  OBVIOUS
<1>. QED  BY <1>1, <1>2, <1>3, <1>4 DEF Reached

LEMMA ReachedNext ==
  ASSUME ChainOK, NEW list, ListOK(list), NEW r, NEW k \in 1..Len(list),
         r[k] = ExecuteIx(r[k - 1], list[k]), Reached(r, list, k - 1)
  PROVE  Reached(r, list, k)
<1>. DEFINE st == r[k - 1]
            ix == list[k]
            after == r[k]
<1>1. st \in TxState /\ st.global.index <= mIndex.index
  BY DEF Reached
<1>2. /\ k \in Nat \ {0} /\ Len(list) \in Nat
      /\ 1..k = 1..(k - 1) \cup {k} /\ 1..(k - 1) \subseteq 1..k
  BY DEF ListOK
<1>3. \A a : Claimed(list, k, a) <=> Claimed(list, k - 1, a) \/ (IsClaim(ix) /\ ix.earner = a)
  BY <1>2 DEF Claimed
<1>4. \A a \in Accounts : ~ Claimed(list, k - 1, a) =>
        st.balance[a] = balance[a] /\ (a \in Earners => st.earner[a] = earner[a])
  BY DEF Reached
<1>5. st.ok => \A j \in 1..(k - 1) : IsClaim(list[j]) =>
        LET e == list[j].earner
            since == earner[e].lastClaimIndex
        IN  /\ since < r[j - 1].global.index
            /\ st.balance[e] = balance[e] + Interest(list[j].balance, r[j - 1].global.index, since)
            /\ st.earner[e].lastClaimIndex = r[j - 1].global.index
  BY DEF Reached
<1>6. CASE IsSync(ix)
  <2>1. /\ after \in TxState /\ after.global.index = mIndex.index /\ after.earner = st.earner
        /\ after.balance = st.balance /\ after.ok = st.ok
    BY <1>1, <1>6, SyncIs
  <2>2. ~ IsClaim(ix)
    BY <1>6 DEF IsSync, IsClaim
  <2>3. mIndex.index <= mIndex.index
    BY DEF ChainOK
  <2>4. ASSUME NEW a \in Accounts, ~ Claimed(list, k, a)
        PROVE  after.balance[a] = balance[a] /\ (a \in Earners => after.earner[a] = earner[a])
    BY <1>3, <1>4, <2>1, <2>4
  <2>5. ASSUME after.ok, NEW j \in 1..k, IsClaim(list[j])
        PROVE  LET e == list[j].earner
                   since == earner[e].lastClaimIndex
               IN  /\ since < r[j - 1].global.index
                   /\ after.balance[e] = balance[e]
                        + Interest(list[j].balance, r[j - 1].global.index, since)
                   /\ after.earner[e].lastClaimIndex = r[j - 1].global.index
    <3>1. j \in 1..(k - 1)
      BY <1>2, <2>2, <2>5
    <3>2. st.ok
      BY <2>1, <2>5
    <3>. HIDE DEF st, after
    <3>. QED  BY <1>5, <2>1, <2>5, <3>1, <3>2
  <2>. HIDE DEF st, ix
  <2>. QED  BY <2>1, <2>3, <2>4, <2>5 DEF Reached
<1>7. CASE IsClaim(ix)
  <2>. DEFINE e == ix.earner
  <2>1. e \in Earners /\ e \in Accounts
    BY <1>7 DEF IsClaim, Accounts
  <2>2. ~ Claimed(list, k - 1, e)
    <3>1. \A j \in 1..(k - 1) : j \in 1..Len(list) /\ j # k
      BY <1>2
    <3>. QED  BY <1>7, <3>1 DEF Claimed, ListOK
  <2>3. st.balance[e] = balance[e] /\ st.earner[e] = earner[e]
    BY <1>4, <2>1, <2>2
  <2>. DEFINE since == earner[e].lastClaimIndex
  <2>4. /\ after \in TxState /\ after.global = st.global
        /\ after.ok <=> st.ok /\ since < st.global.index
        /\ after.balance[e] = balance[e] + Interest(ix.balance, st.global.index, since)
        /\ \A a \in Accounts \ {e} : after.balance[a] = st.balance[a]
        /\ \A a \in Earners \ {e} : after.earner[a] = st.earner[a]
        /\ after.earner[e].lastClaimIndex = st.global.index
    <3>1. LET s == st.earner[e].lastClaimIndex
          IN  /\ after \in TxState /\ after.global = st.global
              /\ after.ok <=> st.ok /\ s < st.global.index
              /\ after.balance[e] = st.balance[e] + Interest(ix.balance, st.global.index, s)
              /\ \A a \in Accounts \ {e} : after.balance[a] = st.balance[a]
              /\ \A a \in Earners \ {e} : after.earner[a] = st.earner[a]
              /\ after.earner[e].lastClaimIndex = st.global.index
      <4>. HIDE DEF st, ix
      <4>. QED  BY <1>1, <1>7, ClaimIs DEF st, ix
    <3>. QED  BY <2>3, <3>1
  <2>5. after.global.index <= mIndex.index
    BY <1>1, <2>4
  <2>6. ASSUME NEW a \in Accounts, ~ Claimed(list, k, a)
        PROVE  after.balance[a] = balance[a] /\ (a \in Earners => after.earner[a] = earner[a])
    <3>1. a # e /\ ~ Claimed(list, k - 1, a)
      BY <1>3, <1>7, <2>6
    <3>. HIDE DEF st, after, ix, e
    <3>. QED  BY <1>4, <2>4, <3>1
  <2>7. IsSync(list[1]) => after.global.index = mIndex.index
    <3>1. ASSUME IsSync(list[1])  PROVE k - 1 # 0
      BY <1>2, <1>7, <3>1 DEF IsSync, IsClaim
    <3>. QED  BY <2>4, <3>1 DEF Reached
  <2>8. ASSUME after.ok, NEW j \in 1..k, IsClaim(list[j])
        PROVE  LET f == list[j].earner
                   s == earner[f].lastClaimIndex
               IN  /\ s < r[j - 1].global.index
                   /\ after.balance[f] = balance[f]
                        + Interest(list[j].balance, r[j - 1].global.index, s)
                   /\ after.earner[f].lastClaimIndex = r[j - 1].global.index
    <3>1. CASE j = k
      BY <2>4, <2>8, <3>1
    <3>2. CASE j # k
      <4>. DEFINE f == list[j].earner
                  s == earner[f].lastClaimIndex
      <4>1. j \in 1..(k - 1) /\ j \in 1..Len(list)
        BY <1>2, <3>2
      <4>2. f # e
        BY <1>7, <2>8, <3>2, <4>1 DEF ListOK
      <4>3. f \in Accounts \ {e}
        BY <2>8, <4>2 DEF IsClaim, Accounts
      <4>4. st.ok
        BY <2>4, <2>8
      <4>5. /\ s < r[j - 1].global.index
            /\ st.balance[f] = balance[f] + Interest(list[j].balance, r[j - 1].global.index, s)
            /\ st.earner[f].lastClaimIndex = r[j - 1].global.index
        <5>. HIDE DEF st
        <5>. QED  BY <1>5, <2>8, <4>1, <4>4
      <4>6. after.balance[f] = st.balance[f] /\ after.earner[f] = st.earner[f]
        <5>1. f \in Earners \ {e}
          BY <2>8, <4>2 DEF IsClaim
        <5>. QED  BY <2>4, <4>3, <5>1
      <4>. HIDE DEF st, after
      <4>. QED  BY <4>5, <4>6
    <3>. QED  BY <3>1, <3>2
  <2>. HIDE DEF st, ix
  <2>. QED  BY <2>4, <2>5, <2>6, <2>7, <2>8 DEF Reached
<1>. QED  BY <1>6, <1>7 DEF ListOK

\* What a transaction that succeeds pays: to each earner it claims for, the
\* interest at an index no later than the newest, and at the newest if it begins
\* with the sync; to no other account anything.
Pays(list, after) ==
  /\ \A a \in Accounts : ~ Claimed(list, Len(list), a) =>
       after.balance[a] = balance[a] /\ (a \in Earners => after.earner[a] = earner[a])
  /\ after.ok => \A j \in 1..Len(list) : IsClaim(list[j]) =>
       LET e == list[j].earner
           since == earner[e].lastClaimIndex
       IN  \E g \in Nat : /\ since < g /\ g <= mIndex.index
                          /\ IsSync(list[1]) => g = mIndex.index
                          /\ after.balance[e] = balance[e] + Interest(list[j].balance, g, since)
                          /\ after.earner[e].lastClaimIndex = g

LEMMA ExecutedPays ==
  ASSUME ChainOK, NEW list, ListOK(list)
  PROVE  /\ Executed(list) \in TxState
         /\ Executed(list).global.index <= mIndex.index
         /\ Pays(list, Executed(list))
<1>. DEFINE m == Len(list)
<1>1. m \in Nat
  BY DEF ListOK
<1>2. PICK r : Executing(r, list, m) /\ Executed(list) = r[m]
  BY <1>1, ExecutedIs
<1>. DEFINE T == {k \in 0..m : ~ Reached(r, list, k)}
<1>3. T = {}
  <2>1. SUFFICES ASSUME T # {}  PROVE FALSE
    OBVIOUS
  <2>2. T \in SUBSET (0..m)
    OBVIOUS
  <2>. DEFINE k == Min(T)
  <2>3. k \in T /\ \A j \in T : k <= j
    <3>. HIDE DEF T
    <3>. QED  BY <1>1, <2>1, <2>2, GreatestOf
  <2>. HIDE DEF k
  <2>4. CASE k = 0
    <3>1. r[0] = StartOfTx
      BY <1>2 DEF Executing
    <3>. QED  BY <2>3, <2>4, <3>1, ReachedStart
  <2>5. CASE k # 0
    <3>1. k \in 1..m /\ k - 1 \in 0..m /\ ~ (k <= k - 1)
      BY <1>1, <2>3, <2>5
    <3>2. Reached(r, list, k - 1)
      BY <2>3, <3>1
    <3>3. r[k] = ExecuteIx(r[k - 1], list[k])
      BY <1>2, <3>1 DEF Executing
    <3>4. Reached(r, list, k)
      BY <3>1, <3>2, <3>3, ReachedNext
    <3>. QED  BY <2>3, <3>4
  <2>. QED  BY <2>4, <2>5
<1>4. \A k \in 0..m : Reached(r, list, k)
  BY <1>3
<1>5. m \in 0..m
  BY <1>1
<1>6. Reached(r, list, m)
  BY <1>4, <1>5
<1>. DEFINE after == Executed(list)
<1>7. after \in TxState /\ after.global.index <= mIndex.index
  BY <1>2, <1>6 DEF Reached
<1>8. ASSUME after.ok, NEW j \in 1..m, IsClaim(list[j])
      PROVE  LET e == list[j].earner
                 since == earner[e].lastClaimIndex
             IN  \E g \in Nat : /\ since < g /\ g <= mIndex.index
                                /\ IsSync(list[1]) => g = mIndex.index
                                /\ after.balance[e] = balance[e] + Interest(list[j].balance, g, since)
                                /\ after.earner[e].lastClaimIndex = g
  <2>. DEFINE e == list[j].earner
              since == earner[e].lastClaimIndex
              g == r[j - 1].global.index
  <2>1. j - 1 \in 0..m
    BY <1>1
  <2>2. r[j - 1] \in TxState /\ g <= mIndex.index
    BY <1>4, <2>1 DEF Reached
  <2>3. g \in Nat
    BY <2>2 DEF TxState, GlobalData
  <2>4. /\ since < g /\ after.balance[e] = balance[e] + Interest(list[j].balance, g, since)
        /\ after.earner[e].lastClaimIndex = g
    BY <1>2, <1>6, <1>8 DEF Reached
  <2>5. IsSync(list[1]) => g = mIndex.index
    <3>1. ASSUME IsSync(list[1])  PROVE j - 1 # 0
      BY <1>8, <3>1 DEF IsSync, IsClaim
    <3>. QED  BY <1>4, <2>1, <3>1 DEF Reached
  <2>. HIDE DEF g
  <2>. QED  BY <2>2, <2>3, <2>4, <2>5
<1>9. \A a \in Accounts : ~ Claimed(list, m, a) =>
        after.balance[a] = balance[a] /\ (a \in Earners => after.earner[a] = earner[a])
  BY <1>2, <1>6 DEF Reached
<1>. HIDE DEF after
<1>10. Pays(list, after)
  BY <1>8, <1>9 DEF Pays
<1>. QED  BY <1>7, <1>10 DEF after

-----------------------------------------------------------------------------
(* The inductive invariant.                                                 *)

RowData == [ts : Nat, index : Nat, post : UNION {[s -> Nat] : s \in SUBSET Accounts},
            held : [Accounts -> Nat]]
IxData == [op : {"sync"}]
            \cup [op : {"claim"}, earner : Earners, balance : Nat, from : Nat, to : Nat]
TxData == [ixs : Seq(IxData), status : {"built", "sent", "over"}]

\* The newest index is that of the feed's latest update, and no earlier one is
\* larger; so what the database has is at most as large.
HistoryInv ==
  /\ history \in Seq(RowData) /\ clock \in Nat /\ indexed \in 1..Len(history)
  /\ RowsOK(history)
  /\ \A k \in 1..Len(history) : history[k].index <= mIndex.index
  /\ Cardinality(allIndexUpdates(history)) \in 1..Len(IndexSteps)
  /\ mIndex.index = IndexSteps[Cardinality(allIndexUpdates(history))]

Building == {"validate", "earners", "claims", "collateral", "build"}

\* A run reads every earner once, so it builds at most one claim for each.
BotInv ==
  /\ pc \in Building \cup {"idle", "send", "confirm"}
  /\ ixs \in Seq(IxData) /\ ListOK(ixs)
  /\ pc \in Building => ixs # <<>> /\ IsSync(ixs[1])
  /\ pc \in Building \ {"claims", "collateral", "build"} => Len(ixs) = 1
  /\ todo \in Seq([earner : Earners, data : EarnerData])
  /\ pc = "claims" =>
       /\ \A j, k \in 1..Len(todo) : todo[j].earner = todo[k].earner => j = k
       /\ \A k \in 1..Len(todo) : ~ Claimed(ixs, Len(ixs), todo[k].earner)

TxnsInv ==
  /\ txns \in Seq(TxData)
  /\ \A i \in 1..Len(txns) : ListOK(txns[i].ixs)
  /\ pc # "send" => Unsent = {}

\* Claims that may still be executed.
Open == Unsent \cup InFlight

\* At most one claim of an earner may still be executed.
OneOpenClaim ==
  \A i, j \in Open : \A a \in Accounts :
    Claimed(txns[i].ixs, Len(txns[i].ixs), a) /\ Claimed(txns[j].ixs, Len(txns[j].ixs), a)
      => i = j

\* What is due to its earner covers the claim, executed at whatever index.
Owed(ix, due) ==
  LET since == earner[ix.earner].lastClaimIndex
  IN  /\ since < mIndex.index
      /\ Interest(ix.balance, mIndex.index, since) <= due[ix.earner]

AllOwed(list, due) == \A k \in 1..Len(list) : IsClaim(list[k]) => Owed(list[k], due)

With(due) == [a \in Accounts |-> balance[a] + due[a]]

\* The vault covers not only what is issued but all claims that were validated.
Covered(due) ==
  /\ Total(With(due)) <= Principal * mIndex.index
  /\ \A i \in Open : AllOwed(txns[i].ixs, due)
  /\ pc = "build" => AllOwed(ixs, due)

\* Claims are checked and split into transactions while none of another run is open.
Simulated == {"collateral", "build"}

CoverInv ==
  ~ crossed => /\ OneOpenClaim
               /\ pc \in Simulated => InFlight = {}
               /\ \E due \in [Accounts -> Nat] : Covered(due)
               /\ pc = "collateral" =>
                    \E due \in [Accounts -> Nat] : Total(due) = rewards /\ AllOwed(ixs, due)

Inv == ChainOK /\ HistoryInv /\ BotInv /\ TxnsInv /\ CoverInv

-----------------------------------------------------------------------------
(* What the chain and the database know of the index.                       *)

LEMMA DatabaseIs ==
  ASSUME HistoryInv
  PROVE  /\ RowsOK(db)
         /\ currentIndex(db).index \in Nat \ {0}
         /\ currentIndex(db).index <= mIndex.index
<1>1. /\ history \in Seq(RowData) /\ indexed \in 1..Len(history) /\ RowsOK(history)
      /\ \A k \in 1..Len(history) : history[k].index <= mIndex.index
  BY DEF HistoryInv
<1>2. Len(db) = indexed /\ \A k \in 1..indexed : db[k] = history[k] /\ k \in 1..Len(history)
  BY <1>1 DEF db
<1>3. RowsOK(db)
  BY <1>1, <1>2 DEF RowsOK
<1>4. PICK k \in 1..Len(db) : currentIndex(db) = db[k] /\ db[k].index \in Nat \ {0}
  BY <1>3, CurrentIndexIs
<1>. QED  BY <1>1, <1>2, <1>3, <1>4

LEMMA CurrentIndexAt ==
  ASSUME NEW rows, RowsOK(rows), NEW k \in 1..Len(rows), rows[k].index # 0,
         \A j \in (k + 1)..Len(rows) : rows[j].index = 0
  PROVE  currentIndex(rows) = rows[k]
<1>1. PICK n \in 1..Len(rows) : /\ currentIndex(rows) = rows[n]
                                /\ rows[n].index \in Nat \ {0}
                                /\ \A j \in (n + 1)..Len(rows) : rows[j].index = 0
  BY CurrentIndexIs
<1>2. Len(rows) \in Nat
  BY DEF RowsOK
<1>3. ~ (n < k) /\ ~ (k < n)
  <2>1. n < k => k \in (n + 1)..Len(rows)
    BY <1>2
  <2>2. k < n => n \in (k + 1)..Len(rows)
    BY <1>2
  <2>. QED  BY <1>1, <2>1, <2>2
<1>. QED  BY <1>1, <1>3

LEMMA RowIs ==
  ASSUME HistoryInv, NEW index \in Nat, NEW changed \in SUBSET Accounts,
         NEW held \in [Accounts -> Nat], Record(index, changed, held)
  PROVE  \E row \in RowData :
           /\ history' = Append(history, row) /\ row.index = index
           /\ clock' \in Nat /\ balance' = held /\ indexed' = indexed
           /\ RowsOK(history')
           /\ Len(history') = Len(history) + 1 /\ Len(history) \in Nat \ {0}
           /\ \A k \in 1..Len(history) : history'[k] = history[k]
           /\ history'[Len(history) + 1] = row
<1>1. PICK gap \in Gaps : /\ history' = Append(history, Row(index, clock + gap, changed, held))
                          /\ clock' = clock + gap /\ balance' = held /\ indexed' = indexed
  BY DEF Record
<1>2. clock + gap \in Nat
  BY BotAssumption DEF HistoryInv
<1>. DEFINE row == Row(index, clock + gap, changed, held)
<1>3. row \in RowData /\ row.index = index
  <2>1. [a \in changed |-> held[a]] \in UNION {[s -> Nat] : s \in SUBSET Accounts}
    <3>1. [a \in changed |-> held[a]] \in [changed -> Nat]
      OBVIOUS
    <3>. QED  BY <3>1
  <2>. QED  BY <1>2, <2>1 DEF Row, RowData
<1>. HIDE DEF row
<1>4. history \in Seq(RowData) /\ RowsOK(history)
  BY DEF HistoryInv
<1>5. /\ history' = Append(history, row)
      /\ Len(history') = Len(history) + 1 /\ Len(history) \in Nat \ {0}
      /\ \A k \in 1..Len(history) : history'[k] = history[k]
      /\ history'[Len(history) + 1] = row
  BY <1>1, <1>3, <1>4 DEF row, RowsOK
<1>6. RowOK(row)
  <2>1. /\ row.ts \in Nat /\ row.index \in Nat
        /\ row.post \in UNION {[s -> Nat] : s \in SUBSET Accounts}
    BY <1>3 DEF RowData
  <2>2. PICK s \in SUBSET Accounts : row.post \in [s -> Nat]
    BY <2>1
  <2>3. \A a \in DOMAIN row.post : row.post[a] \in Int
    BY <2>2
  <2>. QED  BY <2>1, <2>3 DEF RowOK
<1>7. RowsOK(history')
  <2>1. \A k \in 1..(Len(history) + 1) : k \in 1..Len(history) \/ k = Len(history) + 1
    BY <1>5
  <2>2. \A k \in 1..Len(history) : RowOK(history[k])
    BY <1>4 DEF RowsOK
  <2>3. history'[1].index # 0
    <3>1. 1 \in 1..Len(history)
      BY <1>5
    <3>2. history'[1] = history[1] /\ history[1].index # 0
      BY <1>4, <1>5, <3>1 DEF RowsOK
    <3>. QED  BY <3>2
  <2>4. \A k \in 1..(Len(history) + 1) : RowOK(history'[k])
    BY <1>5, <1>6, <2>1, <2>2
  <2>. QED  BY <1>5, <2>3, <2>4 DEF RowsOK
<1>. QED  BY <1>1, <1>2, <1>3, <1>5, <1>7

\* A row that changes only balances leaves the index where it is.
LEMMA RecordChange ==
  ASSUME HistoryInv, NEW changed \in SUBSET Accounts,
         NEW held \in [Accounts -> Nat], Record(0, changed, held)
  PROVE  HistoryInv' /\ mIndex' = mIndex /\ balance' = held
<1>1. PICK row \in RowData :
           /\ history' = Append(history, row) /\ row.index = 0
           /\ clock' \in Nat /\ balance' = held /\ indexed' = indexed
           /\ RowsOK(history')
           /\ Len(history') = Len(history) + 1 /\ Len(history) \in Nat \ {0}
           /\ \A k \in 1..Len(history) : history'[k] = history[k]
           /\ history'[Len(history) + 1] = row
  BY RowIs
<1>. DEFINE n == Len(history)
<1>2. PICK k \in 1..n : /\ currentIndex(history) = history[k]
                        /\ history[k].index \in Nat \ {0}
                        /\ \A j \in (k + 1)..n : history[j].index = 0
  BY CurrentIndexIs DEF HistoryInv
<1>3. \A j \in 1..(n + 1) : j \in 1..n \/ j = n + 1
  <2>1. n \in Nat
    BY <1>1
  <2>. QED  BY <2>1
<1>4. \A j \in (k + 1)..(n + 1) : history'[j].index = 0
  <2>1. \A j \in (k + 1)..(n + 1) : (j \in (k + 1)..n /\ j \in 1..n) \/ j = n + 1
    BY <1>1
  <2>. QED  BY <1>1, <1>2, <2>1
<1>5. mIndex' = mIndex
  <2>1. k \in 1..Len(history') /\ history'[k] = history[k] /\ history'[k].index # 0
    BY <1>1, <1>2
  <2>3. \A j \in (k + 1)..Len(history') : history'[j].index = 0
    BY <1>1, <1>4
  <2>4. RowsOK(history')
    BY <1>1
  <2>2. currentIndex(history') = history'[k]
    BY <2>1, <2>3, <2>4, CurrentIndexAt
  <2>. QED  BY <1>2, <2>1, <2>2 DEF mIndex
<1>6. allIndexUpdates(history') = allIndexUpdates(history)
  <2>1. \A j \in 1..(n + 1) : history'[j].index # 0 <=> j \in 1..n /\ history[j].index # 0
    BY <1>1, <1>3
  <2>2. 1..n \subseteq 1..(n + 1)
    BY <1>1
  <2>. QED  BY <1>1, <2>1, <2>2 DEF allIndexUpdates
<1>7. /\ history \in Seq(RowData) /\ indexed \in 1..n /\ mIndex.index \in Nat
      /\ \A j \in 1..n : history[j].index <= mIndex.index
  BY <1>2 DEF HistoryInv, mIndex
<1>8. history' \in Seq(RowData) /\ indexed' \in 1..Len(history')
  BY <1>1, <1>7
<1>9. \A j \in 1..Len(history') : history'[j].index <= mIndex'.index
  BY <1>1, <1>3, <1>5, <1>7
<1>10. /\ Cardinality(allIndexUpdates(history')) \in 1..Len(IndexSteps)
       /\ mIndex'.index = IndexSteps[Cardinality(allIndexUpdates(history'))]
  BY <1>5, <1>6 DEF HistoryInv
<1>11. HistoryInv'
  BY <1>1, <1>8, <1>9, <1>10 DEF HistoryInv
<1>. QED  BY <1>1, <1>5, <1>11

\* An update takes the next index of the feed, which is not smaller.
LEMMA RecordUpdate ==
  ASSUME HistoryInv, balance \in [Accounts -> Nat],
         Cardinality(allIndexUpdates(history)) < Len(IndexSteps),
         Record(IndexSteps[Cardinality(allIndexUpdates(history)) + 1], {}, balance)
  PROVE  /\ HistoryInv' /\ balance' = balance
         /\ mIndex.index \in Nat \ {0} /\ mIndex'.index \in Nat \ {0} /\ mIndex'.ts \in Nat
         /\ mIndex.index <= mIndex'.index
<1>. DEFINE n == Len(history)
            u == Cardinality(allIndexUpdates(history))
            index == IndexSteps[u + 1]
<1>1. /\ u \in Nat \ {0} /\ u + 1 \in 1..Len(IndexSteps) /\ u + 1 \in 2..Len(IndexSteps)
      /\ mIndex.index = IndexSteps[u] /\ u \in 1..Len(IndexSteps)
  BY BotAssumption DEF HistoryInv
<1>2. index \in Nat \ {0} /\ mIndex.index \in Nat \ {0}
  <2>. HIDE DEF u
  <2>. QED  BY <1>1, BotAssumption
<1>3. mIndex.index <= index
  <2>1. \A k \in 2..Len(IndexSteps) : IndexSteps[k - 1] <= IndexSteps[k]
    BY BotAssumption
  <2>2. (u + 1) - 1 = u
    BY <1>1
  <2>3. IndexSteps[(u + 1) - 1] <= IndexSteps[u + 1]
    <3>. HIDE DEF u
    <3>. QED  BY <1>1, <2>1
  <2>. HIDE DEF u
  <2>. QED  BY <1>1, <2>2, <2>3
<1>. HIDE DEF u, index
<1>4. PICK row \in RowData :
           /\ history' = Append(history, row) /\ row.index = index
           /\ clock' \in Nat /\ balance' = balance /\ indexed' = indexed
           /\ RowsOK(history')
           /\ Len(history') = Len(history) + 1 /\ Len(history) \in Nat \ {0}
           /\ \A k \in 1..Len(history) : history'[k] = history[k]
           /\ history'[Len(history) + 1] = row
  <2>1. Record(index, {}, balance)
    BY DEF index, u
  <2>. QED  BY <1>2, <2>1, RowIs
<1>5. \A j \in 1..(n + 1) : j \in 1..n \/ j = n + 1
  BY <1>4
<1>6. mIndex' = row
  <2>1. n + 1 \in 1..Len(history') /\ history'[n + 1].index # 0
    BY <1>2, <1>4
  <2>3. \A j \in (n + 1 + 1)..Len(history') : history'[j].index = 0
    BY <1>4
  <2>4. RowsOK(history')
    BY <1>4
  <2>2. currentIndex(history') = history'[n + 1]
    BY <2>1, <2>3, <2>4, CurrentIndexAt
  <2>. QED  BY <1>4, <2>2 DEF mIndex
<1>7. allIndexUpdates(history') = allIndexUpdates(history) \cup {n + 1}
  <2>1. \A j \in 1..n : j \in 1..(n + 1) /\ history'[j] = history[j]
    BY <1>4
  <2>2. n + 1 \in 1..(n + 1) /\ history'[n + 1].index # 0
    BY <1>2, <1>4
  <2>. QED  BY <1>4, <1>5, <2>1, <2>2 DEF allIndexUpdates
<1>8. Cardinality(allIndexUpdates(history')) = u + 1
  <2>1. allIndexUpdates(history) \subseteq 1..n /\ n \in Nat
    BY <1>4 DEF allIndexUpdates
  <2>2. IsFiniteSet(allIndexUpdates(history))
    <3>1. IsFiniteSet(1..n)
      BY <2>1, FS_Interval
    <3>. QED  BY <2>1, <3>1, FS_Subset
  <2>3. n + 1 \notin allIndexUpdates(history)
    BY <2>1
  <2>. QED  BY <1>7, <2>2, <2>3, FS_AddElement DEF u
<1>9. /\ history \in Seq(RowData) /\ indexed \in 1..n
      /\ \A j \in 1..n : history[j].index <= mIndex.index
  BY DEF HistoryInv
<1>10. history' \in Seq(RowData) /\ indexed' \in 1..Len(history')
  BY <1>4, <1>9
<1>11. \A j \in 1..Len(history') : history'[j].index <= mIndex'.index
  <2>1. \A j \in 1..n : history[j].index \in Nat
    BY DEF HistoryInv, RowsOK, RowOK
  <2>. QED  BY <1>2, <1>3, <1>4, <1>5, <1>6, <1>9, <2>1
<1>12. /\ Cardinality(allIndexUpdates(history')) \in 1..Len(IndexSteps)
       /\ mIndex'.index = IndexSteps[Cardinality(allIndexUpdates(history'))]
  BY <1>1, <1>4, <1>6, <1>8 DEF index
<1>13. HistoryInv'
  BY <1>4, <1>10, <1>11, <1>12 DEF HistoryInv
<1>14. mIndex'.ts \in Nat
  BY <1>6 DEF RowData
<1>. QED  BY <1>2, <1>3, <1>4, <1>6, <1>13, <1>14

-----------------------------------------------------------------------------
(* Steps of the bot that leave the transactions as they are.                *)

LEMMA UnchangedChain ==
  ASSUME ChainOK, HistoryInv, UNCHANGED <<history, clock, balance, global, earner>>,
         indexed' \in 1..Len(history)
  PROVE  mIndex' = mIndex /\ ChainOK' /\ HistoryInv'
<1>1. /\ history' = history /\ clock' = clock /\ balance' = balance
      /\ global' = global /\ earner' = earner
  OBVIOUS
<1>2. mIndex' = mIndex
  BY <1>1 DEF mIndex
<1>3. ChainOK'
  BY <1>1, <1>2 DEF ChainOK
<1>4. HistoryInv'
  BY <1>1, <1>2 DEF HistoryInv
<1>. QED  BY <1>2, <1>3, <1>4

\* Nothing new can be executed: what was covered still is.
LEMMA CoverKept ==
  ASSUME CoverInv, UNCHANGED <<balance, earner>>, mIndex' = mIndex, crossed => crossed',
         \A i \in Open' : i \in Open /\ txns'[i].ixs = txns[i].ixs,
         pc' \in Simulated =>
           pc = pc' /\ ixs' = ixs /\ rewards' = rewards /\ InFlight' \subseteq InFlight
  PROVE  CoverInv'
<1>1. SUFFICES ASSUME ~ crossed'
               PROVE  /\ OneOpenClaim'
                      /\ pc' \in Simulated => InFlight' = {}
                      /\ \E due \in [Accounts -> Nat] : Covered(due)'
                      /\ pc' = "collateral" => \E due \in [Accounts -> Nat] :
                           (Total(due) = rewards /\ AllOwed(ixs, due))'
  BY DEF CoverInv
<1>2. ~ crossed
  BY <1>1
<1>3. PICK due \in [Accounts -> Nat] : Covered(due)
  BY <1>2 DEF CoverInv
<1>4. OneOpenClaim'
  <2>1. OneOpenClaim
    BY <1>2 DEF CoverInv
  <2>. HIDE DEF Open
  <2>. QED  BY <2>1 DEF OneOpenClaim, Claimed
<1>5. pc' \in Simulated => InFlight' = {}
  BY <1>2 DEF CoverInv
<1>6. ASSUME NEW list, NEW owed, AllOwed(list, owed)  PROVE AllOwed(list, owed)'
  BY <1>6 DEF AllOwed, Owed
<1>7. Covered(due)'
  <2>1. Total(With(due)') <= Principal * mIndex'.index
    <3>1. With(due)' = With(due)
      BY DEF With
    <3>2. Total(With(due)) <= Principal * mIndex.index
      BY <1>3 DEF Covered
    <3>. QED  BY <3>1, <3>2
  <2>2. ASSUME NEW i \in Open'  PROVE AllOwed(txns[i].ixs, due)'
    <3>1. AllOwed(txns[i].ixs, due)
      BY <1>3, <2>2 DEF Covered
    <3>2. PICK list : list = txns[i].ixs
      OBVIOUS
    <3>3. list = txns'[i].ixs
      BY <2>2, <3>2
    <3>4. AllOwed(list, due)'
      BY <1>6, <3>1, <3>2
    <3>. QED  BY <3>3, <3>4 DEF AllOwed
  <2>3. ASSUME pc' = "build"  PROVE AllOwed(ixs, due)'
    <3>1. AllOwed(ixs, due)
      BY <1>3, <2>3 DEF Covered, Simulated
    <3>2. PICK list : list = ixs
      OBVIOUS
    <3>3. list = ixs'
      BY <2>3, <3>2 DEF Simulated
    <3>4. AllOwed(list, due)'
      BY <1>6, <3>1, <3>2
    <3>. QED  BY <3>3, <3>4 DEF AllOwed
  <2>4. Total(With(due))' <= Principal * mIndex'.index
    BY <2>1
  <2>. QED  BY <2>2, <2>3, <2>4 DEF Covered
<1>8. ASSUME pc' = "collateral"
      PROVE  \E owed \in [Accounts -> Nat] : (Total(owed) = rewards /\ AllOwed(ixs, owed))'
  <2>1. pc = "collateral" /\ ixs' = ixs /\ rewards' = rewards
    BY <1>8 DEF Simulated
  <2>2. PICK owed \in [Accounts -> Nat] : Total(owed) = rewards /\ AllOwed(ixs, owed)
    BY <1>2, <2>1 DEF CoverInv
  <2>3. PICK list : list = ixs
    OBVIOUS
  <2>4. AllOwed(list, owed)'
    BY <1>6, <2>2, <2>3
  <2>5. AllOwed(ixs, owed)'
    BY <2>1, <2>3, <2>4 DEF AllOwed
  <2>6. (Total(owed) = rewards /\ AllOwed(ixs, owed))'
    BY <2>1, <2>2, <2>5
  <2>. QED  BY <2>6
<1>. QED  BY <1>4, <1>5, <1>7, <1>8

\* A step of the bot before anything is built.
LEMMA BotStep ==
  ASSUME Inv, UNCHANGED <<chainVars, txns, crossed>>, pc # "send" \/ Unsent = {},
         BotInv', pc' \notin Simulated
  PROVE  Inv'
<1>1. ChainOK /\ HistoryInv /\ TxnsInv /\ CoverInv
  BY DEF Inv
<1>2. /\ UNCHANGED <<history, clock, balance, global, earner>> /\ indexed' = indexed
      /\ txns' = txns /\ crossed' = crossed
  BY DEF chainVars
<1>3. mIndex' = mIndex /\ ChainOK' /\ HistoryInv'
  BY <1>1, <1>2, UnchangedChain DEF HistoryInv
<1>4. Unsent' = Unsent /\ InFlight' = InFlight
  BY <1>2 DEF Unsent, InFlight
<1>5. TxnsInv'
  <2>1. Unsent' = {}
    BY <1>1, <1>4 DEF TxnsInv
  <2>2. txns \in Seq(TxData) /\ \A i \in 1..Len(txns) : ListOK(txns[i].ixs)
    BY <1>1 DEF TxnsInv
  <2>3. txns' \in Seq(TxData) /\ \A i \in 1..Len(txns') : ListOK(txns'[i].ixs)
    BY <1>2, <2>2
  <2>. QED  BY <2>1, <2>3 DEF TxnsInv
<1>6. CoverInv'
  <2>1. \A i \in Open' : i \in Open /\ txns'[i].ixs = txns[i].ixs
    BY <1>2, <1>4 DEF Open
  <2>. QED  BY <1>1, <1>2, <1>3, <2>1, CoverKept
<1>. QED  BY <1>3, <1>5, <1>6 DEF Inv

LEMMA ReportStep ==
  ASSUME Inv, UNCHANGED <<chainVars, txns, crossed>>, pc # "send", Report
  PROVE  Inv'
<1>1. pc' = "idle" /\ todo' = <<>> /\ ixs' = <<>>
  BY DEF Report
<1>2. Len(ixs') = 0 /\ ixs' \in Seq(IxData) /\ todo' \in Seq([earner : Earners, data : EarnerData])
  BY <1>1
<1>3. ListOK(ixs')
  BY <1>2 DEF ListOK
<1>4. BotInv'
  BY <1>1, <1>2, <1>3 DEF BotInv, Building
<1>. QED  BY <1>1, <1>4, BotStep DEF Simulated

LEMMA LoadStep ==
  ASSUME Inv, Load  PROVE Inv'
<1>1. /\ pc = "idle" /\ pc' = "validate" /\ ixs' = <<[op |-> "sync"]>> /\ todo' = todo
      /\ UNCHANGED <<chainVars, txns, crossed>>
  BY DEF Load
<1>2. Len(ixs') = 1 /\ ixs'[1].op = "sync" /\ ixs' \in Seq(IxData) /\ ixs' # <<>>
  <2>1. [op |-> "sync"] \in IxData
    BY DEF IxData
  <2>. QED  BY <1>1, <2>1
<1>3. IsSync(ixs'[1]) /\ ~ IsClaim(ixs'[1])
  BY <1>2 DEF IsSync, IsClaim
<1>4. ListOK(ixs')
  <2>1. \A k \in 1..Len(ixs') : k = 1
    BY <1>2
  <2>. QED  BY <1>2, <1>3, <2>1 DEF ListOK
<1>5. todo \in Seq([earner : Earners, data : EarnerData])
  BY DEF Inv, BotInv
<1>6. BotInv'
  BY <1>1, <1>2, <1>3, <1>4, <1>5 DEF BotInv, Building
<1>. QED  BY <1>1, <1>6, BotStep DEF Simulated

LEMMA ValidateStep ==
  ASSUME Inv, ValidateDatabaseData  PROVE Inv'
<1>1. pc = "validate" /\ UNCHANGED <<chainVars, txns, crossed>>
  BY DEF ValidateDatabaseData
<1>2. CASE Report
  BY <1>1, <1>2, ReportStep
<1>3. CASE Goto("earners") /\ UNCHANGED <<auth, todo, ixs, returnData>>
  <2>1. pc' = "earners" /\ todo' = todo /\ ixs' = ixs
    BY <1>3 DEF Goto
  <2>2. BotInv
    BY DEF Inv
  <2>3. BotInv'
    BY <1>1, <2>1, <2>2 DEF BotInv, Building, ListOK
  <2>. QED  BY <1>1, <2>1, <2>3, BotStep DEF Simulated
<1>. QED  BY <1>2, <1>3 DEF ValidateDatabaseData

LEMMA EarnersStep ==
  ASSUME Inv, GetAllEarners  PROVE Inv'
<1>1. /\ pc = "earners" /\ pc' = "claims" /\ ixs' = ixs
      /\ UNCHANGED <<chainVars, txns, crossed>>
  BY DEF GetAllEarners, Goto
<1>2. PICK s \in SetToSeqs(Earners) :
        todo' = [i \in DOMAIN s |-> [earner |-> s[i], data |-> earner[s[i]]]]
  BY DEF GetAllEarners
<1>. DEFINE n == Cardinality(Earners)
<1>3. n \in Nat
  BY BotAssumption, FS_CardinalityType
<1>4. s \in [1..n -> Earners] /\ \A j, k \in 1..n : j # k => s[j] # s[k]
  BY <1>2 DEF SetToSeqs
<1>5. earner \in [Earners -> EarnerData]
  BY DEF Inv, ChainOK
<1>. HIDE DEF n
<1>6. /\ todo' \in [1..n -> [earner : Earners, data : EarnerData]]
      /\ \A k \in 1..n : todo'[k].earner = s[k]
  BY <1>2, <1>4, <1>5
<1>7. todo' \in Seq([earner : Earners, data : EarnerData]) /\ Len(todo') = n
  <2>1. \A S : \A t \in [1..n -> S] : t \in Seq(S) /\ Len(t) = n
    BY <1>3
  <2>. QED  BY <1>6, <2>1
<1>8. BotInv
  BY DEF Inv
<1>9. /\ ixs \in Seq(IxData) /\ ListOK(ixs) /\ ixs # <<>> /\ IsSync(ixs[1]) /\ Len(ixs) = 1
  BY <1>1, <1>8 DEF BotInv, Building
<1>10. \A a : ~ Claimed(ixs, Len(ixs), a)
  BY <1>9 DEF Claimed, IsSync, IsClaim
<1>11. /\ \A j, k \in 1..Len(todo') : todo'[j].earner = todo'[k].earner => j = k
       /\ \A k \in 1..Len(todo') : ~ Claimed(ixs, Len(ixs), todo'[k].earner)
  BY <1>4, <1>6, <1>7, <1>10
<1>12. BotInv'
  <2>1. ListOK(ixs)' /\ \A a : Claimed(ixs, Len(ixs), a)' <=> Claimed(ixs, Len(ixs), a)
    BY <1>1, <1>9 DEF ListOK, Claimed
  <2>2. \A k \in 1..Len(todo') : ~ Claimed(ixs', Len(ixs'), todo'[k].earner)
    BY <1>1, <1>11
  <2>3. pc' \in Building /\ pc' \notin Building \ {"claims", "collateral", "build"}
    BY <1>1 DEF Building
  <2>. QED  BY <1>1, <1>7, <1>9, <1>11, <2>1, <2>2, <2>3 DEF BotInv
<1>. QED  BY <1>1, <1>12, BotStep DEF Simulated

\* The earner whose turn it is gets a claim or none.
LEMMA NextEarnerStep ==
  ASSUME Inv, UNCHANGED <<chainVars, txns, crossed>>, pc = "claims", todo # <<>>,
         NEW built, NextEarner(built),
         \/ built = ixs
         \/ \E claim \in IxData : /\ built = Append(ixs, claim) /\ IsClaim(claim)
                                  /\ claim.earner = Head(todo).earner
  PROVE  Inv'
<1>1. pc' = "claims" /\ ixs' = built /\ todo' = Tail(todo)
  BY DEF NextEarner, Goto
<1>2. /\ ixs \in Seq(IxData) /\ ListOK(ixs) /\ ixs # <<>> /\ IsSync(ixs[1])
      /\ todo \in Seq([earner : Earners, data : EarnerData])
      /\ \A j, k \in 1..Len(todo) : todo[j].earner = todo[k].earner => j = k
      /\ \A k \in 1..Len(todo) : ~ Claimed(ixs, Len(ixs), todo[k].earner)
  BY DEF Inv, BotInv, Building
<1>. DEFINE n == Len(ixs)
            m == Len(todo)
<1>3. n \in Nat \ {0} /\ m \in Nat \ {0} /\ Head(todo) = todo[1]
  BY <1>2
<1>4. /\ Tail(todo) \in Seq([earner : Earners, data : EarnerData])
      /\ Len(Tail(todo)) = m - 1
      /\ \A k \in 1..(m - 1) : Tail(todo)[k] = todo[k + 1]
  BY <1>2, HeadTailProperties
<1>5. \A k \in 1..(m - 1) : k + 1 \in 1..m /\ k + 1 # 1
  BY <1>3
<1>6. \A j, k \in 1..(m - 1) : Tail(todo)[j].earner = Tail(todo)[k].earner => j = k
  <2>1. \A j, k \in 1..(m - 1) : j + 1 = k + 1 => j = k
    OBVIOUS
  <2>. QED  BY <1>2, <1>4, <1>5, <2>1
<1>7. \A k \in 1..(m - 1) : /\ Tail(todo)[k].earner # todo[1].earner
                            /\ ~ Claimed(ixs, n, Tail(todo)[k].earner)
  <2>1. 1 \in 1..m
    BY <1>3
  <2>. QED  BY <1>2, <1>4, <1>5, <2>1
<1>8. /\ built \in Seq(IxData) /\ ListOK(built) /\ built # <<>> /\ IsSync(built[1])
      /\ \A k \in 1..(m - 1) : ~ Claimed(built, Len(built), Tail(todo)[k].earner)
  <2>1. CASE built = ixs
    BY <1>2, <1>7, <2>1
  <2>2. CASE built # ixs
    <3>1. PICK claim \in IxData : /\ built = Append(ixs, claim) /\ IsClaim(claim)
                                  /\ claim.earner = todo[1].earner
      BY <1>3, <2>2
    <3>2. /\ built \in Seq(IxData) /\ built # <<>> /\ Len(built) = n + 1
          /\ \A k \in 1..n : built[k] = ixs[k]
          /\ built[n + 1] = claim
      BY <1>2, <3>1, AppendProperties
    <3>3. \A k \in 1..(n + 1) : k \in 1..n \/ k = n + 1
      BY <1>3
    <3>4. \A k \in 1..n : ~ (IsClaim(ixs[k]) /\ ixs[k].earner = claim.earner)
      <4>1. 1 \in 1..m
        BY <1>3
      <4>2. ~ Claimed(ixs, n, todo[1].earner)
        BY <1>2, <4>1
      <4>. QED  BY <3>1, <4>2 DEF Claimed
    <3>5. ListOK(built)
      <4>1. /\ n \in Nat /\ \A k \in 1..n : IsSync(ixs[k]) \/ IsClaim(ixs[k])
            /\ \A j, k \in 1..n :
                 IsClaim(ixs[j]) /\ IsClaim(ixs[k]) /\ ixs[j].earner = ixs[k].earner => j = k
        BY <1>2 DEF ListOK
      <4>2. n + 1 \in Nat /\ \A k \in 1..(n + 1) : IsSync(built[k]) \/ IsClaim(built[k])
        BY <3>1, <3>2, <3>3, <4>1
      <4>3. ASSUME NEW j \in 1..(n + 1), NEW k \in 1..(n + 1),
                   IsClaim(built[j]), IsClaim(built[k]), built[j].earner = built[k].earner
            PROVE  j = k
        <5>1. CASE j \in 1..n /\ k \in 1..n
          BY <3>2, <4>1, <4>3, <5>1
        <5>2. CASE ~ (j \in 1..n /\ k \in 1..n)
          BY <3>2, <3>3, <3>4, <4>3, <5>2
        <5>. QED  BY <5>1, <5>2
      <4>. QED  BY <3>2, <4>2, <4>3 DEF ListOK
    <3>6. IsSync(built[1])
      BY <1>2, <1>3, <3>2
    <3>7. ASSUME NEW k \in 1..(m - 1)
          PROVE  ~ Claimed(built, n + 1, Tail(todo)[k].earner)
      <4>1. /\ Tail(todo)[k].earner # claim.earner
            /\ ~ Claimed(ixs, n, Tail(todo)[k].earner)
        BY <1>7, <3>1
      <4>. QED  BY <3>2, <3>3, <4>1 DEF Claimed
    <3>. QED  BY <3>2, <3>5, <3>6, <3>7
  <2>. QED  BY <2>1, <2>2
<1>9. /\ \A j, k \in 1..Len(todo') : todo'[j].earner = todo'[k].earner => j = k
      /\ \A k \in 1..Len(todo') : ~ Claimed(ixs', Len(ixs'), todo'[k].earner)
  BY <1>1, <1>4, <1>6, <1>8
<1>10. BotInv'
  <2>1. pc' \in Building /\ pc' \notin Building \ {"claims", "collateral", "build"}
    BY <1>1 DEF Building
  <2>2. /\ ixs' \in Seq(IxData) /\ ListOK(ixs') /\ ixs' # <<>> /\ IsSync(ixs'[1])
        /\ todo' \in Seq([earner : Earners, data : EarnerData])
    BY <1>1, <1>4, <1>8
  <2>. QED  BY <1>9, <2>1, <2>2 DEF BotInv
<1>. QED  BY <1>1, <1>10, BotStep DEF Simulated

LEMMA ClaimStep ==
  ASSUME Inv, BuildClaim  PROVE Inv'
<1>. DEFINE next == Head(todo)
            claim == ClaimBalance(db, next.earner, next.data)
            ix == [op |-> "claim", earner |-> next.earner, balance |-> claim,
                   from |-> next.data.lastClaimIndex, to |-> currentIndex(db).index]
<1>1. pc = "claims" /\ todo # <<>> /\ UNCHANGED <<chainVars, txns, crossed>>
  BY DEF BuildClaim
<1>2. CASE Report
  BY <1>1, <1>2, ReportStep
<1>3. CASE NextEarner(ixs)
  BY <1>1, <1>3, NextEarnerStep
<1>4. CASE ~ AlreadyClaimed(db, next.data) /\ ~ (claim <= 0) /\ NextEarner(Append(ixs, ix))
  <2>1. HistoryInv /\ todo \in Seq([earner : Earners, data : EarnerData])
    BY DEF Inv, BotInv
  <2>2. next \in [earner : Earners, data : EarnerData]
    BY <1>1, <2>1, HeadTailProperties
  <2>3. next.earner \in Earners /\ next.data.lastClaimIndex \in Nat \ {0}
    BY <2>2 DEF EarnerData
  <2>4. RowsOK(db) /\ currentIndex(db).index \in Nat
    BY <2>1, DatabaseIs
  <2>5. claim \in Int
    <3>. HIDE DEF next
    <3>. QED  BY <1>4, <2>3, <2>4, ClaimBalanceIsInt
  <2>6. claim \in Nat
    <3>. HIDE DEF claim
    <3>. QED  BY <1>4, <2>5
  <2>. HIDE DEF claim, next
  <2>7. ix \in IxData /\ IsClaim(ix) /\ ix.earner = next.earner
    BY <2>3, <2>4, <2>6 DEF IxData, IsClaim
  <2>. HIDE DEF ix
  <2>8. ix.earner = Head(todo).earner
    BY <2>7 DEF next
  <2>. QED  BY <1>1, <1>4, <2>7, <2>8, NextEarnerStep
<1>. QED  BY <1>2, <1>3, <1>4 DEF BuildClaim

-----------------------------------------------------------------------------
(* The check of the claims, and their transactions.                         *)

\* What was simulated is due.
LEMMA SimulatedIsDue ==
  ASSUME ChainOK, ListOK(ixs), IsSync(ixs[1]), Executed(ixs).ok
  PROVE  \E due \in [Accounts -> Nat] :
           /\ Total(due) = Total(Executed(ixs).balance) - Total(balance)
           /\ AllOwed(ixs, due)
<1>. DEFINE after == Executed(ixs)
            due == [a \in Accounts |-> after.balance[a] - balance[a]]
<1>1. after \in TxState /\ Pays(ixs, after)
  BY ExecutedPays
<1>2. after.balance \in [Accounts -> Int] /\ balance \in [Accounts -> Nat]
  BY <1>1 DEF TxState, ChainOK
<1>3. /\ earner \in [Earners -> EarnerData] /\ mIndex.index \in Nat \ {0}
  BY DEF ChainOK
<1>4. after.ok
  OBVIOUS
<1>. HIDE DEF after
<1>5. ASSUME NEW j \in 1..Len(ixs), IsClaim(ixs[j])
      PROVE  LET e == ixs[j].earner
                 since == earner[e].lastClaimIndex
                 paid == Interest(ixs[j].balance, mIndex.index, since)
             IN  /\ since < mIndex.index /\ paid \in Nat
                 /\ after.balance[e] = balance[e] + paid
  <2>. DEFINE e == ixs[j].earner
              since == earner[e].lastClaimIndex
  <2>1. PICK g \in Nat : /\ since < g /\ g = mIndex.index
                         /\ after.balance[e] = balance[e] + Interest(ixs[j].balance, g, since)
    BY <1>1, <1>4, <1>5 DEF Pays
  <2>2. since \in Nat \ {0} /\ ixs[j].balance \in Nat
    BY <1>3, <1>5 DEF IsClaim, EarnerData
  <2>3. Interest(ixs[j].balance, g, since) \in Nat
    <3>. HIDE DEF since
    <3>1. since <= g /\ g <= g
      BY <2>1, <2>2
    <3>. QED  BY <2>1, <2>2, <3>1, InterestGrows
  <2>. QED  BY <2>1, <2>3
<1>6. ASSUME NEW a \in Accounts
      PROVE  after.balance[a] - balance[a] \in Nat
  <2>1. CASE Claimed(ixs, Len(ixs), a)
    <3>1. PICK j \in 1..Len(ixs) : IsClaim(ixs[j]) /\ ixs[j].earner = a
      BY <2>1 DEF Claimed
    <3>2. PICK paid \in Nat : after.balance[a] = balance[a] + paid
      BY <1>5, <3>1
    <3>. QED  BY <1>2, <3>2
  <2>2. CASE ~ Claimed(ixs, Len(ixs), a)
    <3>1. after.balance[a] = balance[a]
      BY <1>1, <2>2 DEF Pays
    <3>. QED  BY <1>2, <3>1
  <2>. QED  BY <2>1, <2>2
<1>7. due \in [Accounts -> Nat]
  BY <1>6
<1>9. Total(due) = Total(after.balance) - Total(balance)
  <2>1. balance \in [Accounts -> Int] /\ due \in [Accounts -> Int]
    BY <1>2, <1>7
  <2>2. \A a \in Accounts : after.balance[a] = balance[a] + due[a]
    BY <1>2
  <2>. HIDE DEF due
  <2>3. Total(after.balance) = Total(balance) + Total(due)
    BY <1>2, <2>1, <2>2, TotalAdds
  <2>4. Total(balance) \in Int /\ Total(due) \in Int
    BY <2>1, SumIs, SumType
  <2>. QED  BY <2>3, <2>4
<1>10. ASSUME NEW j \in 1..Len(ixs), IsClaim(ixs[j])
       PROVE  Owed(ixs[j], due)
  <2>. DEFINE e == ixs[j].earner
              paid == Interest(ixs[j].balance, mIndex.index, earner[e].lastClaimIndex)
  <2>1. e \in Accounts
    BY <1>10 DEF IsClaim, Accounts
  <2>2. /\ earner[e].lastClaimIndex < mIndex.index /\ paid \in Nat
        /\ after.balance[e] = balance[e] + paid
    BY <1>5, <1>10
  <2>3. due[e] = paid /\ due[e] \in Nat
    <3>1. due[e] = after.balance[e] - balance[e] /\ balance[e] \in Nat
      BY <1>2, <2>1
    <3>. HIDE DEF due, paid
    <3>. QED  BY <2>2, <3>1
  <2>. HIDE DEF due
  <2>. QED  BY <2>2, <2>3 DEF Owed
<1>. HIDE DEF due
<1>. QED  BY <1>7, <1>9, <1>10 DEF AllOwed, after

\* A step from one phase of a run to the next, none of another run being open.
LEMMA PhaseStep ==
  ASSUME Inv, UNCHANGED <<chainVars, txns, ixs, todo>>, pc \in {"claims", "collateral"},
         pc' \in Simulated, crossed => crossed', ~ crossed' => InFlight = {},
         ~ crossed' /\ pc' = "collateral" =>
           \E due \in [Accounts -> Nat] : Total(due) = rewards' /\ AllOwed(ixs, due),
         ~ crossed' /\ pc' = "build" =>
           \E due \in [Accounts -> Nat] :
             Total(With(due)) <= Principal * mIndex.index /\ AllOwed(ixs, due)
  PROVE  Inv'
<1>1. /\ ixs' = ixs /\ todo' = todo /\ txns' = txns
      /\ UNCHANGED <<history, clock, balance, global, earner>> /\ indexed' = indexed
  BY DEF chainVars
<1>2. ChainOK /\ HistoryInv /\ BotInv /\ TxnsInv /\ CoverInv
  BY DEF Inv
<1>3. mIndex' = mIndex /\ ChainOK' /\ HistoryInv'
  BY <1>1, <1>2, UnchangedChain DEF HistoryInv
<1>4. ixs \in Seq(IxData) /\ ListOK(ixs) /\ ixs # <<>> /\ IsSync(ixs[1])
  BY <1>2 DEF BotInv, Building
<1>5. BotInv'
  <2>1. /\ pc' \in Building /\ pc' \notin Building \ {"claims", "collateral", "build"}
        /\ pc' # "claims"
    BY DEF Building, Simulated
  <2>2. ListOK(ixs') /\ todo' \in Seq([earner : Earners, data : EarnerData])
    BY <1>1, <1>2, <1>4 DEF BotInv
  <2>. QED  BY <1>1, <1>4, <2>1, <2>2 DEF BotInv
<1>6. Unsent' = Unsent /\ InFlight' = InFlight /\ Unsent = {}
  <2>1. pc # "send"
    OBVIOUS
  <2>. QED  BY <1>1, <1>2, <2>1 DEF Unsent, InFlight, TxnsInv
<1>7. TxnsInv'
  <2>1. txns \in Seq(TxData) /\ \A i \in 1..Len(txns) : ListOK(txns[i].ixs)
    BY <1>2 DEF TxnsInv
  <2>2. txns' \in Seq(TxData) /\ \A i \in 1..Len(txns') : ListOK(txns'[i].ixs)
    BY <1>1, <2>1
  <2>. QED  BY <1>6, <2>2 DEF TxnsInv
<1>8. \A due : AllOwed(ixs, due) => AllOwed(ixs, due)'
  BY <1>1, <1>3 DEF AllOwed, Owed
<1>9. \A due : With(due)' = With(due)
  BY <1>1 DEF With
<1>10. ASSUME ~ crossed'
       PROVE  /\ OneOpenClaim'
              /\ InFlight' = {}
              /\ \E due \in [Accounts -> Nat] : Covered(due)'
              /\ pc' = "collateral" => \E due \in [Accounts -> Nat] :
                   (Total(due) = rewards /\ AllOwed(ixs, due))'
  <2>1. ~ crossed /\ InFlight = {} /\ Open' = {}
    BY <1>6, <1>10 DEF Open
  <2>2. OneOpenClaim'
    BY <2>1 DEF OneOpenClaim
  <2>3. PICK due \in [Accounts -> Nat] :
          /\ Total(With(due)) <= Principal * mIndex.index
          /\ pc' = "build" => AllOwed(ixs, due)
    <3>1. CASE pc' = "build"
      BY <1>10, <3>1
    <3>2. CASE pc' # "build"
      <4>1. PICK due \in [Accounts -> Nat] : Covered(due)
        BY <1>2, <2>1 DEF CoverInv
      <4>. QED  BY <3>2, <4>1 DEF Covered
    <3>. QED  BY <3>1, <3>2
  <2>4. Covered(due)'
    <3>1. With(due)' = With(due)
      BY <1>9
    <3>2. Total(With(due))' <= Principal * mIndex'.index
      BY <1>3, <2>3, <3>1
    <3>3. pc' = "build" => AllOwed(ixs, due)'
      BY <1>8, <2>3
    <3>. QED  BY <2>1, <3>2, <3>3 DEF Covered
  <2>5. ASSUME pc' = "collateral"
        PROVE  \E owed \in [Accounts -> Nat] : (Total(owed) = rewards /\ AllOwed(ixs, owed))'
    <3>1. PICK owed \in [Accounts -> Nat] : Total(owed) = rewards' /\ AllOwed(ixs, owed)
      BY <1>10, <2>5
    <3>2. AllOwed(ixs, owed)'
      BY <1>8, <3>1
    <3>3. (Total(owed) = rewards /\ AllOwed(ixs, owed))'
      BY <3>1, <3>2
    <3>. QED  BY <3>3
  <2>. QED  BY <1>6, <2>1, <2>2, <2>4, <2>5
<1>11. CoverInv'
  BY <1>10 DEF CoverInv
<1>. QED  BY <1>3, <1>5, <1>7, <1>11 DEF Inv

LEMMA SimulateStep ==
  ASSUME Inv, Simulate  PROVE Inv'
<1>1. pc = "claims" /\ UNCHANGED <<chainVars, txns>>
  BY DEF Simulate
<1>2. ChainOK /\ BotInv /\ TxnsInv /\ CoverInv
  BY DEF Inv
<1>3. ixs \in Seq(IxData) /\ ListOK(ixs) /\ ixs # <<>> /\ IsSync(ixs[1])
  BY <1>1, <1>2 DEF BotInv, Building
<1>4. CASE Report /\ UNCHANGED crossed
  BY <1>1, <1>4, ReportStep
<1>5. CASE /\ Claims = <<>> /\ pc' = "build" /\ crossed' = (crossed \/ Pending)
           /\ UNCHANGED <<todo, ixs>>
  <2>1. Len(ixs) = 1
    <3>1. /\ Tail(ixs) \in Seq(IxData) /\ Len(Tail(ixs)) = Len(ixs) - 1
          /\ Len(ixs) \in Nat
      BY <1>3, HeadTailProperties
    <3>2. Tail(ixs) = <<>>
      BY <1>5 DEF Claims
    <3>3. PICK claims : claims = Tail(ixs)
      OBVIOUS
    <3>4. claims = <<>> /\ Len(claims) = Len(ixs) - 1
      BY <3>1, <3>2, <3>3
    <3>5. Len(claims) = 0
      BY <3>4
    <3>6. Len(claims) = Len(ixs) - 1 /\ Len(ixs) \in Nat
      BY <3>1, <3>4
    <3>. QED  BY <3>5, <3>6
  <2>2. \A due : AllOwed(ixs, due)
    BY <1>3, <2>1 DEF AllOwed, IsSync, IsClaim
  <2>3. ASSUME ~ crossed'
        PROVE  /\ InFlight = {}
               /\ \E due \in [Accounts -> Nat] :
                    Total(With(due)) <= Principal * mIndex.index /\ AllOwed(ixs, due)
    <3>1. ~ crossed /\ InFlight = {}
      BY <1>5, <2>3 DEF Pending
    <3>2. PICK due \in [Accounts -> Nat] : Covered(due)
      BY <1>2, <3>1 DEF CoverInv
    <3>. QED  BY <2>2, <3>1, <3>2 DEF Covered
  <2>4. pc' \in Simulated /\ pc' # "collateral" /\ (crossed => crossed')
    BY <1>5 DEF Simulated
  <2>. QED  BY <1>1, <1>5, <2>3, <2>4, PhaseStep
<1>6. CASE /\ Executed(ixs).ok /\ pc' = "collateral" /\ crossed' = (crossed \/ Pending)
           /\ rewards' = Total(Executed(ixs).balance) - Total(balance)
           /\ UNCHANGED <<todo, ixs>>
  <2>1. \E due \in [Accounts -> Nat] : Total(due) = rewards' /\ AllOwed(ixs, due)
    BY <1>2, <1>3, <1>6, SimulatedIsDue
  <2>2. /\ pc' \in Simulated /\ pc' # "build" /\ (crossed => crossed')
        /\ ~ crossed' => InFlight = {}
    BY <1>6 DEF Simulated, Pending
  <2>. QED  BY <1>1, <1>6, <2>1, <2>2, PhaseStep
<1>. QED  BY <1>4, <1>5, <1>6 DEF Simulate, Goto

LEMMA CollateralStep ==
  ASSUME Inv, ValidateClaims  PROVE Inv'
<1>1. pc = "collateral" /\ UNCHANGED <<chainVars, txns, crossed>>
  BY DEF ValidateClaims
<1>2. ChainOK /\ HistoryInv /\ CoverInv
  BY DEF Inv
<1>3. CASE Report
  BY <1>1, <1>3, ReportStep
<1>4. CASE ~ ExceedsCollateral /\ pc' = "build" /\ UNCHANGED <<todo, ixs>>
  <2>1. ASSUME ~ crossed
        PROVE  \E due \in [Accounts -> Nat] :
                 Total(With(due)) <= Principal * mIndex.index /\ AllOwed(ixs, due)
    <3>1. PICK due \in [Accounts -> Nat] : Total(due) = rewards /\ AllOwed(ixs, due)
      BY <1>1, <1>2, <2>1 DEF CoverInv
    <3>2. /\ balance \in [Accounts -> Int] /\ due \in [Accounts -> Int]
          /\ With(due) \in [Accounts -> Int]
          /\ \A a \in Accounts : With(due)[a] = balance[a] + due[a]
      BY <1>2 DEF ChainOK, With
    <3>3. Total(With(due)) = Total(balance) + rewards
      BY <3>1, <3>2, TotalAdds
    <3>4. Total(With(due)) \in Int
      BY <3>2, SumIs, SumType
    <3>5. /\ currentIndex(db).index \in Nat /\ currentIndex(db).index <= mIndex.index
          /\ mIndex.index \in Nat /\ Principal \in Nat
      BY <1>2, BotAssumption, DatabaseIs DEF ChainOK
    <3>6. Principal * currentIndex(db).index <= Principal * mIndex.index
      BY <3>5, ProductMonotone
    <3>7. \A p, i \in Nat : p * i \in Nat
      OBVIOUS
    <3>8. ~ (Total(With(due)) > Principal * currentIndex(db).index)
      BY <1>4, <3>3 DEF ExceedsCollateral
    <3>9. Total(With(due)) <= Principal * mIndex.index
      <4>1. /\ Principal * currentIndex(db).index \in Nat
            /\ Principal * mIndex.index \in Nat
        BY <3>5, <3>7
      <4>. QED  BY <3>4, <3>6, <3>8, <4>1
    <3>. QED  BY <3>1, <3>9
  <2>2. /\ pc' \in Simulated /\ pc' # "collateral" /\ crossed' = crossed
        /\ ~ crossed => InFlight = {}
    BY <1>1, <1>2, <1>4 DEF Simulated, CoverInv
  <2>. QED  BY <1>1, <1>4, <2>1, <2>2, PhaseStep
<1>. QED  BY <1>3, <1>4 DEF ValidateClaims, Goto

LEMMA BatchesAre ==
  ASSUME ixs \in Seq(IxData)
  PROVE  \E n \in Nat :
           /\ DOMAIN Batches = 1..n
           /\ \A k \in 1..n :
                /\ Batches[k] \in Seq(IxData)
                /\ \A p \in 1..Len(Batches[k]) :
                     /\ p <= BatchSize /\ (k - 1) * BatchSize + p \in 1..Len(ixs)
                     /\ Batches[k][p] = ixs[(k - 1) * BatchSize + p]
<1>. DEFINE size == Len(ixs)
            n == (size + BatchSize - 1) \div BatchSize
<1>1. size \in Nat /\ BatchSize \in Nat \ {0}
  BY BotAssumption
<1>2. n \in Nat
  <2>1. size + BatchSize - 1 \in Nat
    BY <1>1
  <2>. QED  BY <1>1, <2>1, Divided
<1>. HIDE DEF n
<1>3. Batches = [k \in 1..n |->
                   SubSeq(ixs, (k - 1) * BatchSize + 1, Min({k * BatchSize, size}))]
  BY DEF Batches, n
<1>4. ASSUME NEW k \in 1..n
      PROVE  /\ Batches[k] \in Seq(IxData)
             /\ \A p \in 1..Len(Batches[k]) :
                  /\ p <= BatchSize /\ (k - 1) * BatchSize + p \in 1..size
                  /\ Batches[k][p] = ixs[(k - 1) * BatchSize + p]
  <2>. DEFINE before == (k - 1) * BatchSize
              last == Min({k * BatchSize, size})
  <2>1. before \in Nat /\ k * BatchSize = before + BatchSize
    <3>1. k \in Nat \ {0}
      BY <1>2
    <3>2. \A j \in Nat \ {0}, b \in Nat : (j - 1) * b \in Nat /\ j * b = (j - 1) * b + b
      OBVIOUS
    <3>. QED  BY <1>1, <3>1, <3>2
  <2>2. k * BatchSize \in Nat /\ k * BatchSize + size \in Nat
    BY <1>1, <2>1
  <2>3. last \in {k * BatchSize, size} /\ \A j \in {k * BatchSize, size} : last <= j
    <3>. DEFINE T == {k * BatchSize, size}
    <3>1. T \in SUBSET (0..(k * BatchSize + size)) /\ T # {}
      BY <1>1, <2>2
    <3>. HIDE DEF T
    <3>2. Min(T) \in T /\ \A j \in T : Min(T) <= j
      BY <2>2, <3>1, GreatestOf
    <3>. QED  BY <3>2 DEF T
  <2>. HIDE DEF last, before
  <2>4. last \in Nat /\ last <= size /\ last <= before + BatchSize
    BY <1>1, <2>1, <2>2, <2>3
  <2>5. Batches[k] = SubSeq(ixs, before + 1, last)
    BY <1>3 DEF before, last
  <2>6. \A i \in (before + 1)..last : ixs[i] \in IxData
    <3>1. \A i \in (before + 1)..last : i \in 1..size
      BY <1>1, <2>1, <2>4
    <3>. QED  BY <3>1
  <2>7. /\ Batches[k] \in Seq(IxData)
        /\ Len(Batches[k]) = IF before + 1 <= last THEN last - (before + 1) + 1 ELSE 0
        /\ \A i \in 1..(last - (before + 1) + 1) : Batches[k][i] = ixs[before + 1 + i - 1]
    <3>1. before + 1 \in Int /\ last \in Int
      BY <2>1, <2>4
    <3>. QED  BY <2>5, <2>6, <3>1, SubSeqProperties
  <2>8. ASSUME NEW p \in 1..Len(Batches[k])
        PROVE  /\ p <= BatchSize /\ before + p \in 1..size
               /\ Batches[k][p] = ixs[before + p]
    <3>1. before + 1 <= last /\ p \in 1..(last - before)
      BY <2>1, <2>4, <2>7
    <3>2. p <= BatchSize /\ before + p \in 1..size
      BY <1>1, <2>1, <2>4, <3>1
    <3>3. last - (before + 1) + 1 = last - before /\ before + 1 + p - 1 = before + p
      BY <2>1, <2>4, <3>1
    <3>4. Batches[k][p] = ixs[before + 1 + p - 1]
      BY <2>7, <3>1, <3>3
    <3>. QED  BY <3>2, <3>3, <3>4
  <2>. QED  BY <2>7, <2>8 DEF before
<1>5. DOMAIN Batches = 1..n
  BY <1>3
<1>. QED  BY <1>2, <1>4, <1>5

\* No instruction is in two batches.
LEMMA BatchesApart ==
  ASSUME NEW j \in Nat \ {0}, NEW k \in Nat \ {0}, NEW p \in Nat \ {0}, NEW q \in Nat \ {0},
         p <= BatchSize, q <= BatchSize,
         (j - 1) * BatchSize + p = (k - 1) * BatchSize + q
  PROVE  j = k /\ p = q
<1>1. BatchSize \in Nat \ {0}
  BY BotAssumption
<1>2. ASSUME NEW c \in Nat \ {0}, NEW d \in Nat \ {0}, NEW r \in Nat \ {0}, NEW s \in Nat \ {0},
             r <= BatchSize, c < d
      PROVE  (c - 1) * BatchSize + r < (d - 1) * BatchSize + s
  <2>1. c \in Nat /\ d - 1 \in Nat /\ c <= d - 1
    BY <1>2
  <2>2. c * BatchSize <= (d - 1) * BatchSize
    BY <1>1, <2>1, ProductMonotone
  <2>3. \A b \in Nat : c * b = (c - 1) * b + b /\ (c - 1) * b \in Int /\ (d - 1) * b \in Int
    BY <2>1
  <2>. QED  BY <1>1, <1>2, <2>2, <2>3
<1>3. j = k
  <2>1. ~ (j < k)
    <3>1. j < k => (j - 1) * BatchSize + p < (k - 1) * BatchSize + q
      BY <1>2
    <3>2. \A b \in Nat : (j - 1) * b \in Int /\ (k - 1) * b \in Int
      OBVIOUS
    <3>. QED  BY <1>1, <3>1, <3>2
  <2>2. ~ (k < j)
    <3>1. k < j => (k - 1) * BatchSize + q < (j - 1) * BatchSize + p
      BY <1>2
    <3>2. \A b \in Nat : (j - 1) * b \in Int /\ (k - 1) * b \in Int
      OBVIOUS
    <3>. QED  BY <1>1, <3>1, <3>2
  <2>. QED  BY <2>1, <2>2
<1>4. p = q
  <2>1. \A b \in Nat : (k - 1) * b \in Int
    OBVIOUS
  <2>2. (k - 1) * BatchSize \in Int
    BY <1>1, <2>1
  <2>. QED  BY <1>3, <2>2
<1>. QED  BY <1>3, <1>4

\* Each batch is in order, and no two claim for the same earner.
LEMMA BatchesOK ==
  ASSUME ixs \in Seq(IxData), ListOK(ixs)
  PROVE  \E n \in Nat :
           /\ DOMAIN Batches = 1..n
           /\ \A k \in 1..n :
                /\ Batches[k] \in Seq(IxData) /\ ListOK(Batches[k])
                /\ \A p \in 1..Len(Batches[k]) : \E i \in 1..Len(ixs) : Batches[k][p] = ixs[i]
           /\ \A j, k \in 1..n : \A a :
                /\ Claimed(Batches[j], Len(Batches[j]), a)
                /\ Claimed(Batches[k], Len(Batches[k]), a)
                => j = k
<1>1. PICK n \in Nat :
        /\ DOMAIN Batches = 1..n
        /\ \A k \in 1..n :
             /\ Batches[k] \in Seq(IxData)
             /\ \A p \in 1..Len(Batches[k]) :
                  /\ p <= BatchSize /\ (k - 1) * BatchSize + p \in 1..Len(ixs)
                  /\ Batches[k][p] = ixs[(k - 1) * BatchSize + p]
  BY BatchesAre
<1>2. ASSUME NEW j \in 1..n, NEW k \in 1..n,
             NEW p \in 1..Len(Batches[j]), NEW q \in 1..Len(Batches[k]),
             IsClaim(Batches[j][p]), IsClaim(Batches[k][q]),
             Batches[j][p].earner = Batches[k][q].earner
      PROVE  j = k /\ p = q
  <2>. DEFINE at == (j - 1) * BatchSize + p
              at2 == (k - 1) * BatchSize + q
  <2>1. /\ p <= BatchSize /\ q <= BatchSize /\ at \in 1..Len(ixs) /\ at2 \in 1..Len(ixs)
        /\ Batches[j][p] = ixs[at] /\ Batches[k][q] = ixs[at2]
    BY <1>1
  <2>2. at = at2
    <3>. HIDE DEF at, at2
    <3>. QED  BY <1>2, <2>1 DEF ListOK
  <2>3. /\ j \in Nat \ {0} /\ k \in Nat \ {0} /\ p \in Nat \ {0} /\ q \in Nat \ {0}
    <3>1. Len(Batches[j]) \in Nat /\ Len(Batches[k]) \in Nat
      BY <1>1
    <3>. QED  BY <3>1
  <2>. QED  BY <2>1, <2>2, <2>3, BatchesApart
<1>3. ASSUME NEW k \in 1..n  PROVE ListOK(Batches[k])
  <2>1. Len(Batches[k]) \in Nat
    BY <1>1
  <2>2. \A p \in 1..Len(Batches[k]) : IsSync(Batches[k][p]) \/ IsClaim(Batches[k][p])
    BY <1>1 DEF ListOK
  <2>3. \A p, q \in 1..Len(Batches[k]) :
          /\ IsClaim(Batches[k][p]) /\ IsClaim(Batches[k][q])
          /\ Batches[k][p].earner = Batches[k][q].earner
          => p = q
    BY <1>2
  <2>. QED  BY <2>1, <2>2, <2>3 DEF ListOK
<1>4. ASSUME NEW j \in 1..n, NEW k \in 1..n, NEW a,
             Claimed(Batches[j], Len(Batches[j]), a), Claimed(Batches[k], Len(Batches[k]), a)
      PROVE  j = k
  <2>1. PICK p \in 1..Len(Batches[j]) : IsClaim(Batches[j][p]) /\ Batches[j][p].earner = a
    BY <1>4 DEF Claimed
  <2>2. PICK q \in 1..Len(Batches[k]) : IsClaim(Batches[k][q]) /\ Batches[k][q].earner = a
    BY <1>4 DEF Claimed
  <2>. QED  BY <1>2, <2>1, <2>2
<1>5. \A k \in 1..n : \A p \in 1..Len(Batches[k]) : \E i \in 1..Len(ixs) : Batches[k][p] = ixs[i]
  BY <1>1
<1>. QED  BY <1>1, <1>3, <1>4, <1>5

LEMMA BuildStep ==
  ASSUME Inv, BuildTransactions  PROVE Inv'
<1>1. /\ pc = "build" /\ pc' = "send" /\ ixs' = ixs /\ todo' = todo /\ crossed' = crossed
      /\ txns' = txns \o [k \in DOMAIN Batches |-> [ixs |-> Batches[k], status |-> "built"]]
      /\ UNCHANGED <<history, clock, balance, global, earner>> /\ indexed' = indexed
  BY DEF BuildTransactions, Goto, chainVars
<1>2. ChainOK /\ HistoryInv /\ BotInv /\ TxnsInv /\ CoverInv
  BY DEF Inv
<1>3. mIndex' = mIndex /\ ChainOK' /\ HistoryInv'
  BY <1>1, <1>2, UnchangedChain DEF HistoryInv
<1>4. ixs \in Seq(IxData) /\ ListOK(ixs) /\ todo \in Seq([earner : Earners, data : EarnerData])
  BY <1>2 DEF BotInv
<1>5. BotInv'
  <2>1. pc' \notin Building /\ pc' \in Building \cup {"idle", "send", "confirm"}
    BY <1>1 DEF Building
  <2>. QED  BY <1>1, <1>4, <2>1 DEF BotInv, Building
<1>6. txns \in Seq(TxData) /\ (\A i \in 1..Len(txns) : ListOK(txns[i].ixs)) /\ Unsent = {}
  BY <1>1, <1>2 DEF TxnsInv
<1>. DEFINE m == Len(txns)
<1>7. PICK n \in Nat :
        /\ DOMAIN Batches = 1..n
        /\ \A k \in 1..n :
             /\ Batches[k] \in Seq(IxData) /\ ListOK(Batches[k])
             /\ \A p \in 1..Len(Batches[k]) : \E i \in 1..Len(ixs) : Batches[k][p] = ixs[i]
        /\ \A j, k \in 1..n : \A a :
             /\ Claimed(Batches[j], Len(Batches[j]), a)
             /\ Claimed(Batches[k], Len(Batches[k]), a)
             => j = k
  BY <1>4, BatchesOK
<1>. DEFINE new == [k \in 1..n |-> [ixs |-> Batches[k], status |-> "built"]]
<1>8. new \in Seq(TxData) /\ Len(new) = n
  <2>1. new \in [1..n -> TxData]
    BY <1>7 DEF TxData
  <2>2. \A S : \A t \in [1..n -> S] : t \in Seq(S) /\ Len(t) = n
    OBVIOUS
  <2>. HIDE DEF new
  <2>. QED  BY <2>1, <2>2
<1>9. txns' = txns \o new /\ \A k \in 1..n : new[k].ixs = Batches[k] /\ new[k].status = "built"
  BY <1>1, <1>7
<1>. HIDE DEF new
<1>10. /\ txns' \in Seq(TxData) /\ Len(txns') = m + n
       /\ \A i \in 1..(m + n) : txns'[i] = IF i <= m THEN txns[i] ELSE new[i - m]
  BY <1>6, <1>8, <1>9, ConcatProperties
<1>11. /\ m \in Nat
       /\ \A i \in 1..(m + n) : i \in 1..m \/ (~ (i <= m) /\ i - m \in 1..n)
  BY <1>6
<1>12. /\ \A i \in 1..m : txns'[i] = txns[i]
       /\ \A i \in 1..(m + n) : ~ (i \in 1..m) =>
            i - m \in 1..n /\ txns'[i].ixs = Batches[i - m]
  <2>1. \A i \in 1..m : i <= m /\ i \in 1..(m + n)
    BY <1>11
  <2>. QED  BY <1>9, <1>10, <1>11, <2>1
<1>13. TxnsInv'
  <2>1. \A i \in 1..(m + n) : ListOK(txns'[i].ixs)
    BY <1>6, <1>7, <1>12
  <2>2. \A i \in 1..Len(txns') : ListOK(txns'[i].ixs)
    BY <1>10, <2>1
  <2>. QED  BY <1>1, <1>10, <2>2 DEF TxnsInv
<1>14. ASSUME ~ crossed'
       PROVE  /\ OneOpenClaim'
              /\ \E due \in [Accounts -> Nat] : Covered(due)'
  <2>1. ~ crossed /\ InFlight = {}
    BY <1>1, <1>2, <1>14 DEF CoverInv, Simulated
  <2>2. PICK due \in [Accounts -> Nat] : Covered(due)
    BY <1>2, <2>1 DEF CoverInv
  <2>3. ASSUME NEW i \in Open'  PROVE i \in 1..(m + n) /\ ~ (i \in 1..m)
    <3>1. i \in 1..(m + n) /\ txns'[i].status \in {"built", "sent"}
      BY <1>10, <2>3 DEF Open, Unsent, InFlight
    <3>2. ASSUME i \in 1..m  PROVE FALSE
      <4>1. txns[i].status \in {"built", "sent"}
        BY <1>12, <3>1, <3>2
      <4>. QED  BY <1>6, <2>1, <3>2, <4>1 DEF Unsent, InFlight
    <3>. QED  BY <3>1, <3>2
  <2>4. \A i \in Open' : i - m \in 1..n /\ txns'[i].ixs = Batches[i - m]
    BY <1>12, <2>3
  <2>5. OneOpenClaim'
    <3>1. ASSUME NEW i \in Open', NEW j \in Open', NEW a \in Accounts,
                 Claimed(txns'[i].ixs, Len(txns'[i].ixs), a),
                 Claimed(txns'[j].ixs, Len(txns'[j].ixs), a)
          PROVE  i = j
      <4>1. /\ i - m \in 1..n /\ txns'[i].ixs = Batches[i - m]
            /\ j - m \in 1..n /\ txns'[j].ixs = Batches[j - m]
        BY <2>4
      <4>2. i - m = j - m
        BY <1>7, <3>1, <4>1
      <4>3. i \in Nat /\ j \in Nat
        BY <1>11, <2>3
      <4>. QED  BY <1>11, <4>2, <4>3
    <3>2. \A list, k, a : Claimed(list, k, a)' <=> Claimed(list, k, a)
      BY DEF Claimed, IsClaim
    <3>. QED  BY <3>1 DEF OneOpenClaim, Claimed, IsClaim
  <2>6. Covered(due)'
    <3>1. Total(With(due))' <= Principal * mIndex'.index
      <4>1. With(due)' = With(due)
        BY <1>1 DEF With
      <4>2. Total(With(due)) <= Principal * mIndex.index
        BY <2>2 DEF Covered
      <4>. QED  BY <1>3, <4>1, <4>2
    <3>2. AllOwed(ixs, due)
      BY <1>1, <2>2 DEF Covered
    <3>3. ASSUME NEW i \in Open'  PROVE AllOwed(txns[i].ixs, due)'
      <4>1. PICK list : list = Batches[i - m]
        OBVIOUS
      <4>2. list = txns'[i].ixs
        BY <2>4, <3>3, <4>1
      <4>3. \A p \in 1..Len(list) : \E k \in 1..Len(ixs) : list[p] = ixs[k]
        BY <1>7, <2>4, <3>3, <4>1
      <4>4. AllOwed(list, due)
        BY <3>2, <4>3 DEF AllOwed
      <4>5. AllOwed(list, due)'
        BY <1>1, <1>3, <4>4 DEF AllOwed, Owed
      <4>. QED  BY <4>2, <4>5 DEF AllOwed
    <3>4. pc' # "build"
      BY <1>1
    <3>. QED  BY <3>1, <3>3, <3>4 DEF Covered
  <2>. QED  BY <2>5, <2>6
<1>15. CoverInv'
  <2>1. pc' \notin Simulated /\ pc' # "collateral"
    BY <1>1 DEF Simulated
  <2>. QED  BY <1>14, <2>1 DEF CoverInv
<1>. QED  BY <1>3, <1>5, <1>13, <1>15 DEF Inv

\* A transaction changes its status, or is over.
LEMMA TxnStep ==
  ASSUME Inv, UNCHANGED <<chainVars, ixs, todo, rewards, crossed>>,
         pc' = pc, pc \notin Simulated \/ InFlight' \subseteq InFlight,
         NEW i \in Unsent \cup InFlight, NEW tx \in TxData, txns' = [txns EXCEPT ![i] = tx],
         \/ tx = Over
         \/ tx = [txns[i] EXCEPT !.status = "sent"]
  PROVE  Inv'
<1>1. ChainOK /\ HistoryInv /\ BotInv /\ TxnsInv /\ CoverInv
  BY DEF Inv
<1>2. /\ UNCHANGED <<history, clock, balance, global, earner>> /\ indexed' = indexed
      /\ crossed' = crossed /\ ixs' = ixs /\ todo' = todo /\ rewards' = rewards
  BY DEF chainVars
<1>3. mIndex' = mIndex /\ ChainOK' /\ HistoryInv'
  BY <1>1, <1>2, UnchangedChain DEF HistoryInv
<1>4. BotInv'
  BY <1>1, <1>2 DEF BotInv, ListOK, Claimed
<1>5. txns \in Seq(TxData) /\ (\A j \in 1..Len(txns) : ListOK(txns[j].ixs))
  BY <1>1 DEF TxnsInv
<1>6. i \in 1..Len(txns) /\ txns[i].status \in {"built", "sent"}
  BY DEF Unsent, InFlight
<1>7. /\ txns' \in Seq(TxData) /\ Len(txns') = Len(txns) /\ txns'[i] = tx
      /\ \A j \in 1..Len(txns) : j # i => txns'[j] = txns[j]
  BY <1>5, <1>6
<1>8. ListOK(tx.ixs) /\ (tx # Over => tx.ixs = txns[i].ixs /\ tx.status = "sent")
  <2>1. CASE tx = Over
    <3>1. tx.ixs = <<>>
      BY <2>1 DEF Over
    <3>2. Len(tx.ixs) = 0
      BY <3>1
    <3>. QED  BY <2>1, <3>2 DEF ListOK
  <2>2. CASE tx = [txns[i] EXCEPT !.status = "sent"]
    <3>1. txns[i] \in TxData
      BY <1>5, <1>6
    <3>2. tx.ixs = txns[i].ixs /\ tx.status = "sent"
      BY <2>2, <3>1 DEF TxData
    <3>. QED  BY <1>5, <1>6, <3>2
  <2>. QED  BY <2>1, <2>2
<1>9. Over.status = "over"
  BY DEF Over
<1>10. ASSUME NEW j \in 1..Len(txns), txns'[j].status \in {"built", "sent"}
       PROVE  txns'[j].ixs = txns[j].ixs /\ txns[j].status \in {"built", "sent"}
  BY <1>6, <1>7, <1>8, <1>9, <1>10
<1>11. Unsent' \subseteq Unsent
  <2>1. ASSUME NEW j \in Unsent'  PROVE j \in Unsent
    <3>1. j \in 1..Len(txns) /\ txns'[j].status = "built"
      BY <1>7, <2>1 DEF Unsent
    <3>2. j # i
      BY <1>7, <1>8, <1>9, <3>1
    <3>. QED  BY <1>7, <3>1, <3>2 DEF Unsent
  <2>. QED  BY <2>1
<1>12. TxnsInv'
  <2>1. \A j \in 1..Len(txns') : ListOK(txns'[j].ixs)
    BY <1>5, <1>7, <1>8
  <2>2. pc' # "send" => Unsent' = {}
    BY <1>1, <1>11 DEF TxnsInv
  <2>. QED  BY <1>7, <2>1, <2>2 DEF TxnsInv
<1>13. \A j \in Open' : j \in Open /\ txns'[j].ixs = txns[j].ixs
  <2>1. \A j : j \in Open' <=> j \in 1..Len(txns) /\ txns'[j].status \in {"built", "sent"}
    BY <1>7 DEF Open, Unsent, InFlight
  <2>2. \A j : j \in Open <=> j \in 1..Len(txns) /\ txns[j].status \in {"built", "sent"}
    BY DEF Open, Unsent, InFlight
  <2>. QED  BY <1>10, <2>1, <2>2
<1>14. CoverInv'
  BY <1>1, <1>2, <1>3, <1>13, CoverKept
<1>. QED  BY <1>3, <1>4, <1>12, <1>14 DEF Inv

LEMMA OverIs == Over \in TxData
<1>1. <<>> \in Seq(IxData)
  OBVIOUS
<1>. QED  BY <1>1 DEF Over, TxData

LEMMA SendStep ==
  ASSUME Inv, Send  PROVE Inv'
<1>1. /\ pc = "send" /\ pc' = "send" /\ Unsent # {}
      /\ UNCHANGED <<chainVars, ixs, todo, rewards, crossed>>
  BY DEF Send, Goto
<1>. DEFINE i == Min(Unsent)
<1>2. PICK accepted : txns' = [txns EXCEPT ![i] = IF accepted = {} THEN Over
                                                  ELSE [txns[i] EXCEPT !.status = "sent"]]
  BY DEF Send
<1>3. txns \in Seq(TxData)
  BY DEF Inv, TxnsInv
<1>4. i \in Unsent
  <2>1. Len(txns) \in Nat /\ Unsent \in SUBSET (0..Len(txns))
    BY <1>3 DEF Unsent
  <2>. QED  BY <1>1, <2>1, GreatestOf
<1>5. txns[i] \in TxData
  BY <1>3, <1>4 DEF Unsent
<1>. HIDE DEF i
<1>6. [txns[i] EXCEPT !.status = "sent"] \in TxData
  BY <1>5 DEF TxData
<1>. DEFINE tx == IF accepted = {} THEN Over ELSE [txns[i] EXCEPT !.status = "sent"]
<1>7. tx \in TxData /\ (tx = Over \/ tx = [txns[i] EXCEPT !.status = "sent"])
  BY <1>6, OverIs
<1>8. txns' = [txns EXCEPT ![i] = tx]
  BY <1>2
<1>. HIDE DEF tx
<1>9. pc \notin Simulated
  BY <1>1 DEF Simulated
<1>. QED  BY <1>1, <1>4, <1>7, <1>8, <1>9, TxnStep

LEMMA AllSentStep ==
  ASSUME Inv, AllSent  PROVE Inv'
<1>1. /\ pc = "send" /\ pc' = "confirm" /\ Unsent = {} /\ ixs' = ixs /\ todo' = todo
      /\ UNCHANGED <<chainVars, txns, crossed>>
  BY DEF AllSent, Goto
<1>2. BotInv
  BY DEF Inv
<1>3. pc' \notin Building /\ pc' \in Building \cup {"idle", "send", "confirm"}
  BY <1>1 DEF Building
<1>4. BotInv'
  BY <1>1, <1>2, <1>3 DEF BotInv, ListOK, Building
<1>. QED  BY <1>1, <1>4, BotStep DEF Simulated

LEMMA EndStep ==
  ASSUME Inv, Confirm \/ Throw  PROVE Inv'
<1>1. Report /\ pc # "send" /\ UNCHANGED <<chainVars, txns, crossed>>
  BY DEF Confirm, Throw
<1>. QED  BY <1>1, ReportStep

LEMMA DropStep ==
  ASSUME Inv, NEW i, Drop(i)  PROVE Inv'
<1>1. /\ i \in InFlight /\ txns' = [txns EXCEPT ![i] = Over] /\ pc' = pc
      /\ UNCHANGED <<chainVars, ixs, todo, rewards, crossed>>
  BY DEF Drop, botVars
<1>2. InFlight' \subseteq InFlight
  <2>1. txns \in Seq(TxData)
    BY DEF Inv, TxnsInv
  <2>2. i \in 1..Len(txns) /\ Over.status = "over"
    BY <1>1 DEF InFlight, Over
  <2>3. /\ Len(txns') = Len(txns) /\ txns'[i] = Over
        /\ \A j \in 1..Len(txns) : j # i => txns'[j] = txns[j]
    BY <1>1, <2>1, <2>2
  <2>. QED  BY <2>2, <2>3 DEF InFlight
<1>. QED  BY <1>1, <1>2, OverIs, TxnStep

-----------------------------------------------------------------------------
(* Steps of the chain and the indexer.                                      *)

\* A step that leaves the bot and its transactions as they are.
LEMMA BotUnchanged ==
  ASSUME BotInv, TxnsInv, UNCHANGED <<pc, ixs, todo, rewards, txns>>
  PROVE  /\ BotInv' /\ TxnsInv' /\ Unsent' = Unsent /\ InFlight' = InFlight
         /\ OneOpenClaim => OneOpenClaim'
<1>1. BotInv'
  BY DEF BotInv, ListOK, Claimed
<1>2. Unsent' = Unsent /\ InFlight' = InFlight
  BY DEF Unsent, InFlight
<1>3. TxnsInv'
  <2>1. txns' \in Seq(TxData) /\ \A i \in 1..Len(txns') : ListOK(txns'[i].ixs)
    BY DEF TxnsInv
  <2>. QED  BY <1>2, <2>1 DEF TxnsInv
<1>4. OneOpenClaim => OneOpenClaim'
  BY <1>2 DEF OneOpenClaim, Open, Claimed
<1>. QED  BY <1>1, <1>2, <1>3, <1>4

LEMMA IndexStep ==
  ASSUME Inv, Index  PROVE Inv'
<1>1. /\ indexed < Len(history) /\ indexed' = indexed + 1
      /\ UNCHANGED <<history, clock, balance, global, earner>>
      /\ UNCHANGED <<pc, ixs, todo, rewards, txns>> /\ crossed' = crossed
  BY DEF Index, botVars
<1>2. ChainOK /\ HistoryInv /\ BotInv /\ TxnsInv /\ CoverInv
  BY DEF Inv
<1>3. indexed' \in 1..Len(history)
  BY <1>1, <1>2 DEF HistoryInv
<1>4. mIndex' = mIndex /\ ChainOK' /\ HistoryInv'
  BY <1>1, <1>2, <1>3, UnchangedChain
<1>5. BotInv' /\ TxnsInv' /\ Unsent' = Unsent /\ InFlight' = InFlight
  BY <1>1, <1>2, BotUnchanged
<1>6. \A i \in Open' : i \in Open /\ txns'[i].ixs = txns[i].ixs
  BY <1>1, <1>5 DEF Open
<1>7. CoverInv'
  BY <1>1, <1>2, <1>4, <1>5, <1>6, CoverKept
<1>. QED  BY <1>4, <1>5, <1>7 DEF Inv

LEMMA TransferStep ==
  ASSUME Inv, NEW from \in Accounts, NEW to \in Accounts, Transfer(from, to)
  PROVE  Inv'
<1>1. PICK amount \in 1..balance[from] :
        Record(0, {from, to}, [balance EXCEPT ![from] = @ - amount, ![to] = @ + amount])
  BY DEF Transfer
<1>2. /\ from # to /\ global' = global /\ earner' = earner /\ crossed' = crossed
      /\ UNCHANGED <<pc, ixs, todo, rewards, txns>>
  BY DEF Transfer, botVars
<1>3. ChainOK /\ HistoryInv /\ BotInv /\ TxnsInv /\ CoverInv
  BY DEF Inv
<1>. DEFINE held == [balance EXCEPT ![from] = @ - amount, ![to] = @ + amount]
<1>4. balance \in [Accounts -> Nat]
  BY <1>3 DEF ChainOK
<1>5. amount \in Nat /\ amount <= balance[from] /\ balance[from] \in Nat /\ balance[to] \in Nat
  BY <1>1, <1>4
<1>6. /\ held \in [Accounts -> Nat]
      /\ held[from] = balance[from] - amount /\ held[to] = balance[to] + amount
      /\ \A a \in Accounts \ {from, to} : held[a] = balance[a]
  BY <1>2, <1>4, <1>5
<1>7. Record(0, {from, to}, held)
  BY <1>1
<1>. HIDE DEF held
<1>8. HistoryInv' /\ mIndex' = mIndex /\ balance' = held
  BY <1>3, <1>6, <1>7, RecordChange
<1>9. ChainOK'
  BY <1>2, <1>3, <1>6, <1>8 DEF ChainOK
<1>10. /\ BotInv' /\ TxnsInv' /\ Unsent' = Unsent /\ InFlight' = InFlight
       /\ OneOpenClaim => OneOpenClaim'
  BY <1>2, <1>3, BotUnchanged
<1>11. ASSUME ~ crossed
       PROVE  \E due \in [Accounts -> Nat] : Covered(due)'
  <2>1. PICK due \in [Accounts -> Nat] : Covered(due)
    BY <1>3, <1>11 DEF CoverInv
  <2>2. Total(With(due))' = Total(With(due))
    <3>. DEFINE f == With(due)
                g == [a \in Accounts |-> held[a] + due[a]]
    <3>1. With(due)' = g
      BY <1>8 DEF With
    <3>2. f \in [Accounts -> Int] /\ g \in [Accounts -> Int]
      BY <1>4, <1>6 DEF With
    <3>3. /\ g[from] = f[from] - amount /\ g[to] = f[to] + amount
          /\ \A a \in Accounts \ {from, to} : g[a] = f[a]
      BY <1>4, <1>5, <1>6 DEF With
    <3>. HIDE DEF f, g
    <3>4. Total(g) = Total(f)
      BY <1>2, <1>5, <3>2, <3>3, TotalMoved
    <3>5. Total(With(due))' = Total(g)
      BY <3>1
    <3>. QED  BY <3>4, <3>5 DEF f
  <2>3. \A i : i \in Open' <=> i \in Open
    BY <1>10 DEF Open
  <2>4. Covered(due)'
    <3>1. Total(With(due))' <= Principal * mIndex'.index
      BY <1>8, <2>1, <2>2 DEF Covered
    <3>2. \A i \in Open' : AllOwed(txns[i].ixs, due)'
      BY <1>2, <1>8, <2>1, <2>3 DEF Covered, AllOwed, Owed
    <3>3. pc' = "build" => AllOwed(ixs, due)'
      BY <1>2, <1>8, <2>1 DEF Covered, AllOwed, Owed
    <3>. QED  BY <3>1, <3>2, <3>3 DEF Covered
  <2>. QED  BY <2>4
<1>12. ASSUME ~ crossed, pc = "collateral"
       PROVE  \E due \in [Accounts -> Nat] : (Total(due) = rewards /\ AllOwed(ixs, due))'
  <2>1. PICK due \in [Accounts -> Nat] : Total(due) = rewards /\ AllOwed(ixs, due)
    BY <1>3, <1>12 DEF CoverInv
  <2>2. (Total(due) = rewards /\ AllOwed(ixs, due))'
    BY <1>2, <1>8, <2>1 DEF AllOwed, Owed
  <2>. QED  BY <2>2
<1>13. CoverInv'
  BY <1>2, <1>3, <1>10, <1>11, <1>12 DEF CoverInv
<1>. QED  BY <1>8, <1>9, <1>10, <1>13 DEF Inv

LEMMA UpdateStep ==
  ASSUME Inv, UpdateIndex  PROVE Inv'
<1>1. ChainOK /\ HistoryInv /\ BotInv /\ TxnsInv /\ CoverInv
  BY DEF Inv
<1>2. /\ Cardinality(allIndexUpdates(history)) < Len(IndexSteps)
      /\ Record(IndexSteps[Cardinality(allIndexUpdates(history)) + 1], {}, balance)
      /\ crossed' = (crossed \/ Pending)
      /\ global' = global /\ earner' = earner /\ UNCHANGED <<pc, ixs, todo, rewards, txns>>
  BY DEF UpdateIndex, botVars
<1>3. balance \in [Accounts -> Nat]
  BY <1>1 DEF ChainOK
<1>4. /\ HistoryInv' /\ balance' = balance
      /\ mIndex.index \in Nat \ {0} /\ mIndex'.index \in Nat \ {0} /\ mIndex'.ts \in Nat
      /\ mIndex.index <= mIndex'.index
  BY <1>1, <1>2, <1>3, RecordUpdate
<1>5. ChainOK'
  <2>1. global \in GlobalData /\ earner \in [Earners -> EarnerData] /\ global.index <= mIndex.index
    BY <1>1 DEF ChainOK
  <2>2. global.index \in Nat
    BY <2>1 DEF GlobalData
  <2>3. global'.index <= mIndex'.index
    BY <1>2, <1>4, <2>1, <2>2
  <2>. QED  BY <1>2, <1>3, <1>4, <2>1, <2>3 DEF ChainOK
<1>6. /\ BotInv' /\ TxnsInv' /\ Unsent' = Unsent /\ InFlight' = InFlight
      /\ OneOpenClaim => OneOpenClaim'
  BY <1>1, <1>2, BotUnchanged
<1>7. ASSUME ~ crossed'
      PROVE  /\ OneOpenClaim' /\ pc' \notin Simulated
             /\ \E due \in [Accounts -> Nat] : Covered(due)'
  <2>1. ~ crossed /\ pc' \notin Simulated /\ Unsent = {} /\ InFlight = {}
    BY <1>2, <1>7 DEF Pending, Simulated
  <2>2. Open' = {}
    BY <1>6, <2>1 DEF Open
  <2>3. PICK due \in [Accounts -> Nat] : Covered(due)
    BY <1>1, <2>1 DEF CoverInv
  <2>4. Total(With(due))' <= Principal * mIndex'.index
    <3>1. With(due)' = With(due)
      BY <1>4 DEF With
    <3>2. Total(With(due)) <= Principal * mIndex.index
      BY <2>3 DEF Covered
    <3>3. /\ Principal * mIndex.index <= Principal * mIndex'.index
          /\ Principal * mIndex.index \in Nat /\ Principal * mIndex'.index \in Nat
      <4>1. Principal \in Nat /\ mIndex.index \in Nat /\ mIndex'.index \in Nat
        BY <1>4, BotAssumption
      <4>2. Principal * mIndex.index <= Principal * mIndex'.index
        BY <1>4, <4>1, ProductMonotone
      <4>3. \A p, i \in Nat : p * i \in Nat
        OBVIOUS
      <4>. QED  BY <4>1, <4>2, <4>3
    <3>4. With(due) \in [Accounts -> Int]
      BY <1>3 DEF With
    <3>5. Total(With(due)) \in Int
      BY <3>4, SumIs, SumType
    <3>6. Total(With(due))' = Total(With(due))
      BY <3>1
    <3>. QED  BY <3>2, <3>3, <3>5, <3>6
  <2>5. Covered(due)'
    BY <2>1, <2>2, <2>4 DEF Covered, Simulated
  <2>. QED  BY <2>1, <2>2, <2>5 DEF OneOpenClaim
<1>8. CoverInv'
  BY <1>7 DEF CoverInv, Simulated
<1>. QED  BY <1>4, <1>5, <1>6, <1>8 DEF Inv

\* What a transaction that succeeds leaves, for any index it executes at.
LEMMA LandedIs ==
  ASSUME ChainOK, NEW list, ListOK(list), Executed(list).ok
  PROVE  /\ Executed(list).balance \in [Accounts -> Nat]
         /\ Executed(list).earner \in [Earners -> EarnerData]
         /\ Executed(list).global \in GlobalData
         /\ Executed(list).global.index <= mIndex.index
         /\ \A j \in 1..Len(list) : IsClaim(list[j]) =>
              LET e == list[j].earner
                  since == earner[e].lastClaimIndex
                  paid == Interest(list[j].balance, mIndex.index, since)
              IN  since < mIndex.index => Executed(list).balance[e] <= balance[e] + paid
         /\ \A a \in Accounts : ~ Claimed(list, Len(list), a) =>
              /\ Executed(list).balance[a] = balance[a]
              /\ a \in Earners => Executed(list).earner[a] = earner[a]
<1>. DEFINE after == Executed(list)
<1>1. after \in TxState /\ after.global.index <= mIndex.index /\ Pays(list, after)
  BY ExecutedPays
<1>2. after.ok
  OBVIOUS
<1>. HIDE DEF after
<1>3. /\ after.balance \in [Accounts -> Int] /\ balance \in [Accounts -> Nat]
      /\ earner \in [Earners -> EarnerData] /\ mIndex.index \in Nat
  BY <1>1 DEF TxState, ChainOK
<1>4. ASSUME NEW j \in 1..Len(list), IsClaim(list[j])
      PROVE  LET e == list[j].earner
                 paid == Interest(list[j].balance, mIndex.index, earner[e].lastClaimIndex)
             IN  after.balance[e] \in Nat /\ after.balance[e] <= balance[e] + paid
  <2>. DEFINE e == list[j].earner
              since == earner[e].lastClaimIndex
              b == list[j].balance
  <2>1. PICK g \in Nat : /\ since < g /\ g <= mIndex.index
                         /\ after.balance[e] = balance[e] + Interest(b, g, since)
    BY <1>1, <1>2, <1>4 DEF Pays
  <2>2. since \in Nat \ {0} /\ b \in Nat /\ balance[e] \in Nat
    <3>1. e \in Earners /\ e \in Accounts
      BY <1>4 DEF IsClaim, Accounts
    <3>. QED  BY <1>3, <1>4, <3>1 DEF IsClaim, EarnerData
  <2>. HIDE DEF since, b, e
  <2>3. since <= g
    BY <2>1, <2>2
  <2>4. /\ Interest(b, g, since) \in Nat /\ Interest(b, mIndex.index, since) \in Nat
        /\ Interest(b, g, since) <= Interest(b, mIndex.index, since)
    BY <1>3, <2>1, <2>2, <2>3, InterestGrows
  <2>5. /\ after.balance[e] \in Nat
        /\ after.balance[e] <= balance[e] + Interest(b, mIndex.index, since)
    BY <2>1, <2>2, <2>4
  <2>. QED  BY <2>5 DEF since, b, e
<1>5. \A a \in Accounts : ~ Claimed(list, Len(list), a) =>
        after.balance[a] = balance[a] /\ (a \in Earners => after.earner[a] = earner[a])
  BY <1>1 DEF Pays
<1>6. after.balance \in [Accounts -> Nat]
  <2>1. ASSUME NEW a \in Accounts  PROVE after.balance[a] \in Nat
    <3>1. CASE Claimed(list, Len(list), a)
      BY <1>4, <3>1 DEF Claimed
    <3>2. CASE ~ Claimed(list, Len(list), a)
      BY <1>3, <1>5, <3>2
    <3>. QED  BY <3>1, <3>2
  <2>. QED  BY <1>3, <2>1
<1>7. after.earner \in [Earners -> EarnerData] /\ after.global \in GlobalData
  BY <1>1 DEF TxState
<1>. QED  BY <1>1, <1>4, <1>5, <1>6, <1>7 DEF after

\* A claim is paid at most what was due for it, which then is due no more.
LEMMA LandingCovers ==
  ASSUME ChainOK, TxnsInv, OneOpenClaim, InFlight \subseteq Open,
         NEW i \in InFlight, Executed(txns[i].ixs).ok,
         NEW due \in [Accounts -> Nat], Covered(due),
         balance' = Executed(txns[i].ixs).balance, earner' = Executed(txns[i].ixs).earner,
         mIndex' = mIndex, pc' # "build",
         \A j \in Open' : j \in Open /\ j # i /\ txns'[j].ixs = txns[j].ixs
  PROVE  \E left \in [Accounts -> Nat] : Covered(left)'
<1>. DEFINE list == txns[i].ixs
            Paid(a) == Claimed(list, Len(list), a)
            left == [a \in Accounts |-> IF Paid(a) THEN 0 ELSE due[a]]
<1>1. ListOK(list) /\ i \in Open
  BY DEF TxnsInv, InFlight
<1>2. /\ balance' \in [Accounts -> Nat]
      /\ \A j \in 1..Len(list) : IsClaim(list[j]) =>
           LET e == list[j].earner
               since == earner[e].lastClaimIndex
               paid == Interest(list[j].balance, mIndex.index, since)
           IN  since < mIndex.index => balance'[e] <= balance[e] + paid
      /\ \A a \in Accounts : ~ Paid(a) =>
           balance'[a] = balance[a] /\ (a \in Earners => earner'[a] = earner[a])
  BY <1>1, LandedIs
<1>3. balance \in [Accounts -> Nat] /\ earner \in [Earners -> EarnerData]
      /\ mIndex.index \in Nat
  BY DEF ChainOK
<1>4. \A j \in 1..Len(list) : IsClaim(list[j]) => Owed(list[j], due)
  BY <1>1 DEF Covered, AllOwed
<1>5. left \in [Accounts -> Nat]
  OBVIOUS
<1>6. ASSUME NEW a \in Accounts
      PROVE  balance'[a] + left[a] <= balance[a] + due[a]
  <2>1. CASE Paid(a)
    <3>1. PICK j \in 1..Len(list) : IsClaim(list[j]) /\ list[j].earner = a
      BY <2>1 DEF Claimed
    <3>. DEFINE since == earner[a].lastClaimIndex
                paid == Interest(list[j].balance, mIndex.index, since)
    <3>2. since < mIndex.index /\ paid <= due[a]
      BY <1>4, <3>1 DEF Owed
    <3>3. balance'[a] <= balance[a] + paid
      BY <1>2, <3>1, <3>2
    <3>4. paid \in Int
      <4>1. a \in Earners /\ list[j].balance \in Nat
        BY <3>1 DEF IsClaim
      <4>2. since \in Nat \ {0}
        BY <1>3, <4>1 DEF EarnerData
      <4>3. since <= mIndex.index /\ mIndex.index <= mIndex.index
        BY <1>3, <3>2, <4>2
      <4>. HIDE DEF since, list
      <4>4. paid \in Nat
        BY <1>3, <4>1, <4>2, <4>3, InterestGrows
      <4>. QED  BY <4>4
    <3>5. left[a] = 0 /\ due[a] \in Nat /\ balance[a] \in Nat /\ balance'[a] \in Nat
      BY <1>2, <1>3, <2>1
    <3>. HIDE DEF paid, left, list
    <3>. QED  BY <3>2, <3>3, <3>4, <3>5
  <2>2. CASE ~ Paid(a)
    <3>1. left[a] = due[a] /\ balance'[a] = balance[a]
      BY <1>2, <2>2
    <3>2. due[a] \in Nat /\ balance[a] \in Nat
      BY <1>3
    <3>. HIDE DEF left
    <3>. QED  BY <3>1, <3>2
  <2>. QED  BY <2>1, <2>2
<1>7. ASSUME NEW j \in Open', NEW k \in 1..Len(txns'[j].ixs), IsClaim(txns'[j].ixs[k])
      PROVE  Owed(txns[j].ixs[k], due) /\ ~ Paid(txns[j].ixs[k].earner)
             /\ txns[j].ixs[k].earner \in Earners
  <2>1. j \in Open /\ j # i /\ txns'[j].ixs = txns[j].ixs
    OBVIOUS
  <2>2. IsClaim(txns[j].ixs[k]) /\ k \in 1..Len(txns[j].ixs)
    BY <1>7, <2>1
  <2>3. Owed(txns[j].ixs[k], due)
    BY <2>1, <2>2 DEF Covered, AllOwed
  <2>. DEFINE e == txns[j].ixs[k].earner
  <2>4. e \in Earners /\ e \in Accounts
    BY <2>2 DEF IsClaim, Accounts
  <2>5. Claimed(txns[j].ixs, Len(txns[j].ixs), e)
    BY <2>2 DEF Claimed
  <2>6. ~ Paid(e)
    BY <1>1, <2>1, <2>4, <2>5 DEF OneOpenClaim
  <2>. QED  BY <2>3, <2>4, <2>6
<1>8. PICK rest \in [Accounts -> Nat] : rest = left
  BY <1>5
<1>9. Total(With(rest))' <= Principal * mIndex'.index
  <2>. DEFINE f == [a \in Accounts |-> balance'[a] + rest[a]]
  <2>1. With(rest)' = f
    BY DEF With
  <2>2. f \in [Accounts -> Int] /\ With(due) \in [Accounts -> Int]
    BY <1>2, <1>3 DEF With
  <2>3. \A a \in Accounts : f[a] <= With(due)[a]
    BY <1>6, <1>8 DEF With
  <2>. HIDE DEF f
  <2>4. Total(f) \in Int /\ Total(With(due)) \in Int /\ Total(f) <= Total(With(due))
    BY <2>2, <2>3, TotalMonotone
  <2>5. Total(With(rest))' = Total(f)
    BY <2>1
  <2>6. Total(With(due)) <= Principal * mIndex.index
    BY DEF Covered
  <2>7. Principal * mIndex.index \in Int
    BY <1>3, BotAssumption
  <2>8. mIndex'.index = mIndex.index
    OBVIOUS
  <2>. QED  BY <2>4, <2>5, <2>6, <2>7, <2>8
<1>10. ASSUME NEW j \in Open'  PROVE AllOwed(txns[j].ixs, rest)'
  <2>1. PICK paid : paid = txns[j].ixs
    OBVIOUS
  <2>2. paid = txns'[j].ixs
    BY <1>10, <2>1
  <2>3. ASSUME NEW k \in 1..Len(paid), IsClaim(paid[k])
        PROVE  /\ earner'[paid[k].earner].lastClaimIndex < mIndex'.index
               /\ Interest(paid[k].balance, mIndex'.index, earner'[paid[k].earner].lastClaimIndex)
                    <= rest[paid[k].earner]
    <3>. DEFINE e == paid[k].earner
    <3>1. Owed(paid[k], due) /\ ~ Paid(e) /\ e \in Earners /\ e \in Accounts
      BY <1>7, <1>10, <2>1, <2>2, <2>3 DEF Accounts
    <3>2. earner'[e] = earner[e]
      BY <1>2, <3>1
    <3>3. rest[e] = due[e]
      BY <1>8, <3>1
    <3>. QED  BY <3>1, <3>2, <3>3 DEF Owed
  <2>4. \A k \in 1..Len(paid) : IsClaim(paid[k]) => Owed(paid[k], rest)'
    BY <2>3 DEF Owed
  <2>. QED  BY <2>2, <2>4 DEF AllOwed, IsClaim
<1>11. Covered(rest)'
  BY <1>9, <1>10 DEF Covered
<1>. QED  BY <1>11

LEMMA LandStep ==
  ASSUME Inv, NEW i, Land(i)  PROVE Inv'
<1>1. /\ i \in InFlight /\ txns' = [txns EXCEPT ![i] = Over]
      /\ UNCHANGED <<pc, ixs, todo, rewards, crossed>>
  BY DEF Land, botVars
<1>2. ChainOK /\ HistoryInv /\ BotInv /\ TxnsInv /\ CoverInv
  BY DEF Inv
<1>3. txns \in Seq(TxData) /\ (\A j \in 1..Len(txns) : ListOK(txns[j].ixs))
  BY <1>2 DEF TxnsInv
<1>4. i \in 1..Len(txns) /\ Over.status = "over" /\ Over.ixs = <<>>
  BY <1>1 DEF InFlight, Over
<1>5. /\ txns' \in Seq(TxData) /\ Len(txns') = Len(txns) /\ txns'[i] = Over
      /\ \A j \in 1..Len(txns) : j # i => txns'[j] = txns[j]
  BY <1>1, <1>3, <1>4, OverIs
<1>6. InFlight' = InFlight \ {i} /\ Unsent' = Unsent
  <2>1. \A j \in 1..Len(txns) : j # i => txns'[j].status = txns[j].status
    BY <1>5
  <2>2. txns'[i].status \notin {"sent", "built"} /\ txns[i].status = "sent"
    BY <1>1, <1>4, <1>5 DEF InFlight
  <2>. QED  BY <1>4, <1>5, <2>1, <2>2 DEF InFlight, Unsent
<1>. DEFINE after == Executed(txns[i].ixs)
<1>7. CASE ~ after.ok
  <2>1. UNCHANGED chainVars
    BY <1>7 DEF Land
  <2>. QED  BY <1>1, <1>6, <2>1, OverIs, TxnStep
<1>8. CASE after.ok
  <2>1. /\ Record(0, {a \in Accounts : after.balance[a] # balance[a]}, after.balance)
        /\ global' = after.global /\ earner' = after.earner
    BY <1>8 DEF Land
  <2>2. ListOK(txns[i].ixs)
    BY <1>3, <1>4
  <2>3. /\ after.balance \in [Accounts -> Nat] /\ after.earner \in [Earners -> EarnerData]
        /\ after.global \in GlobalData /\ after.global.index <= mIndex.index
    BY <1>2, <1>8, <2>2, LandedIs
  <2>4. HistoryInv' /\ mIndex' = mIndex /\ balance' = after.balance
    <3>. DEFINE changed == {a \in Accounts : after.balance[a] # balance[a]}
    <3>1. changed \in SUBSET Accounts /\ Record(0, changed, after.balance)
      BY <2>1
    <3>. HIDE DEF after, changed
    <3>. QED  BY <1>2, <2>3, <3>1, RecordChange
  <2>5. ChainOK'
    BY <1>2, <2>1, <2>3, <2>4 DEF ChainOK
  <2>6. BotInv'
    BY <1>1, <1>2 DEF BotInv, ListOK, Claimed
  <2>7. TxnsInv'
    <3>1. ListOK(Over.ixs)
      <4>1. Len(Over.ixs) = 0
        BY <1>4
      <4>. QED  BY <4>1 DEF ListOK
    <3>2. \A j \in 1..Len(txns') : ListOK(txns'[j].ixs)
      BY <1>3, <1>5, <3>1
    <3>3. pc' # "send" => Unsent' = {}
      BY <1>1, <1>2, <1>6 DEF TxnsInv
    <3>. QED  BY <1>5, <3>2, <3>3 DEF TxnsInv
  <2>8. ASSUME ~ crossed'
        PROVE  /\ OneOpenClaim' /\ pc' \notin Simulated
               /\ \E due \in [Accounts -> Nat] : Covered(due)'
    <3>1. ~ crossed /\ OneOpenClaim /\ pc' \notin Simulated /\ pc' # "build"
      BY <1>1, <1>2, <2>8 DEF CoverInv, Simulated
    <3>2. PICK due \in [Accounts -> Nat] : Covered(due)
      BY <1>2, <3>1 DEF CoverInv
    <3>3. InFlight \subseteq Open
      BY DEF Open
    <3>4. \A j \in Open' : j \in Open /\ j # i /\ txns'[j].ixs = txns[j].ixs
      <4>1. i \notin Unsent
        BY <1>1 DEF Unsent, InFlight
      <4>2. \A j \in Open : j \in 1..Len(txns)
        BY DEF Open, Unsent, InFlight
      <4>. QED  BY <1>5, <1>6, <4>1, <4>2 DEF Open
    <3>5. OneOpenClaim'
      BY <3>1, <3>4 DEF OneOpenClaim, Claimed
    <3>6. \E left \in [Accounts -> Nat] : Covered(left)'
      BY <1>1, <1>2, <1>8, <2>1, <2>4, <3>1, <3>2, <3>3, <3>4, LandingCovers
    <3>. QED  BY <3>1, <3>5, <3>6
  <2>9. CoverInv'
    BY <2>8 DEF CoverInv, Simulated
  <2>. QED  BY <2>4, <2>5, <2>6, <2>7, <2>9 DEF Inv
<1>. QED  BY <1>7, <1>8

-----------------------------------------------------------------------------
(* The vault covers the claims.                                            *)

LEMMA InitInv ==
  ASSUME Init  PROVE Inv
<1>. DEFINE first == IndexSteps[1]
<1>1. first \in Nat \ {0} /\ Len(IndexSteps) \in Nat \ {0} /\ Principal \in Nat
  BY BotAssumption
<1>2. PICK held \in [Accounts -> 0..Principal * first] :
        /\ Total(held) = Principal * first /\ balance = held
        /\ history = <<Row(first, 1, Accounts, held)>> /\ clock = 1 /\ indexed = 1
        /\ global = [index |-> first, timestamp |-> 1]
        /\ earner = [e \in Earners |-> [lastClaimIndex |-> first, lastClaimTimestamp |-> 1]]
        /\ pc = "idle" /\ todo = <<>> /\ ixs = <<>> /\ txns = <<>>
  BY DEF Init
<1>. HIDE DEF first
<1>3. held \in [Accounts -> Nat]
  OBVIOUS
<1>. DEFINE row == Row(first, 1, Accounts, held)
<1>4. row \in RowData /\ row.index = first /\ row.ts = 1 /\ RowOK(row)
  <2>1. /\ row.ts = 1 /\ row.index = first /\ row.held = held
        /\ row.post = [a \in Accounts |-> held[a]]
        /\ row = [ts |-> 1, index |-> first, post |-> [a \in Accounts |-> held[a]], held |-> held]
    BY DEF Row
  <2>2. [a \in Accounts |-> held[a]] \in [Accounts -> Nat] /\ Accounts \in SUBSET Accounts
    BY <1>3
  <2>3. [a \in Accounts |-> held[a]] \in UNION {[s -> Nat] : s \in SUBSET Accounts}
    BY <2>2
  <2>4. row \in RowData
    BY <1>1, <1>3, <2>1, <2>3 DEF RowData
  <2>5. \A a \in DOMAIN row.post : row.post[a] \in Int
    BY <2>1, <2>2
  <2>. HIDE DEF row
  <2>. QED  BY <1>1, <2>1, <2>4, <2>5 DEF RowOK
<1>. HIDE DEF row
<1>5. history = <<row>>
  BY <1>2 DEF row
<1>6. /\ history \in Seq(RowData) /\ Len(history) = 1 /\ history[1] = row
      /\ 1..Len(history) = {1}
  BY <1>4, <1>5
<1>7. RowsOK(history)
  BY <1>1, <1>4, <1>6 DEF RowsOK
<1>8. mIndex = row
  BY <1>6, <1>7, CurrentIndexIs DEF mIndex
<1>9. Cardinality(allIndexUpdates(history)) = 1
  <2>1. allIndexUpdates(history) = {1}
    BY <1>1, <1>4, <1>6 DEF allIndexUpdates
  <2>. QED  BY <2>1, FS_Singleton
<1>10. HistoryInv
  <2>1. history[1].index <= mIndex.index
    BY <1>1, <1>4, <1>6, <1>8
  <2>2. mIndex.index = IndexSteps[1] /\ 1 \in 1..Len(IndexSteps)
    BY <1>1, <1>4, <1>8 DEF first
  <2>3. clock \in Nat /\ indexed \in 1..Len(history)
    BY <1>2, <1>6
  <2>. QED  BY <1>6, <1>7, <1>9, <2>1, <2>2, <2>3 DEF HistoryInv
<1>11. ChainOK
  <2>1. global \in GlobalData /\ earner \in [Earners -> EarnerData] /\ global.index = first
    BY <1>1, <1>2 DEF GlobalData, EarnerData
  <2>2. mIndex.index = first /\ mIndex.ts = 1 /\ first <= first
    BY <1>1, <1>4, <1>8
  <2>. QED  BY <1>1, <1>2, <1>3, <2>1, <2>2 DEF ChainOK
<1>12. BotInv
  <2>1. pc \notin Building /\ pc \in Building \cup {"idle", "send", "confirm"}
    BY <1>2 DEF Building
  <2>2. /\ ixs \in Seq(IxData) /\ Len(ixs) = 0
        /\ todo \in Seq([earner : Earners, data : EarnerData])
    BY <1>2
  <2>3. ListOK(ixs)
    BY <2>2 DEF ListOK
  <2>. QED  BY <2>1, <2>2, <2>3 DEF BotInv, Building
<1>13. Unsent = {} /\ InFlight = {} /\ Open = {}
  <2>1. Len(txns) = 0
    BY <1>2
  <2>. QED  BY <2>1 DEF Unsent, InFlight, Open
<1>14. TxnsInv
  <2>1. txns \in Seq(TxData) /\ Len(txns) = 0
    BY <1>2
  <2>. QED  BY <1>13, <2>1 DEF TxnsInv
<1>15. CoverInv
  <2>. DEFINE due == [a \in Accounts |-> 0]
  <2>1. due \in [Accounts -> Nat]
    OBVIOUS
  <2>2. With(due) = held
    <3>1. \A a \in Accounts : held[a] + 0 = held[a]
      BY <1>3
    <3>2. held = [a \in Accounts |-> held[a]]
      BY <1>3
    <3>3. With(due) = [a \in Accounts |-> held[a] + 0]
      BY <1>2 DEF With
    <3>. QED  BY <3>1, <3>2, <3>3
  <2>3. Total(With(due)) = Principal * mIndex.index
    <3>1. Total(With(due)) = Total(held)
      BY <2>2
    <3>. QED  BY <1>2, <1>4, <1>8, <3>1
  <2>4. Principal * mIndex.index \in Nat
    <3>1. \A p, i \in Nat : p * i \in Nat
      OBVIOUS
    <3>. QED  BY <1>1, <1>4, <1>8, <3>1
  <2>. HIDE DEF due
  <2>5. Total(With(due)) <= Principal * mIndex.index
    BY <2>3, <2>4
  <2>6. Covered(due)
    BY <1>2, <1>13, <2>5 DEF Covered
  <2>. QED  BY <1>2, <1>13, <2>1, <2>6 DEF CoverInv, OneOpenClaim
<1>. QED  BY <1>10, <1>11, <1>12, <1>14, <1>15 DEF Inv

LEMMA UnchangedStep ==
  ASSUME Inv, UNCHANGED vars  PROVE Inv'
<1>1. /\ UNCHANGED <<chainVars, txns, crossed>> /\ UNCHANGED <<pc, ixs, todo, rewards>>
  BY DEF vars, botVars
<1>2. ChainOK /\ HistoryInv /\ BotInv /\ TxnsInv /\ CoverInv
  BY DEF Inv
<1>3. UNCHANGED <<history, clock, balance, global, earner>> /\ indexed' = indexed
  BY <1>1 DEF chainVars
<1>4. mIndex' = mIndex /\ ChainOK' /\ HistoryInv'
  BY <1>2, <1>3, UnchangedChain DEF HistoryInv
<1>5. BotInv' /\ TxnsInv' /\ Unsent' = Unsent /\ InFlight' = InFlight
  BY <1>1, <1>2, BotUnchanged
<1>6. \A i \in Open' : i \in Open /\ txns'[i].ixs = txns[i].ixs
  BY <1>1, <1>5 DEF Open
<1>7. CoverInv'
  BY <1>1, <1>2, <1>3, <1>4, <1>5, <1>6, CoverKept
<1>. QED  BY <1>4, <1>5, <1>7 DEF Inv

\* The inductive invariant.
LEMMA InvInductive == Spec => []Inv
<1>1. Init => Inv
  BY InitInv
<1>2. Inv /\ [Next]_vars => Inv'
  <2>. SUFFICES ASSUME Inv, [Next]_vars  PROVE Inv'
    OBVIOUS
  <2>1. CASE Load
    BY <2>1, LoadStep
  <2>2. CASE Bot
    <3>1. \/ ValidateDatabaseData \/ GetAllEarners \/ BuildClaim \/ Simulate
          \/ ValidateClaims \/ BuildTransactions \/ Send \/ AllSent \/ Confirm
      BY <2>2 DEF Bot
    <3>. QED  BY <3>1, ValidateStep, EarnersStep, ClaimStep, SimulateStep, CollateralStep, BuildStep,
                 SendStep, AllSentStep, EndStep
  <2>3. CASE Throw
    BY <2>3, EndStep
  <2>4. CASE UpdateIndex
    BY <2>4, UpdateStep
  <2>5. CASE Index
    BY <2>5, IndexStep
  <2>6. CASE \E from, to \in Accounts : Transfer(from, to)
    BY <2>6, TransferStep
  <2>7. CASE \E i \in 1..Len(txns) : Land(i) \/ Drop(i)
    BY <2>7, LandStep, DropStep
  <2>8. CASE UNCHANGED vars
    BY <2>8, UnchangedStep
  <2>. QED  BY <2>1, <2>2, <2>3, <2>4, <2>5, <2>6, <2>7, <2>8 DEF Next
<1>. QED  BY <1>1, <1>2, PTL DEF Spec

LEMMA InvCollateralised == Inv => Collateralised
<1>. SUFFICES ASSUME Inv, ~ crossed  PROVE Total(balance) <= Principal * mIndex.index
  BY DEF Collateralised
<1>1. PICK due \in [Accounts -> Nat] : Total(With(due)) <= Principal * mIndex.index
  BY DEF Inv, CoverInv, Covered
<1>2. balance \in [Accounts -> Nat] /\ mIndex.index \in Nat /\ Principal \in Nat
  BY BotAssumption DEF Inv, ChainOK
<1>3. /\ balance \in [Accounts -> Int] /\ With(due) \in [Accounts -> Int]
      /\ \A a \in Accounts : balance[a] <= With(due)[a]
  BY <1>2 DEF With
<1>4. Total(balance) \in Int /\ Total(With(due)) \in Int /\ Total(balance) <= Total(With(due))
  BY <1>3, TotalMonotone
<1>5. \A p, i \in Nat : p * i \in Int
  OBVIOUS
<1>. QED  BY <1>1, <1>2, <1>4, <1>5

\* The extension never issues more than its vault is worth (Collateralised),
\* for any number of earners, any batch size and any indices that do not
\* decrease, however late the indexer and whatever is executed, dropped or
\* thrown when: the check of services/yield-bot/main.ts is enough as long as
\* no index update and no other run's check comes between it and the last of
\* the claims.
THEOREM StaysCollateralised == Spec => []Collateralised
BY InvInductive, InvCollateralised, PTL

-----------------------------------------------------------------------------
(* Sums along the history.                                                  *)

\* r has the sums of the first k terms, for k up to n.
Adding(r, term, n) ==
  /\ r[0] = 0
  /\ \A k \in 1..n : r[k] = r[k - 1] + term[k]

LEMMA AddingExist ==
  ASSUME NEW term, NEW n \in Nat
  PROVE  \E r : Adding(r, term, n)
<1>. DEFINE T == {k \in Nat : ~ \E r : Adding(r, term, k)}
<1>1. SUFFICES ASSUME T # {}  PROVE FALSE
  OBVIOUS
<1>2. T \subseteq Nat
  OBVIOUS
<1>3. PICK k \in T : \A j \in T : ~ (<<j, k>> \in OpToRel(<, Nat))
  <2>. HIDE DEF T
  <2>. QED  BY <1>1, <1>2, NatLessThanWellFounded, WFMin
<1>4. \A j \in T : ~ (j < k)
  BY <1>2, <1>3 DEF OpToRel
<1>5. CASE k = 0
  <2>. DEFINE s == [m \in 0..0 |-> 0]
  <2>1. Adding(s, term, 0)
    BY DEF Adding
  <2>. QED  BY <1>3, <1>5, <2>1
<1>6. CASE k # 0
  <2>1. k \in Nat /\ k - 1 \in Nat /\ k - 1 \notin T
    BY <1>2, <1>4, <1>6
  <2>2. PICK r : Adding(r, term, k - 1)
    BY <2>1
  <2>. DEFINE s == [m \in 0..k |-> IF m = k THEN r[k - 1] + term[k] ELSE r[m]]
  <2>3. s[0] = 0
    BY <1>6, <2>1, <2>2 DEF Adding
  <2>4. ASSUME NEW m \in 1..k  PROVE s[m] = s[m - 1] + term[m]
    <3>1. CASE m = k
      <4>1. s[m] = r[k - 1] + term[k] /\ s[m - 1] = r[k - 1]
        BY <2>1, <3>1
      <4>. QED  BY <3>1, <4>1
    <3>2. CASE m # k
      <4>1. s[m] = r[m] /\ s[m - 1] = r[m - 1] /\ m \in 1..(k - 1)
        BY <2>1, <3>2
      <4>2. r[m] = r[m - 1] + term[m]
        BY <2>2, <4>1 DEF Adding
      <4>. QED  BY <4>1, <4>2
    <3>. QED  BY <3>1, <3>2
  <2>. HIDE DEF s
  <2>5. Adding(s, term, k)
    BY <2>3, <2>4 DEF Adding
  <2>. QED  BY <1>3, <2>5
<1>. QED  BY <1>5, <1>6

\* Terms that are the same have the same sums.
LEMMA AddingSame ==
  ASSUME NEW n \in Nat, NEW s, NEW t, NEW q, NEW r, Adding(q, s, n), Adding(r, t, n),
         \A k \in 1..n : s[k] = t[k]
  PROVE  \A k \in 0..n : q[k] = r[k]
<1>. DEFINE T == {k \in 0..n : q[k] # r[k]}
<1>1. SUFFICES ASSUME T # {}  PROVE FALSE
  OBVIOUS
<1>2. T \in SUBSET (0..n)
  OBVIOUS
<1>. DEFINE k == Min(T)
<1>3. k \in T /\ \A j \in T : k <= j
  <2>. HIDE DEF T
  <2>. QED  BY <1>1, <1>2, GreatestOf
<1>. HIDE DEF k
<1>4. k # 0
  BY <1>3 DEF Adding
<1>5. k \in 1..n /\ k - 1 \in 0..n /\ ~ (k <= k - 1)
  BY <1>3, <1>4
<1>6. q[k - 1] = r[k - 1]
  BY <1>3, <1>5
<1>7. q[k] = q[k - 1] + s[k] /\ r[k] = r[k - 1] + t[k] /\ s[k] = t[k]
  BY <1>5 DEF Adding
<1>. QED  BY <1>3, <1>6, <1>7

LEMMA SumToAdds ==
  ASSUME NEW term, NEW n \in Nat
  PROVE  \E r : Adding(r, term, n) /\ \A m \in 0..n : SumTo(term, m) = r[m]
<1>1. PICK r : Adding(r, term, n)
  BY AddingExist
<1>2. ASSUME NEW m \in 0..n  PROVE SumTo(term, m) = r[m]
  <2>. DEFINE Q(q) == q = [k \in 0..m |-> IF k = 0 THEN 0 ELSE q[k - 1] + term[k]]
              c == CHOOSE q : Q(q)
              g == [k \in 0..m |-> r[k]]
  <2>1. m \in Nat /\ \A k \in 1..m : k \in 1..n
    OBVIOUS
  <2>2. ASSUME NEW k \in 0..m
        PROVE  g[k] = IF k = 0 THEN 0 ELSE g[k - 1] + term[k]
    <3>1. CASE k = 0
      BY <1>1, <3>1 DEF Adding
    <3>2. CASE k # 0
      <4>1. k \in 1..m /\ k - 1 \in 0..m
        BY <3>2
      <4>2. g[k] = r[k] /\ g[k - 1] = r[k - 1]
        BY <4>1
      <4>3. r[k] = r[k - 1] + term[k]
        BY <1>1, <2>1, <4>1 DEF Adding
      <4>. HIDE DEF g
      <4>. QED  BY <3>2, <4>2, <4>3
    <3>. QED  BY <3>1, <3>2
  <2>3. g = [k \in 0..m |-> g[k]]
    OBVIOUS
  <2>4. Q(g)
    <3>. HIDE DEF g
    <3>. QED  BY <2>2, <2>3
  <2>5. Q(c)
    <3>. HIDE DEF Q, g
    <3>. QED  BY <2>4
  <2>6. SumTo(term, m) = c[m]
    BY DEF SumTo
  <2>. HIDE DEF c
  <2>. DEFINE step(k) == IF k = 0 THEN 0 ELSE c[k - 1] + term[k]
  <2>7. c = [k \in 0..m |-> step(k)]
    BY <2>5
  <2>8. step(0) = 0 /\ \A k \in 1..m : step(k) = c[k - 1] + term[k]
    OBVIOUS
  <2>. HIDE DEF step
  <2>9. \A k \in 0..m : c[k] = step(k)
    BY <2>7
  <2>10. 0 \in 0..m /\ \A k \in 1..m : k \in 0..m
    BY <2>1
  <2>11. Adding(c, term, m)
    BY <2>8, <2>9, <2>10 DEF Adding
  <2>12. Adding(r, term, m)
    BY <1>1, <2>1 DEF Adding
  <2>13. \A k \in 0..m : c[k] = r[k]
    BY <2>1, <2>11, <2>12, AddingSame
  <2>. QED  BY <2>1, <2>6, <2>13
<1>. QED  BY <1>1, <1>2

LEMMA SumToIs ==
  ASSUME NEW term, NEW n \in Nat
  PROVE  /\ SumTo(term, 0) = 0
         /\ SumTo(term, n + 1) = SumTo(term, n) + term[n + 1]
<1>1. n + 1 \in Nat /\ n \in 0..(n + 1) /\ 0 \in 0..(n + 1) /\ n + 1 \in 0..(n + 1)
      /\ n + 1 \in 1..(n + 1) /\ (n + 1) - 1 = n
  OBVIOUS
<1>2. PICK r : Adding(r, term, n + 1) /\ \A m \in 0..(n + 1) : SumTo(term, m) = r[m]
  BY <1>1, SumToAdds
<1>3. r[0] = 0 /\ r[n + 1] = r[n] + term[n + 1]
  <2>1. \A k \in 1..(n + 1) : r[k] = r[k - 1] + term[k]
    BY <1>2 DEF Adding
  <2>2. r[n + 1] = r[(n + 1) - 1] + term[n + 1]
    BY <1>1, <2>1
  <2>. QED  BY <1>1, <1>2, <2>2 DEF Adding
<1>. QED  BY <1>1, <1>2, <1>3

LEMMA SumToSame ==
  ASSUME NEW n \in Nat, NEW s, NEW t, \A k \in 1..n : s[k] = t[k]
  PROVE  SumTo(s, n) = SumTo(t, n)
<1>1. PICK q : Adding(q, s, n) /\ \A m \in 0..n : SumTo(s, m) = q[m]
  BY SumToAdds
<1>2. PICK r : Adding(r, t, n) /\ \A m \in 0..n : SumTo(t, m) = r[m]
  BY SumToAdds
<1>3. n \in 0..n
  OBVIOUS
<1>. QED  BY <1>1, <1>2, <1>3, AddingSame

LEMMA SumToInt ==
  ASSUME NEW n \in Nat, NEW term, \A k \in 1..n : term[k] \in Int
  PROVE  \A m \in 0..n : SumTo(term, m) \in Int
<1>. DEFINE T == {m \in 0..n : SumTo(term, m) \notin Int}
<1>1. SUFFICES ASSUME T # {}  PROVE FALSE
  OBVIOUS
<1>2. T \in SUBSET (0..n)
  OBVIOUS
<1>. DEFINE k == Min(T)
<1>3. k \in T /\ \A j \in T : k <= j
  <2>. HIDE DEF T
  <2>. QED  BY <1>1, <1>2, GreatestOf
<1>. HIDE DEF k
<1>4. k # 0
  BY <1>3, SumToIs
<1>5. k \in 1..n /\ k - 1 \in 0..n /\ ~ (k <= k - 1) /\ k - 1 \in Nat /\ (k - 1) + 1 = k
  BY <1>3, <1>4
<1>6. SumTo(term, k - 1) \in Int
  BY <1>3, <1>5
<1>7. SumTo(term, (k - 1) + 1) = SumTo(term, k - 1) + term[(k - 1) + 1]
  BY <1>5, SumToIs
<1>8. SumTo(term, k) \in Int
  BY <1>5, <1>6, <1>7
<1>. QED  BY <1>3, <1>8

-----------------------------------------------------------------------------
(* What rounding does.                                                      *)

LEMMA Cancelled ==
  ASSUME NEW d \in Nat \ {0}, NEW a \in Int, NEW b \in Int
  PROVE  /\ d * a <= d * b => a <= b
         /\ d * a < d * b => a < b
<1>1. ASSUME b < a  PROVE d * b < d * a
  <2>1. b + 1 <= a
    BY <1>1
  <2>2. d * (a - b - 1) >= 0
    BY <2>1
  <2>3. d * (a - b - 1) = d * a - d * b - d /\ d * a \in Int /\ d * b \in Int
    OBVIOUS
  <2>. QED  BY <2>2, <2>3
<1>2. d * a \in Int /\ d * b \in Int
  OBVIOUS
<1>3. a = b => d * a = d * b
  OBVIOUS
<1>. QED  BY <1>1, <1>2, <1>3

LEMMA Divides ==
  ASSUME NEW a \in Nat, NEW d \in Nat \ {0}, a % d = 0
  PROVE  a \div d \in Nat /\ d * (a \div d) = a
OBVIOUS

\* A balance and its yield grow from one index to another, rounded down; p and q
\* are what a token at these indices is worth.
LEMMA Grown ==
  ASSUME NEW y \in Nat, NEW b \in Nat, NEW l \in Nat \ {0}, NEW i \in Nat \ {0}, l <= i,
         NEW p \in Nat, NEW q \in Nat, p * l = q * i,
         NEW z, z = ((y + b) * i) \div l - b
  PROVE  /\ z \in Nat
         /\ z * q <= y * p + b * (p - q)
         /\ y * p + b * (p - q) - (IF i % l = 0 THEN 0 ELSE q) <= z * q
<1>. DEFINE s == y + b
            n == (s * i) \div l
<1>1. s \in Nat /\ s * i \in Nat /\ s * l \in Nat /\ s * l <= s * i
  <2>1. s \in Nat
    OBVIOUS
  <2>. HIDE DEF s
  <2>. QED  BY <2>1, ProductMonotone
<1>2. n \in Nat /\ l * n <= s * i /\ s * i < l * n + l
  <2>. HIDE DEF s
  <2>. QED  BY <1>1, Divided
<1>3. z = n - b
  OBVIOUS
<1>4. s <= n
  <2>1. l * s < l * (n + 1)
    <3>. HIDE DEF s, n
    <3>1. l * (n + 1) = l * n + l /\ l * s = s * l /\ l * n \in Nat
      BY <1>1, <1>2
    <3>. QED  BY <1>1, <1>2, <3>1
  <2>2. s < n + 1
    <3>. HIDE DEF s, n
    <3>1. n + 1 \in Int /\ s \in Int
      BY <1>1, <1>2
    <3>. QED  BY <2>1, <3>1, Cancelled
  <2>. HIDE DEF n, s
  <2>. QED  BY <1>1, <1>2, <2>2
<1>5. z \in Nat
  <2>. HIDE DEF n
  <2>. QED  BY <1>2, <1>3, <1>4
<1>6. l * (s * p) = (s * i) * q
  <2>1. \A u, v \in Nat : l * (u * p) = u * (p * l) /\ (u * i) * q = u * (q * i)
    OBVIOUS
  <2>. HIDE DEF s
  <2>. QED  BY <1>1, <2>1
<1>7. n * q <= s * p
  <2>. HIDE DEF s, n
  <2>1. (l * n) * q <= (s * i) * q
    <3>1. l * n \in Nat
      BY <1>2
    <3>. QED  BY <1>1, <1>2, <3>1, ProductMonotone
  <2>2. l * (n * q) = (l * n) * q /\ n * q \in Int /\ s * p \in Int
    BY <1>1, <1>2
  <2>3. l * (n * q) <= l * (s * p)
    BY <1>6, <2>1, <2>2
  <2>. QED  BY <2>2, <2>3, Cancelled
<1>8. s * p <= (n + 1) * q
  <2>. HIDE DEF s, n
  <2>1. (s * i) * q <= (l * n + l) * q
    <3>1. l * n + l \in Nat /\ s * i <= l * n + l
      BY <1>1, <1>2
    <3>. QED  BY <1>1, <3>1, ProductMonotone
  <2>2. l * ((n + 1) * q) = (l * n + l) * q /\ (n + 1) * q \in Int /\ s * p \in Int
    BY <1>1, <1>2
  <2>3. l * (s * p) <= l * ((n + 1) * q)
    BY <1>6, <2>1, <2>2
  <2>. QED  BY <2>2, <2>3, Cancelled
<1>9. ASSUME i % l = 0  PROVE s * p <= n * q
  <2>. HIDE DEF s
  <2>1. i \div l \in Nat /\ l * (i \div l) = i
    BY <1>9, Divides
  <2>2. PICK e \in Nat : l * e = i
    BY <2>1
  <2>3. s * i = l * (s * e) /\ s * e \in Nat
    BY <1>1, <2>2
  <2>4. n = s * e
    <3>1. \A u \in Nat : (l * u) \div l = u
      OBVIOUS
    <3>. QED  BY <2>3, <3>1
  <2>. HIDE DEF n
  <2>5. l * n = s * i
    BY <2>3, <2>4
  <2>6. l * (n * q) = (l * n) * q /\ n * q \in Int /\ s * p \in Int
    BY <1>1, <1>2
  <2>7. l * (s * p) <= l * (n * q)
    BY <1>6, <2>5, <2>6
  <2>. QED  BY <2>6, <2>7, Cancelled
<1>10. /\ s * p = y * p + b * p /\ z * q = n * q - b * q /\ (n + 1) * q = n * q + q
       /\ b * (p - q) = b * p - b * q
       /\ y * p \in Nat /\ b * p \in Nat /\ b * q \in Nat /\ n * q \in Nat
  <2>. HIDE DEF n
  <2>. QED  BY <1>2, <1>3
<1>11. z * q <= y * p + b * (p - q)
  <2>. HIDE DEF n, s
  <2>. QED  BY <1>7, <1>10
<1>12. CASE i % l = 0
  <2>1. y * p + b * (p - q) <= z * q
    <3>. HIDE DEF n, s
    <3>. QED  BY <1>9, <1>10, <1>12
  <2>2. y * p + b * (p - q) - 0 = y * p + b * (p - q)
    <3>. HIDE DEF n, s
    <3>. QED  BY <1>10
  <2>. HIDE DEF n, s
  <2>. QED  BY <1>5, <1>11, <1>12, <2>1, <2>2
<1>13. CASE i % l # 0
  <2>1. y * p + b * (p - q) - q <= z * q
    <3>. HIDE DEF n, s
    <3>. QED  BY <1>8, <1>10
  <2>. HIDE DEF n, s
  <2>. QED  BY <1>5, <1>11, <1>13, <2>1
<1>. QED  BY <1>12, <1>13

\* A claim of a balance that earns y from one index to another pays y, less than
\* the difference of the indices over the first and less than a token short of it.
\* What is paid on the claimed balance b for a yield y, of a token that is u parts
\* and f * e parts.
PaidOf(y, f, t, b, u, e) ==
  /\ Interest(b, t, f) \in Nat
  /\ Interest(b, t, f) * u <= y * u
  /\ y * u - ((t - f) * e + (IF t % f = 0 THEN 0 ELSE u)) < Interest(b, t, f) * u

LEMMA PaidFor ==
  ASSUME NEW y \in Nat, NEW f \in Nat \ {0}, NEW t \in Nat, f < t,
         NEW b, b = (y * f) \div (t - f),
         NEW u \in Nat \ {0}, NEW e \in Nat, f * e = u
  PROVE  b \in Nat /\ PaidOf(y, f, t, b, u, e)
<1>. SUFFICES /\ b \in Nat /\ Interest(b, t, f) \in Nat
              /\ Interest(b, t, f) * u <= y * u
              /\ y * u - ((t - f) * e + (IF t % f = 0 THEN 0 ELSE u)) < Interest(b, t, f) * u
  BY DEF PaidOf
<1>. DEFINE d == t - f
            n == (b * t) \div f
            paid == n - b
<1>1. d \in Nat \ {0} /\ t = f + d
  OBVIOUS
<1>2. b \in Nat /\ d * b <= y * f /\ y * f < d * b + d
  <2>1. y * f \in Nat /\ b = (y * f) \div d
    OBVIOUS
  <2>. HIDE DEF d
  <2>. QED  BY <1>1, <2>1, Divided
<1>3. n \in Nat /\ f * n <= b * t /\ b * t < f * n + f
  <2>1. b * t \in Nat
    BY <1>2
  <2>. QED  BY <2>1, Divided
<1>. HIDE DEF d
<1>4. b * t = f * b + d * b /\ f * b \in Nat /\ d * b \in Nat /\ f * n \in Nat /\ y * f \in Nat
  <2>. HIDE DEF n
  <2>. QED  BY <1>1, <1>2, <1>3
<1>5. f * paid = f * n - f * b /\ paid \in Int
  <2>. HIDE DEF n
  <2>. QED  BY <1>2, <1>3
<1>. HIDE DEF n
<1>6. f * paid <= d * b /\ d * b < f * paid + f
  <2>. HIDE DEF paid
  <2>. QED  BY <1>3, <1>4, <1>5
<1>7. ASSUME t % f = 0  PROVE d * b = f * paid
  <2>1. t \div f \in Nat /\ f * (t \div f) = t
    BY <1>7, Divides
  <2>2. PICK k \in Nat : f * k = t
    BY <2>1
  <2>3. b * t = f * (b * k) /\ b * k \in Nat
    BY <1>2, <2>2
  <2>4. n = b * k
    <3>1. \A v \in Nat : (f * v) \div f = v
      OBVIOUS
    <3>. QED  BY <2>3, <3>1 DEF n
  <2>. HIDE DEF paid
  <2>. QED  BY <1>4, <1>5, <2>3, <2>4
<1>8. paid \in Nat /\ paid <= y
  <2>1. f * 0 < f * (paid + 1) /\ f * paid <= f * y
    <3>1. f * (paid + 1) = f * paid + f /\ f * 0 = 0 /\ f * y = y * f
      BY <1>5
    <3>. HIDE DEF paid
    <3>. QED  BY <1>2, <1>4, <1>5, <1>6, <3>1
  <2>. HIDE DEF paid
  <2>2. 0 < paid + 1 /\ paid <= y
    BY <1>5, <2>1, Cancelled
  <2>. QED  BY <1>5, <2>2
<1>9. paid = Interest(b, t, f)
  BY DEF Interest, n
<1>. HIDE DEF paid
<1>10. paid * u <= y * u
  BY <1>8, ProductMonotone
<1>11. /\ (f * paid) * e = paid * u /\ (y * f) * e = y * u /\ f * e = u
       /\ paid * u \in Nat /\ y * u \in Nat /\ d * e \in Nat
  <2>1. \A v \in Nat : (f * v) * e = v * (f * e) /\ (v * f) * e = v * (f * e)
    OBVIOUS
  <2>2. \A v, w \in Nat : v * w \in Nat
    OBVIOUS
  <2>. QED  BY <1>1, <1>8, <2>1, <2>2
<1>12. e \in Nat \ {0}
  <2>1. f * 0 = 0
    OBVIOUS
  <2>. QED  BY <2>1
<1>13. ASSUME NEW v \in Int, NEW w \in Int, v < w  PROVE v * e < w * e
  <2>1. w - v - 1 \in Nat
    BY <1>13
  <2>2. (w - v - 1) * e \in Nat
    BY <2>1
  <2>3. (w - v - 1) * e = w * e - v * e - e /\ w * e \in Int /\ v * e \in Int
    OBVIOUS
  <2>. QED  BY <1>12, <2>2, <2>3
<1>14. CASE t % f = 0
  <2>1. y * f - d < f * paid /\ y * f - d \in Int /\ f * paid \in Int
    BY <1>1, <1>2, <1>4, <1>7, <1>14
  <2>2. (y * f - d) * e < (f * paid) * e
    BY <1>13, <2>1
  <2>3. (y * f - d) * e = (y * f) * e - d * e
    BY <1>1, <1>4
  <2>4. y * u - d * e < paid * u
    BY <1>11, <2>2, <2>3
  <2>5. d * e + 0 = d * e
    BY <1>11
  <2>. QED  BY <1>2, <1>8, <1>9, <1>10, <1>14, <2>4, <2>5 DEF d
<1>15. CASE t % f # 0
  <2>1. y * f - d - f < f * paid /\ y * f - d - f \in Int /\ f * paid \in Int
    BY <1>1, <1>2, <1>4, <1>6, <1>8
  <2>2. (y * f - d - f) * e < (f * paid) * e
    BY <1>13, <2>1
  <2>3. (y * f - d - f) * e = (y * f) * e - d * e - f * e
    BY <1>1, <1>4
  <2>4. y * u - (d * e + u) < paid * u
    BY <1>11, <2>2, <2>3
  <2>. QED  BY <1>2, <1>8, <1>9, <1>10, <1>15, <2>4 DEF d
<1>. QED  BY <1>14, <1>15

-----------------------------------------------------------------------------
(* The second invariant: what is claimed is right.                          *)

\* The ledger: times and indices do not go back, each index divides the unit, and
\* what a transaction posts, and what it does not, is what is held after it.
LedgerInv ==
  /\ \A j, k \in 1..Len(history) : j <= k => history[j].ts <= history[k].ts
  /\ \A k \in 1..Len(history) : history[k].ts <= clock
  /\ \A j, k \in allIndexUpdates(history) : j <= k => history[j].index <= history[k].index
  /\ \A k \in allIndexUpdates(history) : Unit % history[k].index = 0
  /\ DOMAIN history[1].post = Accounts
  /\ \A k \in 1..Len(history) : \A a \in DOMAIN history[k].post :
       history[k].post[a] = history[k].held[a]
  /\ \A k \in 2..Len(history) : \A a \in Accounts \ DOMAIN history[k].post :
       history[k].held[a] = history[k - 1].held[a]
  /\ \A k \in 2..Len(history) : history[k].index # 0 => history[k].held = history[k - 1].held
  /\ history[Len(history)].held = balance

\* An index and a time are those of an update.
Dated(index, ts) ==
  \E k \in allIndexUpdates(history) : history[k].index = index /\ history[k].ts = ts

DatesInv ==
  /\ Dated(global.index, global.timestamp)
  /\ \A e \in Earners : Dated(earner[e].lastClaimIndex, earner[e].lastClaimTimestamp)
  /\ \A k \in 1..Len(todo) :
       Dated(todo[k].data.lastClaimIndex, todo[k].data.lastClaimTimestamp)

\* A yield between what accrued and what rounding left of it.
Yields(y, ix) ==
  /\ ix.balance = (y * ix.from) \div (ix.to - ix.from)
  /\ y * Unit <= Accrued(ix.earner, ix.from, ix.to)
  /\ Accrued(ix.earner, ix.from, ix.to) - LostAtUpdates(ix.from, ix.to) <= y * Unit

\* A claim of what its earner accrued.
ClaimRight(ix) ==
  /\ ix.from \in Nat \ {0} /\ ix.to \in Nat /\ ix.from < ix.to /\ ix.to <= mIndex.index
  /\ Unit % ix.from = 0 /\ history[1].index <= ix.from
  /\ \E y \in Nat : Yields(y, ix)

AllRight(list) == \A k \in 1..Len(list) : IsClaim(list[k]) => ClaimRight(list[k])

ClaimsInv ==
  UpdatesApart => AllRight(ixs) /\ \A i \in 1..Len(txns) : AllRight(txns[i].ixs)

-----------------------------------------------------------------------------
(* The ledger, and what a balance earns.                                    *)

LEMMA SumToZeros ==
  ASSUME NEW n \in Nat, NEW m \in 0..n, NEW term, \A k \in 1..n : term[k] \in Int,
         \A k \in (m + 1)..n : term[k] = 0
  PROVE  SumTo(term, n) = SumTo(term, m)
<1>. DEFINE T == {k \in m..n : SumTo(term, k) # SumTo(term, m)}
<1>1. SUFFICES ASSUME T # {}  PROVE FALSE
  OBVIOUS
<1>2. T \in SUBSET (0..n)
  OBVIOUS
<1>. DEFINE k == Min(T)
<1>3. k \in T /\ \A j \in T : k <= j
  <2>. HIDE DEF T
  <2>. QED  BY <1>1, <1>2, GreatestOf
<1>. HIDE DEF k
<1>4. k # m
  BY <1>3
<1>5. k \in (m + 1)..n /\ k - 1 \in m..n /\ k - 1 \in 0..n /\ ~ (k <= k - 1) /\ k - 1 \in Nat
      /\ (k - 1) + 1 = k
  BY <1>3, <1>4
<1>6. SumTo(term, k - 1) = SumTo(term, m)
  BY <1>3, <1>5
<1>7. SumTo(term, (k - 1) + 1) = SumTo(term, k - 1) + term[(k - 1) + 1]
  BY <1>5, SumToIs
<1>8. SumTo(term, k - 1) \in Int
  BY <1>5, SumToInt
<1>9. SumTo(term, k) = SumTo(term, m)
  BY <1>5, <1>6, <1>7, <1>8
<1>. QED  BY <1>3, <1>9

LEMMA RowsAre ==
  ASSUME HistoryInv
  PROVE  /\ Len(history) \in Nat \ {0} /\ history \in Seq(RowData)
         /\ 1 \in allIndexUpdates(history)
         /\ \A k \in 1..Len(history) : /\ history[k].ts \in Nat /\ history[k].index \in Nat
                                       /\ history[k].held \in [Accounts -> Nat]
         /\ allIndexUpdates(history) \in SUBSET (1..Len(history))
         /\ \A k \in allIndexUpdates(history) :
              k \in Nat /\ history[k].index \in Nat \ {0} /\ history[k].index <= mIndex.index
         /\ indexed \in 1..Len(history) /\ indexed \in Nat \ {0}
         /\ RowsOK(db) /\ Len(db) = indexed /\ \A k \in 1..indexed : db[k] = history[k]
<1>1. /\ history \in Seq(RowData) /\ indexed \in 1..Len(history) /\ RowsOK(history)
      /\ \A k \in 1..Len(history) : history[k].index <= mIndex.index
  BY DEF HistoryInv
<1>2. Len(db) = indexed /\ \A k \in 1..indexed : db[k] = history[k] /\ k \in 1..Len(history)
  BY <1>1 DEF db
<1>3. RowsOK(db)
  BY <1>1, <1>2 DEF RowsOK
<1>4. \A k \in 1..Len(history) : history[k] \in RowData
  BY <1>1
<1>5. \A k \in 1..Len(history) : /\ history[k].ts \in Nat /\ history[k].index \in Nat
                                 /\ history[k].held \in [Accounts -> Nat]
  BY <1>4 DEF RowData
<1>6. 1 \in 1..Len(history) /\ Len(history) \in Nat \ {0} /\ history[1].index # 0
  BY <1>1 DEF RowsOK
<1>7. allIndexUpdates(history) = {k \in 1..Len(history) : history[k].index # 0}
  BY DEF allIndexUpdates
<1>. QED  BY <1>1, <1>2, <1>3, <1>5, <1>6, <1>7

LEMMA UpdatesOrdered ==
  ASSUME HistoryInv, LedgerInv, UpdatesApart, NEW k \in allIndexUpdates(history),
         NEW j \in 1..Len(history)
  PROVE  /\ j < k => history[j].ts < history[k].ts
         /\ k < j => history[k].ts < history[j].ts
<1>1. k \in 1..Len(history) /\ history[j].ts \in Nat /\ history[k].ts \in Nat
  BY RowsAre
<1>2. j # k => history[j].ts # history[k].ts
  BY DEF UpdatesApart
<1>3. \A m, n \in 1..Len(history) : m <= n => history[m].ts <= history[n].ts
  BY DEF LedgerInv
<1>4. /\ j < k => history[j].ts <= history[k].ts
      /\ k < j => history[k].ts <= history[j].ts
  BY <1>1, <1>3
<1>. QED  BY <1>1, <1>2, <1>4

\* What getBalanceAt finds for the time of an update is what was held at it.
LEMMA BalanceIs ==
  ASSUME HistoryInv, LedgerInv, UpdatesApart, NEW a \in Accounts,
         NEW k \in allIndexUpdates(history), k \in 2..indexed
  PROVE  getBalanceAt(db, a, history[k].ts) = history[k].held[a]
<1>1. /\ Len(history) \in Nat \ {0} /\ indexed \in 1..Len(history) /\ indexed \in Nat \ {0}
      /\ Len(db) = indexed /\ \A j \in 1..indexed : db[j] = history[j]
      /\ k \in Nat
  BY RowsAre
<1>2. /\ \A j \in 1..Len(history) : j < k => history[j].ts < history[k].ts
      /\ \A j \in 1..Len(history) : k <= j => ~ (history[j].ts < history[k].ts)
  <2>1. \A j \in 1..Len(history) : history[j].ts \in Nat
    BY RowsAre
  <2>2. ASSUME NEW j \in 1..Len(history), k <= j  PROVE ~ (history[j].ts < history[k].ts)
    <3>1. history[k].ts <= history[j].ts
      BY <1>1, <2>2 DEF LedgerInv, allIndexUpdates
    <3>. QED  BY <2>1, <3>1, <1>1
  <2>. QED  BY <2>2, UpdatesOrdered
<1>. DEFINE T == {j \in 1..Len(db) : a \in DOMAIN db[j].post /\ db[j].ts < history[k].ts}
<1>3. /\ T \in SUBSET (0..indexed) /\ 1 \in T
      /\ \A j \in T : j < k /\ j \in 1..Len(history) /\ a \in DOMAIN history[j].post
      /\ \A j \in 1..(k - 1) : a \in DOMAIN history[j].post => j \in T
  <2>1. \A j : j \in T <=> /\ j \in 1..indexed /\ a \in DOMAIN history[j].post
                           /\ history[j].ts < history[k].ts
    BY <1>1
  <2>2. \A j \in 1..indexed : j \in 1..Len(history) /\ (~ (k <= j) <=> j < k)
    BY <1>1
  <2>3. 1 \in 1..indexed /\ 1 < k /\ DOMAIN history[1].post = Accounts
    BY <1>1 DEF LedgerInv
  <2>4. \A j \in 1..(k - 1) : j \in 1..indexed /\ j < k
    BY <1>1
  <2>5. 1 \in T
    BY <1>2, <2>1, <2>2, <2>3
  <2>6. \A j \in T : j < k /\ j \in 1..Len(history) /\ a \in DOMAIN history[j].post
    BY <1>2, <2>1, <2>2
  <2>7. \A j \in 1..(k - 1) : a \in DOMAIN history[j].post => j \in T
    BY <1>2, <2>1, <2>2, <2>4
  <2>. QED  BY <1>1, <2>5, <2>6, <2>7
<1>4. getBalanceAt(db, a, history[k].ts) = db[Max(T)].post[a]
  BY <1>3 DEF getBalanceAt
<1>. HIDE DEF T
<1>. DEFINE m == Max(T)
<1>5. m \in T /\ \A j \in T : j <= m
  BY <1>1, <1>3, GreatestOf
<1>6. m \in 1..indexed /\ m < k /\ m \in 1..(k - 1)
  BY <1>1, <1>3, <1>5 DEF T
<1>7. db[m].post[a] = history[m].held[a]
  BY <1>1, <1>3, <1>5, <1>6 DEF LedgerInv
<1>8. \A j \in (m + 1)..(k - 1) : a \notin DOMAIN history[j].post
  <2>1. \A j \in (m + 1)..(k - 1) : j \in 1..(k - 1) /\ ~ (j <= m)
    BY <1>1, <1>6
  <2>. QED  BY <1>3, <1>5, <2>1
<1>. HIDE DEF m
<1>. DEFINE U == {j \in m..(k - 1) : history[j].held[a] # history[m].held[a]}
<1>9. U = {}
  <2>1. SUFFICES ASSUME U # {}  PROVE FALSE
    OBVIOUS
  <2>2. U \in SUBSET (0..k) /\ k \in Nat
    BY <1>1, <1>6
  <2>. DEFINE j == Min(U)
  <2>3. j \in U /\ \A i \in U : j <= i
    <3>. HIDE DEF U
    <3>. QED  BY <2>1, <2>2, GreatestOf
  <2>. HIDE DEF j
  <2>4. j # m
    BY <2>3
  <2>5. j \in (m + 1)..(k - 1) /\ j - 1 \in m..(k - 1) /\ ~ (j <= j - 1) /\ j \in 2..Len(history)
    BY <1>1, <1>6, <2>3, <2>4
  <2>6. history[j - 1].held[a] = history[m].held[a]
    BY <2>3, <2>5
  <2>7. history[j].held[a] = history[j - 1].held[a]
    BY <1>8, <2>5 DEF LedgerInv
  <2>. QED  BY <2>3, <2>6, <2>7
<1>10. k - 1 \in m..(k - 1)
  BY <1>1, <1>6
<1>11. history[k - 1].held[a] = history[m].held[a]
  BY <1>9, <1>10
<1>12. history[k].held = history[k - 1].held
  <2>1. k \in 2..Len(history) /\ history[k].index # 0
    BY <1>1 DEF allIndexUpdates
  <2>. QED  BY <2>1 DEF LedgerInv
<1>. QED  BY <1>4, <1>7, <1>11, <1>12 DEF m

LEMMA BeforeIs ==
  ASSUME HistoryInv, NEW k \in allIndexUpdates(history), k # 1
  PROVE  /\ Before(k) \in allIndexUpdates(history) /\ Before(k) < k
         /\ \A j \in allIndexUpdates(history) : j < k => j <= Before(k)
<1>. DEFINE T == {j \in allIndexUpdates(history) : j < k}
<1>1. /\ Len(history) \in Nat /\ 1 \in allIndexUpdates(history)
      /\ allIndexUpdates(history) \in SUBSET (1..Len(history))
  BY RowsAre
<1>2. 1 \in T /\ T \in SUBSET (0..Len(history))
  BY <1>1
<1>3. Max(T) \in T /\ \A j \in T : j <= Max(T)
  <2>. HIDE DEF T
  <2>. QED  BY <1>1, <1>2, GreatestOf
<1>. QED  BY <1>3 DEF Before

LEMMA PartIs ==
  ASSUME NEW index \in Nat \ {0}, Unit % index = 0
  PROVE  Part(index) \in Nat /\ index * Part(index) = Unit
<1>1. Unit \in Nat
  BY BotAssumption
<1>. QED  BY <1>1, Divides DEF Part

\* The update k, when the one before it is j: what a balance earned at it, and what
\* rounding may have cost.
LEMMA TermsAre ==
  ASSUME HistoryInv, LedgerInv, NEW a \in Accounts, NEW from \in Nat, NEW to \in Nat,
         history[1].index <= from, NEW k \in 1..Len(history)
  PROVE  /\ Earned(a, from, to)[k] \in Int /\ Rounded(from, to)[k] \in Int
         /\ ~ Within(k, from, to) => Earned(a, from, to)[k] = 0 /\ Rounded(from, to)[k] = 0
         /\ Within(k, from, to) =>
              /\ k \in allIndexUpdates(history) /\ k # 1
              /\ LET p == to * Part(history[Before(k)].index)
                     q == to * Part(history[k].index)
                 IN  /\ p \in Nat /\ q \in Nat
                     /\ Earned(a, from, to)[k] = history[k].held[a] * (p - q)
                     /\ Rounded(from, to)[k] =
                          IF history[k].index % history[Before(k)].index = 0 THEN 0 ELSE q
<1>1. Earned(a, from, to)[k] =
        IF Within(k, from, to)
        THEN history[k].held[a] * (to * Part(history[Before(k)].index) - to * Part(history[k].index))
        ELSE 0
  BY DEF Earned
<1>2. Rounded(from, to)[k] =
        IF Within(k, from, to) /\ history[k].index % history[Before(k)].index # 0
        THEN to * Part(history[k].index)
        ELSE 0
  BY DEF Rounded
<1>3. CASE ~ Within(k, from, to)
  BY <1>1, <1>2, <1>3
<1>4. CASE Within(k, from, to)
  <2>1. history[k].index \in Nat /\ from < history[k].index
    BY <1>4, RowsAre DEF Within
  <2>2. k \in allIndexUpdates(history) /\ k # 1
    <3>1. history[1].index \in Nat
      BY RowsAre
    <3>. QED  BY <2>1, <3>1 DEF allIndexUpdates
  <2>3. Before(k) \in allIndexUpdates(history)
    BY <2>2, BeforeIs
  <2>4. \A j \in allIndexUpdates(history) : history[j].index \in Nat \ {0} /\ Unit % history[j].index = 0
    BY RowsAre DEF LedgerInv
  <2>. DEFINE p == to * Part(history[Before(k)].index)
              q == to * Part(history[k].index)
  <2>5. p \in Nat /\ q \in Nat
    <3>1. Part(history[Before(k)].index) \in Nat /\ Part(history[k].index) \in Nat
      BY <2>2, <2>3, <2>4, PartIs
    <3>2. \A v, w \in Nat : v * w \in Nat
      OBVIOUS
    <3>. QED  BY <3>1, <3>2
  <2>6. history[k].held[a] \in Nat
    BY RowsAre
  <2>7. history[k].held[a] * (p - q) \in Int
    <3>. HIDE DEF p, q
    <3>1. \A v, w \in Int : v * w \in Int
      OBVIOUS
    <3>. QED  BY <2>5, <2>6, <3>1
  <2>8. Earned(a, from, to)[k] = history[k].held[a] * (p - q)
    BY <1>1, <1>4
  <2>9. Rounded(from, to)[k] = IF history[k].index % history[Before(k)].index = 0 THEN 0 ELSE q
    BY <1>2, <1>4
  <2>. HIDE DEF p, q
  <2>10. Rounded(from, to)[k] \in Int
    BY <2>5, <2>9
  <2>. QED  BY <1>4, <2>2, <2>5, <2>7, <2>8, <2>9, <2>10 DEF p, q
<1>. QED  BY <1>3, <1>4

\* Nothing is earned at an update that does not follow a smaller index than the last.
LEMMA NothingMore ==
  ASSUME HistoryInv, LedgerInv, NEW a \in Accounts, NEW from \in Nat, NEW to \in Nat,
         history[1].index <= from, NEW k \in 1..Len(history),
         NEW n \in allIndexUpdates(history), n < k, to <= history[n].index
  PROVE  Earned(a, from, to)[k] = 0 /\ Rounded(from, to)[k] = 0
<1>1. SUFFICES ASSUME Within(k, from, to)
               PROVE  Earned(a, from, to)[k] = 0 /\ Rounded(from, to)[k] = 0
  BY TermsAre
<1>. DEFINE j == Before(k)
            p == to * Part(history[j].index)
            q == to * Part(history[k].index)
<1>2. /\ k \in allIndexUpdates(history) /\ k # 1 /\ p \in Nat /\ q \in Nat
      /\ Earned(a, from, to)[k] = history[k].held[a] * (p - q)
      /\ Rounded(from, to)[k] = IF history[k].index % history[j].index = 0 THEN 0 ELSE q
  BY <1>1, TermsAre
<1>3. j \in allIndexUpdates(history) /\ j < k /\ n <= j
  BY <1>2, BeforeIs
<1>4. history[n].index <= history[j].index /\ history[j].index <= history[k].index
  <2>1. j \in Nat /\ k \in Nat
    BY <1>2, <1>3, RowsAre
  <2>. QED  BY <1>2, <1>3, <2>1 DEF LedgerInv
<1>5. /\ history[n].index \in Nat \ {0} /\ history[j].index \in Nat \ {0}
      /\ history[k].index \in Nat \ {0} /\ history[k].index <= to
  BY <1>1, <1>2, <1>3, RowsAre DEF Within
<1>6. history[j].index = to /\ history[k].index = to
  BY <1>4, <1>5
<1>7. p = q
  BY <1>6
<1>8. history[k].held[a] * (p - q) = 0
  <2>1. history[k].held[a] \in Nat
    BY RowsAre
  <2>2. p - q = 0
    BY <1>2, <1>7
  <2>. HIDE DEF p, q
  <2>. QED  BY <2>1, <2>2
<1>9. history[k].index % history[j].index = 0
  <2>1. \A v \in Nat \ {0} : v % v = 0
    OBVIOUS
  <2>. QED  BY <1>5, <1>6, <2>1
<1>. QED  BY <1>2, <1>8, <1>9

-----------------------------------------------------------------------------
(* The walk.                                                                *)

\* The walk w over the first k rows, from the update start: its yield is what
\* accrued, but for what rounding cost.
Walked(w, k, start, a, to) ==
  \E j \in allIndexUpdates(history) :
    LET from == history[start].index
        worth == w.claimYield * (to * Part(history[j].index))
        accrued == SumTo(Earned(a, from, to), k)
    IN  /\ start <= j /\ j <= indexed /\ (j <= k \/ j = start)
        /\ \A i \in allIndexUpdates(history) : i <= k => i <= j
        /\ w.last = history[j] /\ w.claimYield \in Nat
        /\ worth <= accrued
        /\ accrued - SumTo(Rounded(from, to), k) <= worth

\* A row at which the walk stays where it is, and nothing is earned.
LEMMA WalkedOn ==
  ASSUME HistoryInv, LedgerInv, NEW a \in Accounts, NEW to \in Nat,
         NEW start \in allIndexUpdates(history), NEW w, NEW k \in 1..indexed,
         Walked(w, k - 1, start, a, to), k <= start \/ history[k].index = 0
  PROVE  Walked(w, k, start, a, to)
<1>. DEFINE from == history[start].index
            E(i) == SumTo(Earned(a, from, to), i)
            R(i) == SumTo(Rounded(from, to), i)
<1>1. PICK j \in allIndexUpdates(history) :
        LET worth == w.claimYield * (to * Part(history[j].index))
        IN  /\ start <= j /\ j <= indexed /\ (j <= k - 1 \/ j = start)
            /\ \A i \in allIndexUpdates(history) : i <= k - 1 => i <= j
            /\ w.last = history[j] /\ w.claimYield \in Nat
            /\ worth <= E(k - 1)
            /\ E(k - 1) - R(k - 1) <= worth
  BY DEF Walked
<1>2. /\ k \in 1..Len(history) /\ start \in 1..Len(history) /\ from \in Nat \ {0}
      /\ k - 1 \in Nat /\ (k - 1) + 1 = k /\ k \in Nat /\ start \in Nat /\ j \in Nat
      /\ history[k].index \in Nat
      /\ \A i \in allIndexUpdates(history) : i \in Nat
  BY RowsAre
<1>3. history[1].index <= from
  BY <1>2, RowsAre DEF LedgerInv
<1>4. ~ Within(k, from, to)
  <2>1. CASE history[k].index = 0
    BY <1>2, <2>1 DEF Within
  <2>2. CASE history[k].index # 0 /\ k <= start
    <3>1. k \in allIndexUpdates(history)
      BY <1>2, <2>2 DEF allIndexUpdates
    <3>2. history[k].index <= from
      BY <2>2, <3>1 DEF LedgerInv
    <3>. QED  BY <1>2, <3>2 DEF Within
  <2>. QED  BY <2>1, <2>2
<1>5. Earned(a, from, to)[k] = 0 /\ Rounded(from, to)[k] = 0
  <2>. HIDE DEF from
  <2>. QED  BY <1>2, <1>3, <1>4, TermsAre
<1>6. E(k) = E(k - 1) /\ R(k) = R(k - 1)
  <2>. DEFINE term == Earned(a, from, to)
              lost == Rounded(from, to)
  <2>1. \A i \in 1..Len(history) : term[i] \in Int /\ lost[i] \in Int
    <3>. HIDE DEF from
    <3>. QED  BY <1>2, <1>3, TermsAre
  <2>2. term[k] = 0 /\ lost[k] = 0
    BY <1>5
  <2>. HIDE DEF term, lost
  <2>3. SumTo(term, k - 1) \in Int /\ SumTo(lost, k - 1) \in Int
    <3>1. Len(history) \in Nat /\ k - 1 \in 0..Len(history)
      BY <1>2, RowsAre
    <3>. QED  BY <2>1, <3>1, SumToInt
  <2>4. /\ SumTo(term, (k - 1) + 1) = SumTo(term, k - 1) + term[(k - 1) + 1]
        /\ SumTo(lost, (k - 1) + 1) = SumTo(lost, k - 1) + lost[(k - 1) + 1]
    BY <1>2, SumToIs
  <2>5. SumTo(term, k) = SumTo(term, k - 1) /\ SumTo(lost, k) = SumTo(lost, k - 1)
    BY <1>2, <2>2, <2>3, <2>4
  <2>. QED  BY <2>5 DEF term, lost
<1>7. \A i \in allIndexUpdates(history) : i <= k => i <= j
  <2>1. ASSUME NEW i \in allIndexUpdates(history), i <= k  PROVE i <= j
    <3>1. CASE i = k
      <4>1. history[k].index # 0
        BY <3>1 DEF allIndexUpdates
      <4>. QED  BY <1>1, <1>2, <3>1, <4>1
    <3>2. CASE i # k
      BY <1>1, <1>2, <2>1, <3>2
    <3>. QED  BY <3>1, <3>2
  <2>. QED  BY <2>1
<1>8. j <= k \/ j = start
  BY <1>1, <1>2
<1>. HIDE DEF E, R
<1>9. LET worth == w.claimYield * (to * Part(history[j].index))
      IN  worth <= E(k) /\ E(k) - R(k) <= worth
  BY <1>1, <1>6
<1>. QED  BY <1>1, <1>7, <1>8, <1>9 DEF Walked, E, R

\* An update after the start: the walk compounds, and the update before it is the
\* one at which the walk was.
LEMMA WalkedUp ==
  ASSUME HistoryInv, LedgerInv, UpdatesApart, NEW a \in Accounts, NEW to \in Nat,
         NEW start \in allIndexUpdates(history), NEW w,
         NEW k \in allIndexUpdates(history), k \in 1..indexed, start < k,
         history[k].index <= to, Walked(w, k - 1, start, a, to)
  PROVE  Walked(WalkStep(db, a, w, db[k]), k, start, a, to)
<1>. DEFINE from == history[start].index
            E(i) == SumTo(Earned(a, from, to), i)
            R(i) == SumTo(Rounded(from, to), i)
<1>1. PICK j \in allIndexUpdates(history) :
        LET worth == w.claimYield * (to * Part(history[j].index))
        IN  /\ start <= j /\ j <= indexed /\ (j <= k - 1 \/ j = start)
            /\ \A i \in allIndexUpdates(history) : i <= k - 1 => i <= j
            /\ w.last = history[j] /\ w.claimYield \in Nat
            /\ worth <= E(k - 1)
            /\ E(k - 1) - R(k - 1) <= worth
  BY DEF Walked
<1>2. /\ k \in 1..Len(history) /\ j \in 1..Len(history) /\ from \in Nat \ {0}
      /\ k - 1 \in Nat /\ (k - 1) + 1 = k /\ k \in Nat /\ start \in Nat \ {0} /\ j \in Nat
      /\ \A i \in allIndexUpdates(history) : i \in Nat
      /\ db[k] = history[k] /\ k \in 2..indexed
  BY RowsAre
<1>3. history[1].index <= from
  BY <1>2, RowsAre DEF LedgerInv
<1>4. j < k /\ k # 1
  BY <1>1, <1>2
<1>5. Before(k) = j
  <2>1. Before(k) \in allIndexUpdates(history) /\ Before(k) < k
        /\ \A i \in allIndexUpdates(history) : i < k => i <= Before(k)
    BY <1>4, BeforeIs
  <2>2. PICK g \in Nat : g = Before(k)
    BY <1>2, <2>1
  <2>3. g \in allIndexUpdates(history) /\ g <= k - 1 /\ j <= g
    BY <1>2, <1>4, <2>1, <2>2
  <2>4. g <= j
    BY <1>1, <2>3
  <2>. QED  BY <1>2, <2>2, <2>3, <2>4
<1>. DEFINE l == history[j].index
            i == history[k].index
            p == to * Part(l)
            q == to * Part(i)
            b == history[k].held[a]
            y == w.claimYield
            z == ((y + b) * i) \div l - b
            e == b * (p - q)
            lost == IF i % l = 0 THEN 0 ELSE q
<1>6. /\ l \in Nat \ {0} /\ i \in Nat \ {0} /\ from <= l /\ l <= i
      /\ Unit % l = 0 /\ Unit % i = 0
  <2>1. l \in Nat \ {0} /\ i \in Nat \ {0}
    BY RowsAre
  <2>2. from <= l
    BY <1>1 DEF LedgerInv
  <2>3. l <= i
    BY <1>2, <1>4 DEF LedgerInv
  <2>. QED  BY <2>1, <2>2, <2>3 DEF LedgerInv
<1>7. b \in Nat
  BY <1>2, RowsAre
<1>8. WalkStep(db, a, w, db[k]).last = history[k] /\ WalkStep(db, a, w, db[k]).claimYield = z
  <2>1. history[k].ts # history[j].ts
    BY <1>2, <1>4 DEF UpdatesApart
  <2>2. getBalanceAt(db, a, history[k].ts) = b
    BY <1>2, BalanceIs
  <2>3. w.last = history[j]
    BY <1>1
  <2>. QED  BY <1>2, <2>1, <2>2, <2>3 DEF WalkStep, Compounded
<1>9. p \in Nat /\ q \in Nat /\ p * l = q * i
  <2>1. /\ Part(l) \in Nat /\ l * Part(l) = Unit
        /\ Part(i) \in Nat /\ i * Part(i) = Unit
    <3>. HIDE DEF l, i
    <3>. QED  BY <1>6, PartIs
  <2>2. \A v, x \in Nat : to * v \in Nat /\ (to * v) * x = to * (x * v)
    OBVIOUS
  <2>. HIDE DEF l, i
  <2>. QED  BY <1>6, <2>1, <2>2
<1>10. y \in Nat /\ y * p <= E(k - 1) /\ E(k - 1) - R(k - 1) <= y * p
  BY <1>1
<1>11. Earned(a, from, to)[k] = e /\ Rounded(from, to)[k] = lost
  <2>1. CASE Within(k, from, to)
    <3>1. LET v == to * Part(history[Before(k)].index)
              x == to * Part(history[k].index)
          IN  /\ Earned(a, from, to)[k] = history[k].held[a] * (v - x)
              /\ Rounded(from, to)[k] =
                   IF history[k].index % history[Before(k)].index = 0 THEN 0 ELSE x
      <4>. HIDE DEF from
      <4>. QED  BY <1>2, <1>3, <2>1, TermsAre
    <3>. QED  BY <1>5, <3>1
  <2>2. CASE ~ Within(k, from, to)
    <3>1. Earned(a, from, to)[k] = 0 /\ Rounded(from, to)[k] = 0
      <4>. HIDE DEF from
      <4>. QED  BY <1>2, <1>3, <2>2, TermsAre
    <3>2. i = l
      <4>1. ~ (from < i)
        BY <2>2 DEF Within
      <4>. HIDE DEF i, l, from
      <4>. QED  BY <1>2, <1>6, <4>1
    <3>3. e = 0
      <4>1. p = q
        BY <3>2
      <4>. HIDE DEF p, q, b
      <4>2. p - q = 0
        BY <1>9, <4>1
      <4>. QED  BY <1>7, <4>2
    <3>4. lost = 0
      <4>1. \A v \in Nat \ {0} : v % v = 0
        OBVIOUS
      <4>. HIDE DEF i, l
      <4>. QED  BY <1>6, <3>2, <4>1
    <3>. HIDE DEF e, lost
    <3>. QED  BY <3>1, <3>3, <3>4
  <2>. QED  BY <2>1, <2>2
<1>12. z \in Nat /\ z * q <= y * p + e /\ y * p + e - lost <= z * q
  <2>. HIDE DEF p, q, b, y, i, l
  <2>. QED  BY <1>6, <1>7, <1>9, <1>10, Grown
<1>13. E(k - 1) \in Int /\ R(k - 1) \in Int /\ e \in Int /\ lost \in Int
  <2>1. \A n \in 1..Len(history) : Earned(a, from, to)[n] \in Int /\ Rounded(from, to)[n] \in Int
    <3>. HIDE DEF from
    <3>. QED  BY <1>2, <1>3, TermsAre
  <2>2. Len(history) \in Nat /\ k - 1 \in 0..Len(history)
    BY <1>2, RowsAre
  <2>3. E(k - 1) \in Int /\ R(k - 1) \in Int
    <3>. HIDE DEF from
    <3>. QED  BY <2>1, <2>2, SumToInt
  <2>4. e \in Int /\ lost \in Int
    <3>. HIDE DEF e, lost
    <3>. QED  BY <1>2, <1>11, <2>1
  <2>. QED  BY <2>3, <2>4
<1>14. E(k) = E(k - 1) + e /\ R(k) = R(k - 1) + lost
  <2>. DEFINE term == Earned(a, from, to)
              cost == Rounded(from, to)
  <2>1. term[k] = e /\ cost[k] = lost
    BY <1>11
  <2>. HIDE DEF term, cost, e, lost
  <2>2. /\ SumTo(term, (k - 1) + 1) = SumTo(term, k - 1) + term[(k - 1) + 1]
        /\ SumTo(cost, (k - 1) + 1) = SumTo(cost, k - 1) + cost[(k - 1) + 1]
    BY <1>2, SumToIs
  <2>3. /\ SumTo(term, k) = SumTo(term, k - 1) + e
        /\ SumTo(cost, k) = SumTo(cost, k - 1) + lost
    BY <1>2, <2>1, <2>2
  <2>. QED  BY <2>3 DEF term, cost
<1>15. z * q <= E(k) /\ E(k) - R(k) <= z * q
  <2>1. y * p \in Nat /\ z * q \in Nat
    <3>1. \A v, x \in Nat : v * x \in Nat
      OBVIOUS
    <3>. HIDE DEF p, q, z, y
    <3>. QED  BY <1>9, <1>10, <1>12, <3>1
  <2>. HIDE DEF E, R, e, lost, z, y, p, q
  <2>. QED  BY <1>10, <1>12, <1>13, <1>14, <2>1
<1>16. \A m \in allIndexUpdates(history) : m <= k => m <= k
  OBVIOUS
<1>. DEFINE u == WalkStep(db, a, w, db[k])
<1>17. u.last = history[k] /\ u.claimYield = z
  BY <1>8
<1>18. start <= k /\ k <= indexed /\ k <= k
  BY <1>2
<1>19. LET worth == u.claimYield * (to * Part(history[k].index))
       IN  worth <= E(k) /\ E(k) - R(k) <= worth
  <2>. HIDE DEF u, z, E, R
  <2>1. u.claimYield * (to * Part(history[k].index)) = z * q
    BY <1>17
  <2>. DEFINE worth == u.claimYield * (to * Part(history[k].index))
  <2>2. worth = z * q
    BY <2>1
  <2>. HIDE DEF worth
  <2>3. worth <= E(k) /\ E(k) - R(k) <= worth
    BY <1>15, <2>2
  <2>. QED  BY <2>3 DEF worth
<1>. HIDE DEF u, z
<1>20. Walked(u, k, start, a, to)
  BY <1>12, <1>17, <1>18, <1>19 DEF Walked, E, R
<1>. QED  BY <1>20 DEF u

\* The walk over the updates from start on ends with what accrued.
LEMMA WalkEnds ==
  ASSUME HistoryInv, LedgerInv, UpdatesApart, NEW a \in Accounts,
         NEW start \in allIndexUpdates(history), start <= indexed,
         NEW n \in allIndexUpdates(history), n <= indexed,
         \A i \in allIndexUpdates(history) : i <= indexed => i <= n,
         NEW steps, steps = {k \in allIndexUpdates(history) : start <= k /\ k <= indexed}
  PROVE  LET from == history[start].index
             to == history[n].index
             y == Walk(db, a, steps).claimYield
             accrued == SumTo(Earned(a, from, to), indexed)
         IN  /\ y \in Nat
             /\ y * Unit <= accrued
             /\ accrued - SumTo(Rounded(from, to), indexed) <= y * Unit
<1>. DEFINE to == history[n].index
<1>1. /\ Len(history) \in Nat /\ indexed \in Nat \ {0} /\ indexed \in 1..Len(history)
      /\ Len(db) = indexed /\ \A k \in 1..indexed : db[k] = history[k]
      /\ \A i \in allIndexUpdates(history) : i \in Nat /\ i \in 1..Len(history)
      /\ \A i \in allIndexUpdates(history) : history[i].index \in Nat \ {0}
      /\ start \in Nat \ {0} /\ start \in 1..indexed /\ n \in 1..indexed /\ to \in Nat \ {0}
  BY RowsAre
<1>2. start \in steps /\ \A k \in steps : start <= k
  BY <1>1
<1>3. Min(steps) = start
  <2>1. steps \in SUBSET (0..Len(history))
    <3>1. \A k \in steps : k \in 1..Len(history)
      BY <1>1
    <3>2. \A k \in 1..Len(history) : k \in 0..Len(history)
      BY <1>1
    <3>. QED  BY <3>1, <3>2
  <2>2. Min(steps) \in steps /\ \A k \in steps : Min(steps) <= k
    BY <1>1, <1>2, <2>1, GreatestOf
  <2>3. PICK m \in Nat : m = Min(steps)
    BY <1>1, <2>2
  <2>. QED  BY <1>1, <1>2, <2>2, <2>3
<1>4. PICK r : /\ Walking(r, db, a, steps, Len(db))
               /\ Walk(db, a, steps) = r[Len(db)]
  <2>1. steps # {} /\ Len(db) \in Nat
    BY <1>1, <1>2
  <2>. QED  BY <2>1, WalkIs
<1>. DEFINE W(k) == Walked(r[k], k, start, a, to)
            T == {k \in 0..indexed : ~ W(k)}
<1>5. T = {}
  <2>1. SUFFICES ASSUME T # {}  PROVE FALSE
    OBVIOUS
  <2>2. T \in SUBSET (0..indexed)
    OBVIOUS
  <2>. DEFINE k == Min(T)
  <2>3. k \in T /\ \A j \in T : k <= j
    <3>. HIDE DEF T
    <3>. QED  BY <1>1, <2>1, <2>2, GreatestOf
  <2>. HIDE DEF k
  <2>4. CASE k = 0
    <3>1. r[0].last = history[start] /\ r[0].claimYield = 0
      BY <1>1, <1>3, <1>4 DEF Walking, StartOfWalk
    <3>. DEFINE from == history[start].index
                p == to * Part(from)
    <3>2. SumTo(Earned(a, from, to), 0) = 0 /\ SumTo(Rounded(from, to), 0) = 0
      <4>1. 0 \in Nat
        OBVIOUS
      <4>. HIDE DEF from, to
      <4>. QED  BY <4>1, SumToIs
    <3>3. p \in Nat
      <4>1. Unit % from = 0 /\ from \in Nat \ {0}
        BY <1>1 DEF LedgerInv
      <4>2. Part(from) \in Nat
        <5>. HIDE DEF from
        <5>. QED  BY <4>1, PartIs
      <4>3. \A v, x \in Nat : v * x \in Nat
        OBVIOUS
      <4>. HIDE DEF from, to
      <4>. QED  BY <1>1, <4>2, <4>3
    <3>4. 0 * p = 0 /\ 0 - 0 = 0 /\ 0 <= 0
      <4>. HIDE DEF p
      <4>. QED  BY <3>3
    <3>5. \A i \in allIndexUpdates(history) : i <= 0 => i <= start
      BY <1>1
    <3>6. start <= start /\ start <= indexed
      BY <1>1
    <3>7. r[0].claimYield * p = 0 /\ r[0].claimYield \in Nat
      BY <3>1, <3>4
    <3>8. /\ r[0].claimYield * p <= SumTo(Earned(a, from, to), 0)
          /\ SumTo(Earned(a, from, to), 0) - SumTo(Rounded(from, to), 0)
               <= r[0].claimYield * p
      <4>. HIDE DEF from, p, to
      <4>. QED  BY <3>2, <3>4, <3>7
    <3>9. W(0)
      <4>. HIDE DEF to
      <4>. QED  BY <3>1, <3>5, <3>6, <3>7, <3>8 DEF Walked
    <3>. QED  BY <2>3, <2>4, <3>9
  <2>5. CASE k # 0
    <3>1. k \in 1..indexed /\ k - 1 \in 0..indexed /\ ~ (k <= k - 1) /\ k \in Nat
      BY <1>1, <2>3, <2>5
    <3>2. Walked(r[k - 1], k - 1, start, a, to)
      BY <2>3, <3>1
    <3>3. r[k] = NextOfWalk(db, a, steps, r[k - 1], k)
      BY <1>1, <1>4, <3>1 DEF Walking
    <3>4. k \in steps <=> k \in allIndexUpdates(history) /\ start <= k
      BY <1>1, <3>1
    <3>5. k \in allIndexUpdates(history) <=> history[k].index # 0
      BY <1>1, <3>1 DEF allIndexUpdates
    <3>. DEFINE w == r[k - 1]
    <3>. HIDE DEF w, to
    <3>6. CASE k <= start \/ history[k].index = 0
      <4>1. Walked(w, k, start, a, to)
        BY <1>1, <3>1, <3>2, <3>6, WalkedOn DEF w
      <4>2. r[k] = w
        <5>1. CASE k \notin steps
          BY <3>3, <5>1 DEF NextOfWalk, w
        <5>2. CASE k \in steps
          <6>1. k = start
            BY <1>1, <3>1, <3>4, <3>5, <3>6, <5>2
          <6>2. PICK j \in allIndexUpdates(history) :
                  start <= j /\ (j <= k - 1 \/ j = start) /\ w.last = history[j]
            BY <3>2 DEF Walked, w
          <6>3. j = start
            BY <1>1, <3>1, <6>1, <6>2
          <6>4. db[k].ts = w.last.ts
            BY <1>1, <3>1, <6>1, <6>2, <6>3
          <6>. QED  BY <3>3, <5>2, <6>4 DEF NextOfWalk, WalkStep, w
        <5>. QED  BY <5>1, <5>2
      <4>. QED  BY <2>3, <4>1, <4>2
    <3>7. CASE ~ (k <= start \/ history[k].index = 0)
      <4>1. k \in steps /\ k \in allIndexUpdates(history) /\ start < k
        BY <1>1, <3>1, <3>4, <3>5, <3>7
      <4>2. r[k] = WalkStep(db, a, w, db[k])
        BY <3>3, <4>1 DEF NextOfWalk, w
      <4>3. history[k].index <= to
        <5>1. k <= n
          BY <3>1, <4>1
        <5>. QED  BY <4>1, <5>1 DEF LedgerInv, to
      <4>4. Walked(WalkStep(db, a, w, db[k]), k, start, a, to)
        BY <1>1, <3>1, <3>2, <4>1, <4>3, WalkedUp DEF w
      <4>. QED  BY <2>3, <4>2, <4>4
    <3>. QED  BY <3>6, <3>7
  <2>. QED  BY <2>4, <2>5
<1>6. W(indexed)
  <2>1. indexed \in 0..indexed
    BY <1>1
  <2>. HIDE DEF W
  <2>. QED  BY <1>5, <2>1
<1>. DEFINE y == Walk(db, a, steps).claimYield
            A == SumTo(Earned(a, history[start].index, to), indexed)
            L == SumTo(Rounded(history[start].index, to), indexed)
<1>. HIDE DEF to
<1>7. PICK j \in allIndexUpdates(history) :
        /\ j <= indexed /\ (\A i \in allIndexUpdates(history) : i <= indexed => i <= j)
        /\ r[indexed].claimYield \in Nat
        /\ r[indexed].claimYield * (to * Part(history[j].index)) <= A
        /\ A - L <= r[indexed].claimYield * (to * Part(history[j].index))
  <2>1. start <= indexed
    BY <1>1
  <2>. QED  BY <1>1, <1>6, <2>1 DEF Walked
<1>8. j = n
  BY <1>1, <1>7
<1>9. to * Part(history[j].index) = Unit
  <2>1. Unit % to = 0
    BY DEF LedgerInv, to
  <2>2. to * Part(to) = Unit
    BY <1>1, <2>1, PartIs
  <2>. QED  BY <1>8, <2>2 DEF to
<1>10. y = r[indexed].claimYield
  BY <1>1, <1>4
<1>. HIDE DEF y, A, L
<1>11. y \in Nat /\ y * Unit <= A /\ A - L <= y * Unit
  BY <1>7, <1>9, <1>10
<1>. QED  BY <1>11 DEF y, A, L, to

\* Nothing accrues up to an index after the last update to it.
LEMMA AccruedAt ==
  ASSUME HistoryInv, LedgerInv, NEW a \in Accounts, NEW from \in Nat, history[1].index <= from,
         NEW n \in allIndexUpdates(history), n <= indexed
  PROVE  LET to == history[n].index
         IN  /\ Accrued(a, from, to) = SumTo(Earned(a, from, to), indexed)
             /\ LostAtUpdates(from, to) = SumTo(Rounded(from, to), indexed)
<1>. DEFINE to == history[n].index
            E == Earned(a, from, to)
            R == Rounded(from, to)
            m == Len(history)
<1>1. /\ m \in Nat /\ indexed \in 0..m /\ to \in Nat /\ n \in Nat /\ n \in 1..m
      /\ indexed \in Nat
  BY RowsAre
<1>2. \A k \in 1..m : E[k] \in Int /\ R[k] \in Int
  BY <1>1, TermsAre
<1>3. \A k \in (indexed + 1)..m : E[k] = 0 /\ R[k] = 0
  <2>1. ASSUME NEW k \in (indexed + 1)..m  PROVE E[k] = 0 /\ R[k] = 0
    <3>1. k \in 1..m /\ n < k
      BY <1>1, <2>1
    <3>2. to <= history[n].index
      BY <1>1
    <3>. QED  BY <1>1, <3>1, <3>2, NothingMore
  <2>. QED  BY <2>1
<1>4. Accrued(a, from, to) = SumTo(E, m) /\ LostAtUpdates(from, to) = SumTo(R, m)
  BY DEF Accrued, LostAtUpdates
<1>. HIDE DEF E, R, m
<1>5. SumTo(E, m) = SumTo(E, indexed) /\ SumTo(R, m) = SumTo(R, indexed)
  BY <1>1, <1>2, <1>3, SumToZeros
<1>. QED  BY <1>4, <1>5 DEF E, R

\* What the bot claims, on data read from the chain at any time.
LEMMA BuiltRight ==
  ASSUME HistoryInv, LedgerInv, UpdatesApart, NEW e \in Earners, NEW data \in EarnerData,
         Dated(data.lastClaimIndex, data.lastClaimTimestamp), ~ AlreadyClaimed(db, data),
         NEW ix, ix.earner = e, ix.balance = ClaimBalance(db, e, data),
         ix.from = data.lastClaimIndex, ix.to = currentIndex(db).index
  PROVE  ClaimRight(ix)
<1>1. /\ Len(history) \in Nat /\ indexed \in Nat \ {0} /\ indexed \in 1..Len(history)
      /\ Len(db) = indexed /\ (\A k \in 1..indexed : db[k] = history[k]) /\ RowsOK(db)
      /\ \A i \in allIndexUpdates(history) : i \in Nat /\ i \in 1..Len(history)
      /\ \A i \in allIndexUpdates(history) :
           history[i].index \in Nat \ {0} /\ history[i].index <= mIndex.index
      /\ \A i \in 1..Len(history) : history[i].ts \in Nat
      /\ 1 \in allIndexUpdates(history)
  BY RowsAre
<1>2. PICK start \in allIndexUpdates(history) :
        history[start].index = data.lastClaimIndex /\ history[start].ts = data.lastClaimTimestamp
  BY DEF Dated
<1>3. PICK n \in 1..Len(db) : /\ currentIndex(db) = db[n] /\ db[n].index \in Nat \ {0}
                              /\ \A j \in (n + 1)..Len(db) : db[j].index = 0
  BY <1>1, CurrentIndexIs
<1>4. /\ n \in allIndexUpdates(history) /\ n <= indexed /\ n \in 1..Len(history)
      /\ currentIndex(db) = history[n] /\ n \in Nat
  BY <1>1, <1>3 DEF allIndexUpdates
<1>5. \A i \in allIndexUpdates(history) : i <= indexed => i <= n
  <2>1. ASSUME NEW i \in allIndexUpdates(history), i <= indexed, ~ (i <= n)  PROVE FALSE
    <3>1. i \in (n + 1)..Len(db) /\ i \in 1..indexed
      BY <1>1, <1>4, <2>1
    <3>2. history[i].index = 0
      BY <1>1, <1>3, <3>1
    <3>. QED  BY <1>1, <2>1, <3>2
  <2>. QED  BY <2>1
<1>6. history[start].index < history[n].index
  BY <1>1, <1>2, <1>4 DEF AlreadyClaimed
<1>7. start < n
  <2>1. n <= start => history[n].index <= history[start].index
    BY <1>4 DEF LedgerInv
  <2>. QED  BY <1>1, <1>4, <1>6, <2>1
<1>. DEFINE steps == {k \in allIndexUpdates(history) : start <= k /\ k <= indexed}
<1>8. Steps(db, data) = steps
  <2>1. \A k : k \in Steps(db, data) <=>
          /\ k \in 1..indexed /\ history[k].index # 0
          /\ history[k].ts >= history[start].ts /\ history[k].ts < history[n].ts + 1
    BY <1>1, <1>2, <1>4 DEF Steps, indexUpdates, allIndexUpdates
  <2>2. \A k : k \in steps <=> /\ k \in 1..indexed /\ history[k].index # 0 /\ start <= k
    BY <1>1 DEF allIndexUpdates
  <2>3. ASSUME NEW k \in 1..indexed, history[k].index # 0
        PROVE  /\ start <= k <=> history[k].ts >= history[start].ts
               /\ history[k].ts < history[n].ts + 1
    <3>1. k \in 1..Len(history) /\ k \in allIndexUpdates(history) /\ k \in Nat /\ start \in 1..Len(history)
          /\ history[k].ts \in Nat /\ history[n].ts \in Nat /\ history[start].ts \in Nat
          /\ start \in Nat
      BY <1>1, <1>4, <2>3 DEF allIndexUpdates
    <3>2. start <= k => history[start].ts <= history[k].ts
      BY <3>1 DEF LedgerInv
    <3>3. k < start => history[k].ts < history[start].ts
      BY <3>1, UpdatesOrdered
    <3>4. k <= n
      BY <1>5, <3>1, <2>3
    <3>5. history[k].ts <= history[n].ts
      BY <1>4, <3>1, <3>4 DEF LedgerInv
    <3>. QED  BY <3>1, <3>2, <3>3, <3>5
  <2>4. \A k : k \in Steps(db, data) <=> k \in steps
    <3>. HIDE DEF steps
    <3>. QED  BY <2>1, <2>2, <2>3
  <2>. QED  BY <2>4 DEF Steps, indexUpdates
<1>. DEFINE from == history[start].index
            to == history[n].index
            y == Walk(db, e, steps).claimYield
<1>9. e \in Accounts /\ start <= indexed
  BY <1>1, <1>4, <1>7 DEF Accounts
<1>10. LET accrued == SumTo(Earned(e, from, to), indexed)
       IN  /\ y \in Nat /\ y * Unit <= accrued
           /\ accrued - SumTo(Rounded(from, to), indexed) <= y * Unit
  <2>. HIDE DEF steps
  <2>. QED  BY <1>4, <1>5, <1>9, WalkEnds DEF steps
<1>11. /\ ix.from = from /\ ix.to = to
       /\ ix.balance = (y * ix.from) \div (ix.to - ix.from)
  BY <1>2, <1>4, <1>8 DEF ClaimBalance
<1>12. /\ from \in Nat \ {0} /\ to \in Nat /\ from < to /\ to <= mIndex.index
       /\ Unit % from = 0 /\ history[1].index <= from
  <2>1. history[1].index <= history[start].index
    BY <1>1 DEF LedgerInv
  <2>. QED  BY <1>1, <1>4, <1>6, <2>1 DEF LedgerInv
<1>13. /\ Accrued(e, from, to) = SumTo(Earned(e, from, to), indexed)
       /\ LostAtUpdates(from, to) = SumTo(Rounded(from, to), indexed)
  <2>1. from \in Nat
    BY <1>12
  <2>. HIDE DEF from
  <2>. QED  BY <1>4, <1>9, <1>12, <2>1, AccruedAt
<1>. HIDE DEF from, to, y
<1>14. Yields(y, ix)
  BY <1>10, <1>11, <1>13 DEF Yields
<1>. QED  BY <1>10, <1>11, <1>12, <1>14 DEF ClaimRight

-----------------------------------------------------------------------------
(* What a new transaction leaves as it was.                                 *)

\* The ledger, the dates and the claims built stay right.
ChainKept ==
  /\ LedgerInv'
  /\ \A index, ts : Dated(index, ts) => Dated(index, ts)'
  /\ UpdatesApart' => UpdatesApart
  /\ \A ix : ClaimRight(ix) /\ IsClaim(ix) => ClaimRight(ix)'

LEMMA RecordKeeps ==
  ASSUME ChainOK, HistoryInv, LedgerInv, HistoryInv', mIndex.index <= mIndex'.index,
         NEW index \in Nat, NEW changed \in SUBSET Accounts, NEW held \in [Accounts -> Nat],
         Record(index, changed, held),
         \A a \in Accounts \ changed : held[a] = balance[a],
         index # 0 => /\ held = balance /\ mIndex.index <= index /\ Unit % index = 0
  PROVE  ChainKept
<1>0. PICK n : n = Len(history)
  OBVIOUS
<1>. DEFINE new == history'[n + 1]
<1>1. /\ n \in Nat \ {0} /\ 1 \in allIndexUpdates(history) /\ 1 \in 1..n
      /\ \A k \in 1..n : /\ history[k].ts \in Nat /\ history[k].index \in Nat
                         /\ history[k].held \in [Accounts -> Nat]
      /\ \A k \in allIndexUpdates(history) :
           k \in 1..n /\ k \in Nat /\ history[k].index \in Nat \ {0}
             /\ history[k].index <= mIndex.index
  BY <1>0, RowsAre
<1>2. PICK gap \in Gaps : /\ history' = Append(history, Row(index, clock + gap, changed, held))
                          /\ clock' = clock + gap /\ balance' = held
  BY DEF Record
<1>3. gap \in Nat /\ clock \in Nat /\ history \in Seq(RowData)
  BY BotAssumption DEF HistoryInv
<1>4. /\ Len(history') = n + 1
      /\ \A k \in 1..n : history'[k] = history[k]
      /\ history'[n + 1] = Row(index, clock + gap, changed, held)
  <2>1. history \in Seq(RowData \cup {Row(index, clock + gap, changed, held)})
    BY <1>3
  <2>. QED  BY <1>0, <1>2, <2>1, AppendProperties
<1>5. /\ new.ts = clock + gap /\ new.index = index /\ new.held = held
      /\ DOMAIN new.post = changed /\ \A a \in changed : new.post[a] = held[a]
  BY <1>4 DEF Row
<1>6. \A k \in 1..(n + 1) : k \in 1..n \/ k = n + 1
  BY <1>1
<1>7. \A k \in 1..n : k \in 1..(n + 1) /\ k # n + 1 /\ k \in Nat /\ k <= n /\ k < n + 1
  BY <1>1
<1>8. \A k : k \in allIndexUpdates(history)' <=>
        k \in allIndexUpdates(history) \/ (k = n + 1 /\ index # 0)
  <2>. HIDE DEF new
  <2>. QED  BY <1>0, <1>1, <1>4, <1>5, <1>6, <1>7 DEF allIndexUpdates, new
<1>. HIDE DEF new
<1>9. LedgerInv'
  <2>1. ASSUME NEW j \in 1..(n + 1), NEW k \in 1..(n + 1), j <= k
        PROVE  history'[j].ts <= history'[k].ts
    <3>1. CASE j \in 1..n /\ k \in 1..n
      <4>1. history[j].ts <= history[k].ts
        BY <1>0, <2>1, <3>1 DEF LedgerInv
      <4>. QED  BY <1>4, <3>1, <4>1
    <3>2. CASE j \in 1..n /\ k = n + 1
      <4>1. history[j].ts <= clock /\ history[j].ts \in Nat
        BY <1>0, <1>1, <3>2 DEF LedgerInv
      <4>. QED  BY <1>3, <1>4, <1>5, <3>2, <4>1 DEF new
    <3>3. CASE j = n + 1 /\ k = n + 1
      <4>1. history'[n + 1].ts \in Nat
        BY <1>3, <1>5 DEF new
      <4>. QED  BY <3>3, <4>1
    <3>4. ~ (j = n + 1 /\ k \in 1..n)
      BY <1>1, <1>7, <2>1
    <3>. QED  BY <1>6, <3>1, <3>2, <3>3, <3>4
  <2>2. ASSUME NEW k \in 1..(n + 1)  PROVE history'[k].ts <= clock'
    <3>1. CASE k \in 1..n
      <4>1. history[k].ts <= clock /\ history[k].ts \in Nat
        BY <1>0, <1>1, <3>1 DEF LedgerInv
      <4>. QED  BY <1>2, <1>3, <1>4, <3>1, <4>1
    <3>2. CASE k = n + 1
      <4>1. history'[k].ts = clock + gap
        BY <1>5, <3>2 DEF new
      <4>2. clock' = clock + gap /\ clock + gap \in Nat
        BY <1>2, <1>3
      <4>. QED  BY <4>1, <4>2
    <3>. QED  BY <1>6, <3>1, <3>2
  <2>3. ASSUME NEW j \in allIndexUpdates(history)', NEW k \in allIndexUpdates(history)', j <= k
        PROVE  history'[j].index <= history'[k].index
    <3>1. CASE j \in allIndexUpdates(history) /\ k \in allIndexUpdates(history)
      <4>1. history[j].index <= history[k].index
        BY <2>3, <3>1 DEF LedgerInv
      <4>. QED  BY <1>1, <1>4, <3>1, <4>1
    <3>2. CASE j \in allIndexUpdates(history) /\ k = n + 1 /\ index # 0
      <4>1. history[j].index \in Nat /\ history[j].index <= mIndex.index /\ mIndex.index <= index
        BY <1>1, <3>2
      <4>2. mIndex.index \in Nat
        BY DEF ChainOK
      <4>3. history'[j].index = history[j].index /\ history'[k].index = index
        BY <1>1, <1>4, <1>5, <3>2 DEF new
      <4>. QED  BY <4>1, <4>2, <4>3
    <3>3. CASE j = n + 1 /\ k = n + 1 /\ index # 0
      <4>1. history'[n + 1].index \in Nat
        BY <1>5 DEF new
      <4>. QED  BY <3>3, <4>1
    <3>4. ~ (j = n + 1 /\ k \in allIndexUpdates(history))
      BY <1>1, <1>7, <2>3
    <3>. QED  BY <1>8, <3>1, <3>2, <3>3, <3>4
  <2>4. ASSUME NEW k \in allIndexUpdates(history)'  PROVE Unit % history'[k].index = 0
    <3>1. CASE k \in allIndexUpdates(history)
      BY <1>1, <1>4, <3>1 DEF LedgerInv
    <3>2. CASE k = n + 1 /\ index # 0
      BY <1>5, <3>2 DEF new
    <3>. QED  BY <1>8, <3>1, <3>2
  <2>5. DOMAIN history'[1].post = Accounts
    BY <1>1, <1>4 DEF LedgerInv
  <2>6. ASSUME NEW k \in 1..(n + 1), NEW a \in DOMAIN history'[k].post
        PROVE  history'[k].post[a] = history'[k].held[a]
    <3>1. CASE k \in 1..n
      BY <1>0, <1>4, <2>6, <3>1 DEF LedgerInv
    <3>2. CASE k = n + 1
      BY <1>5, <2>6, <3>2 DEF new
    <3>. QED  BY <1>6, <3>1, <3>2
  <2>7. ASSUME NEW k \in 2..(n + 1), NEW a \in Accounts \ DOMAIN history'[k].post
        PROVE  history'[k].held[a] = history'[k - 1].held[a]
    <3>1. CASE k \in 2..n
      <4>1. k \in 1..n /\ k - 1 \in 1..n
        BY <1>1, <3>1
      <4>2. history'[k] = history[k] /\ history'[k - 1] = history[k - 1]
        BY <1>4, <4>1
      <4>. QED  BY <1>0, <2>7, <3>1, <4>2 DEF LedgerInv
    <3>2. CASE k = n + 1
      <4>1. k - 1 = n /\ n \in 1..n
        BY <1>1, <3>2
      <4>2. history'[k - 1].held = balance
        BY <1>0, <1>4, <4>1 DEF LedgerInv
      <4>3. a \in Accounts \ changed /\ history'[k].held = held
        BY <1>5, <2>7, <3>2 DEF new
      <4>. QED  BY <4>2, <4>3
    <3>3. k \in 2..n \/ k = n + 1
      BY <1>1
    <3>. QED  BY <3>1, <3>2, <3>3
  <2>8. ASSUME NEW k \in 2..(n + 1), history'[k].index # 0
        PROVE  history'[k].held = history'[k - 1].held
    <3>1. CASE k \in 2..n
      <4>1. k \in 1..n /\ k - 1 \in 1..n
        BY <1>1, <3>1
      <4>2. history'[k] = history[k] /\ history'[k - 1] = history[k - 1]
        BY <1>4, <4>1
      <4>. QED  BY <1>0, <2>8, <3>1, <4>2 DEF LedgerInv
    <3>2. CASE k = n + 1
      <4>1. k - 1 = n /\ n \in 1..n
        BY <1>1, <3>2
      <4>2. history'[k - 1].held = balance
        BY <1>0, <1>4, <4>1 DEF LedgerInv
      <4>3. index # 0 /\ history'[k].held = held
        BY <1>5, <2>8, <3>2 DEF new
      <4>. QED  BY <4>2, <4>3
    <3>3. k \in 2..n \/ k = n + 1
      BY <1>1
    <3>. QED  BY <3>1, <3>2, <3>3
  <2>9. history'[n + 1].held = balance'
    BY <1>2, <1>5 DEF new
  <2>. QED  BY <1>4, <2>1, <2>2, <2>3, <2>4, <2>5, <2>6, <2>7, <2>8, <2>9 DEF LedgerInv
<1>10. ASSUME NEW i, NEW ts, Dated(i, ts)  PROVE Dated(i, ts)'
  <2>1. PICK k \in allIndexUpdates(history) : history[k].index = i /\ history[k].ts = ts
    BY <1>10 DEF Dated
  <2>2. k \in allIndexUpdates(history)' /\ history'[k] = history[k]
    BY <1>1, <1>4, <1>8
  <2>. QED  BY <2>1, <2>2 DEF Dated
<1>11. ASSUME UpdatesApart'  PROVE UpdatesApart
  <2>1. \A k \in allIndexUpdates(history)' : \A j \in 1..(n + 1) :
          history'[j].ts = history'[k].ts => j = k
    BY <1>4, <1>11 DEF UpdatesApart
  <2>2. ASSUME NEW k \in allIndexUpdates(history), NEW j \in 1..n, history[j].ts = history[k].ts
        PROVE  j = k
    <3>1. k \in allIndexUpdates(history)' /\ j \in 1..(n + 1)
          /\ history'[j] = history[j] /\ history'[k] = history[k]
      BY <1>1, <1>4, <1>7, <1>8
    <3>. QED  BY <2>1, <2>2, <3>1
  <2>. QED  BY <1>0, <2>2 DEF UpdatesApart
<1>12. ASSUME NEW ix, ClaimRight(ix), IsClaim(ix)  PROVE ClaimRight(ix)'
  <2>0. PICK a, from, to : a = ix.earner /\ from = ix.from /\ to = ix.to
    OBVIOUS
  <2>1. /\ a \in Accounts /\ from \in Nat \ {0} /\ to \in Nat /\ from < to /\ to <= mIndex.index
        /\ Unit % from = 0 /\ history[1].index <= from
    BY <1>12, <2>0 DEF ClaimRight, IsClaim, Accounts
  <2>2. ASSUME NEW k \in allIndexUpdates(history)  PROVE Before(k)' = Before(k)
    <3>1. \A j : j \in allIndexUpdates(history)' /\ j < k <=> j \in allIndexUpdates(history) /\ j < k
      <4>1. ~ (n + 1 < k)
        BY <1>1
      <4>. QED  BY <1>8, <4>1
    <3>2. {j \in allIndexUpdates(history)' : j < k} = {j \in allIndexUpdates(history) : j < k}
      BY <3>1
    <3>. QED  BY <3>2 DEF Before
  <2>3. ASSUME NEW k \in 1..n
        PROVE  /\ Earned(a, from, to)'[k] = Earned(a, from, to)[k]
               /\ Rounded(from, to)'[k] = Rounded(from, to)[k]
    <3>1. history'[k] = history[k] /\ k \in 1..(n + 1)
      BY <1>4, <1>7
    <3>2. Within(k, from, to)' <=> Within(k, from, to)
      BY <3>1 DEF Within
    <3>3. /\ Earned(a, from, to)[k] =
               IF Within(k, from, to)
               THEN history[k].held[a] * (to * Part(history[Before(k)].index)
                                            - to * Part(history[k].index))
               ELSE 0
          /\ Rounded(from, to)[k] =
               IF Within(k, from, to) /\ history[k].index % history[Before(k)].index # 0
               THEN to * Part(history[k].index)
               ELSE 0
      BY <1>0 DEF Earned, Rounded
    <3>4. /\ Earned(a, from, to)'[k] =
               IF Within(k, from, to)'
               THEN history'[k].held[a] * (to * Part(history'[Before(k)'].index)
                                             - to * Part(history'[k].index))
               ELSE 0
          /\ Rounded(from, to)'[k] =
               IF Within(k, from, to)' /\ history'[k].index % history'[Before(k)'].index # 0
               THEN to * Part(history'[k].index)
               ELSE 0
      BY <1>4, <3>1 DEF Earned, Rounded, Part
    <3>5. CASE ~ Within(k, from, to)
      BY <3>2, <3>3, <3>4, <3>5
    <3>6. CASE Within(k, from, to)
      <4>0. from < history[k].index /\ history[k].index \in Nat /\ history[1].index \in Nat
        BY <1>1, <3>6 DEF Within
      <4>1. k \in allIndexUpdates(history) /\ k # 1
        BY <1>0, <2>1, <4>0 DEF allIndexUpdates
      <4>2. Before(k)' = Before(k) /\ Before(k) \in 1..n
        BY <1>1, <2>2, <4>1, BeforeIs
      <4>3. history'[Before(k)'] = history[Before(k)]
        BY <1>4, <4>2
      <4>. QED  BY <3>1, <3>2, <3>3, <3>4, <4>3
    <3>. QED  BY <3>5, <3>6
  <2>4. Earned(a, from, to)'[n + 1] = 0 /\ Rounded(from, to)'[n + 1] = 0
    <3>1. CASE index = 0
      <4>1. ~ Within(n + 1, from, to)'
        BY <1>5, <2>1, <3>1 DEF Within, new
      <4>2. n + 1 \in 1..(n + 1)
        BY <1>1
      <4>. QED  BY <1>4, <4>1, <4>2 DEF Earned, Rounded
    <3>2. CASE index # 0 /\ ~ Within(n + 1, from, to)'
      <4>1. n + 1 \in 1..(n + 1)
        BY <1>1
      <4>. QED  BY <1>4, <3>2, <4>1 DEF Earned, Rounded
    <3>3. CASE index # 0 /\ Within(n + 1, from, to)'
      <4>. DEFINE m == Max(allIndexUpdates(history))
      <4>1. index <= to
        BY <1>5, <3>3 DEF Within, new
      <4>2. mIndex.index \in Nat /\ mIndex.index <= index /\ Unit % index = 0
        BY <3>3 DEF ChainOK
      <4>3. index = to /\ mIndex.index = to /\ to \in Nat \ {0}
        BY <2>1, <3>3, <4>1, <4>2
      <4>4. Before(n + 1)' = m
        <5>1. \A j : j \in allIndexUpdates(history)' /\ j < n + 1 <=> j \in allIndexUpdates(history)
          <6>1. ~ (n + 1 < n + 1)
            BY <1>1
          <6>. QED  BY <1>1, <1>7, <1>8, <6>1
        <5>2. {j \in allIndexUpdates(history)' : j < n + 1} = allIndexUpdates(history)
          BY <5>1
        <5>. QED  BY <1>0, <5>2 DEF Before
      <4>5. m \in 1..n /\ history[m].index = to
        <5>1. allIndexUpdates(history) \in SUBSET (0..n) /\ n \in Nat
          <6>1. \A k \in 1..n : k \in 0..n
            BY <1>1
          <6>. QED  BY <1>1, <6>1
        <5>2. m \in allIndexUpdates(history)
          BY <1>1, <5>1, GreatestOf
        <5>3. history[m] = mIndex
          BY DEF mIndex, currentIndex
        <5>. QED  BY <1>1, <4>3, <5>2, <5>3
      <4>. HIDE DEF m
      <4>6. history'[Before(n + 1)'].index = to /\ history'[n + 1].index = to
        BY <1>4, <1>5, <4>3, <4>4, <4>5 DEF new
      <4>. DEFINE p == to * Part(to)
                  b == history'[n + 1].held[a]
      <4>7. p \in Nat
        <5>1. Part(to) \in Nat
          BY <4>2, <4>3, PartIs
        <5>2. \A v, w \in Nat : v * w \in Nat
          OBVIOUS
        <5>. QED  BY <2>1, <5>1, <5>2
      <4>8. b \in Nat
        <5>1. b = held[a]
          BY <1>5 DEF new
        <5>. QED  BY <2>1, <5>1
      <4>9. n + 1 \in 1..(n + 1)
        BY <1>1
      <4>10. /\ Earned(a, from, to)'[n + 1] =
                  b * (to * Part(history'[Before(n + 1)'].index) - to * Part(history'[n + 1].index))
             /\ Rounded(from, to)'[n + 1] =
                  IF history'[n + 1].index % history'[Before(n + 1)'].index # 0
                  THEN to * Part(history'[n + 1].index)
                  ELSE 0
        BY <1>4, <3>3, <4>9 DEF Earned, Rounded, Part
      <4>11. Earned(a, from, to)'[n + 1] = b * (p - p)
        BY <4>6, <4>10
      <4>12. b * (p - p) = 0
        <5>. HIDE DEF b, p
        <5>1. p - p = 0
          BY <4>7
        <5>. QED  BY <4>8, <5>1
      <4>13. to % to = 0
        <5>1. \A v \in Nat \ {0} : v % v = 0
          OBVIOUS
        <5>. QED  BY <4>3, <5>1
      <4>14. Rounded(from, to)'[n + 1] = 0
        BY <4>6, <4>10, <4>13
      <4>. QED  BY <4>11, <4>12, <4>14
    <3>. QED  BY <3>1, <3>2, <3>3
  <2>. DEFINE E == Earned(a, from, to)
              R == Rounded(from, to)
  <2>5. PICK E2, R2 : E2 = Earned(a, from, to)' /\ R2 = Rounded(from, to)'
    OBVIOUS
  <2>6. \A k \in 1..n : E[k] \in Int /\ R[k] \in Int
    BY <1>0, <2>1, TermsAre
  <2>7. \A k \in 1..n : E2[k] = E[k] /\ R2[k] = R[k]
    BY <2>3, <2>5
  <2>8. E2[n + 1] = 0 /\ R2[n + 1] = 0
    BY <2>4, <2>5
  <2>. HIDE DEF E, R
  <2>9. SumTo(E2, n) = SumTo(E, n) /\ SumTo(R2, n) = SumTo(R, n)
    BY <1>1, <2>7, SumToSame
  <2>10. SumTo(E, n) \in Int /\ SumTo(R, n) \in Int
    <3>1. n \in Nat /\ n \in 0..n
      BY <1>1
    <3>. QED  BY <2>6, <3>1, SumToInt
  <2>11. SumTo(E2, n + 1) = SumTo(E2, n) + E2[n + 1] /\ SumTo(R2, n + 1) = SumTo(R2, n) + R2[n + 1]
    BY <1>1, SumToIs
  <2>12. SumTo(E2, n + 1) = SumTo(E, n) /\ SumTo(R2, n + 1) = SumTo(R, n)
    BY <2>8, <2>9, <2>10, <2>11
  <2>13. Accrued(a, from, to)' = Accrued(a, from, to)
    <3>1. Accrued(a, from, to)' = SumTo(E2, n + 1)
      BY <1>4, <2>5 DEF Accrued, SumTo
    <3>2. Accrued(a, from, to) = SumTo(E, n)
      BY <1>0 DEF Accrued, E
    <3>. QED  BY <2>12, <3>1, <3>2
  <2>14. LostAtUpdates(from, to)' = LostAtUpdates(from, to)
    <3>1. LostAtUpdates(from, to)' = SumTo(R2, n + 1)
      BY <1>4, <2>5 DEF LostAtUpdates, SumTo
    <3>2. LostAtUpdates(from, to) = SumTo(R, n)
      BY <1>0 DEF LostAtUpdates, R
    <3>. QED  BY <2>12, <3>1, <3>2
  <2>15. PICK y \in Nat : Yields(y, ix)
    BY <1>12 DEF ClaimRight
  <2>16. Yields(y, ix)'
    BY <2>0, <2>13, <2>14, <2>15 DEF Yields
  <2>17. history'[1].index <= ix.from /\ ix.to <= mIndex'.index
    <3>1. ix.to \in Nat /\ mIndex.index \in Nat /\ mIndex'.index \in Nat /\ ix.to <= mIndex.index
      <4>1. mIndex'.index \in Nat
        <5>1. HistoryInv'
          OBVIOUS
        <5>2. PICK k \in 1..Len(history') : mIndex' = history'[k]
          <6>1. mIndex' = history'[Max(allIndexUpdates(history'))]
            BY DEF mIndex, currentIndex
          <6>2. RowsOK(history')
            BY DEF HistoryInv
          <6>3. \E k \in 1..Len(history') : currentIndex(history') = history'[k]
            BY <6>2, CurrentIndexIs
          <6>. QED  BY <6>3 DEF mIndex
        <5>. QED  BY <5>1, <5>2 DEF HistoryInv, RowsOK, RowOK
      <4>. QED  BY <2>0, <2>1, <4>1 DEF ChainOK
    <3>2. history'[1] = history[1]
      BY <1>1, <1>4
    <3>. QED  BY <2>0, <2>1, <3>1, <3>2
  <2>. QED  BY <2>0, <2>1, <2>15, <2>16, <2>17 DEF ClaimRight
<1>. QED  BY <1>9, <1>10, <1>11, <1>12 DEF ChainKept

LEMMA Unmoved ==
  ASSUME LedgerInv, history' = history, clock' = clock, balance' = balance
  PROVE  ChainKept
<1>1. LedgerInv'
  BY DEF LedgerInv, allIndexUpdates
<1>2. \A index, ts : Dated(index, ts) => Dated(index, ts)'
  BY DEF Dated, allIndexUpdates
<1>3. UpdatesApart' => UpdatesApart
  BY DEF UpdatesApart, allIndexUpdates
<1>4. ASSUME NEW ix, ClaimRight(ix)  PROVE ClaimRight(ix)'
  <2>0. PICK a, from, to : a = ix.earner /\ from = ix.from /\ to = ix.to
    OBVIOUS
  <2>1. ASSUME NEW k
        PROVE  (Within(k, from, to)' <=> Within(k, from, to)) /\ Before(k)' = Before(k)
    BY DEF Within, Before, allIndexUpdates
  <2>2. Earned(a, from, to)' = Earned(a, from, to) /\ Rounded(from, to)' = Rounded(from, to)
    BY <2>1 DEF Earned, Rounded, Part
  <2>3. /\ Accrued(a, from, to)' = Accrued(a, from, to)
        /\ LostAtUpdates(from, to)' = LostAtUpdates(from, to)
    BY <2>2 DEF Accrued, LostAtUpdates, SumTo
  <2>4. PICK y \in Nat : Yields(y, ix)
    BY <1>4 DEF ClaimRight
  <2>5. Yields(y, ix)'
    BY <2>0, <2>3, <2>4 DEF Yields
  <2>6. mIndex' = mIndex
    BY DEF mIndex
  <2>. QED  BY <1>4, <2>4, <2>5, <2>6 DEF ClaimRight
<1>. QED  BY <1>1, <1>2, <1>3, <1>4 DEF ChainKept

-----------------------------------------------------------------------------
(* Each step keeps what is claimed right.                                   *)

\* No step takes back what was recorded, or changes what a claim is to pay.
LEMMA ChainStep ==
  ASSUME Inv, Inv', LedgerInv, [Next]_vars
  PROVE  ChainKept
<1>1. /\ ChainOK /\ HistoryInv /\ TxnsInv /\ HistoryInv' /\ balance \in [Accounts -> Nat]
      /\ balance' \in [Accounts -> Nat]
  BY DEF Inv, ChainOK
<1>2. CASE history' = history /\ clock' = clock /\ balance' = balance
  BY <1>2, Unmoved
<1>3. CASE UpdateIndex
  <2>1. PICK u : u = Cardinality(allIndexUpdates(history))
    OBVIOUS
  <2>2. PICK index : index = IndexSteps[u + 1]
    OBVIOUS
  <2>3. u < Len(IndexSteps) /\ Record(index, {}, balance)
    BY <1>3, <2>1, <2>2 DEF UpdateIndex
  <2>4. mIndex.index <= mIndex'.index
    BY <1>1, <1>3, RecordUpdate DEF UpdateIndex
  <2>5. u \in 1..Len(IndexSteps) /\ mIndex.index = IndexSteps[u]
    BY <1>1, <2>1 DEF HistoryInv
  <2>6. u + 1 \in 2..Len(IndexSteps) /\ u + 1 \in 1..Len(IndexSteps) /\ (u + 1) - 1 = u
    BY <2>3, <2>5
  <2>7. /\ \A k \in 1..Len(IndexSteps) : IndexSteps[k] \in Nat /\ Unit % IndexSteps[k] = 0
        /\ \A k \in 2..Len(IndexSteps) : IndexSteps[k - 1] <= IndexSteps[k]
    BY BotAssumption
  <2>8. index \in Nat /\ Unit % index = 0 /\ mIndex.index <= index
    <3>1. IndexSteps[(u + 1) - 1] <= IndexSteps[u + 1]
      BY <2>6, <2>7
    <3>. QED  BY <2>2, <2>5, <2>6, <2>7, <3>1
  <2>. QED  BY <1>1, <2>3, <2>4, <2>8, RecordKeeps
<1>4. ASSUME NEW changed \in SUBSET Accounts, NEW held \in [Accounts -> Nat],
             Record(0, changed, held), \A a \in Accounts \ changed : held[a] = balance[a]
      PROVE  ChainKept
  <2>1. mIndex' = mIndex
    BY <1>1, <1>4, RecordChange
  <2>2. mIndex.index <= mIndex'.index
    BY <1>1, <2>1 DEF ChainOK
  <2>. QED  BY <1>1, <1>4, <2>2, RecordKeeps
<1>5. ASSUME NEW from \in Accounts, NEW to \in Accounts, Transfer(from, to)  PROVE ChainKept
  <2>1. PICK amount \in 1..balance[from] :
          Record(0, {from, to}, [balance EXCEPT ![from] = @ - amount, ![to] = @ + amount])
    BY <1>5 DEF Transfer
  <2>2. PICK held : held = [balance EXCEPT ![from] = @ - amount, ![to] = @ + amount]
    OBVIOUS
  <2>3. Record(0, {from, to}, held)
    BY <2>1, <2>2
  <2>4. balance' = held
    BY <2>3 DEF Record
  <2>5. \A a \in Accounts \ {from, to} : held[a] = balance[a]
    BY <1>1, <2>2
  <2>. QED  BY <1>1, <1>4, <2>3, <2>4, <2>5
<1>6. ASSUME NEW i, Land(i), ~ UNCHANGED chainVars  PROVE ChainKept
  <2>1. PICK held : held = Executed(txns[i].ixs).balance
    OBVIOUS
  <2>2. PICK changed : changed = {a \in Accounts : held[a] # balance[a]}
    OBVIOUS
  <2>3. Record(0, changed, held)
    BY <1>6, <2>1, <2>2 DEF Land
  <2>4. balance' = held
    BY <2>3 DEF Record
  <2>. QED  BY <1>1, <1>4, <2>2, <2>3, <2>4
<1>7. ASSUME UNCHANGED chainVars  PROVE ChainKept
  BY <1>2, <1>7 DEF chainVars
<1>8. CASE Load \/ Bot \/ Throw \/ UNCHANGED vars
  <2>1. UNCHANGED chainVars
    BY <1>8 DEF Load, Bot, Throw, vars, ValidateDatabaseData, GetAllEarners, BuildClaim, Simulate,
                ValidateClaims, BuildTransactions, Send, AllSent, Confirm
  <2>. QED  BY <1>7, <2>1
<1>9. CASE Index
  BY <1>2, <1>9 DEF Index
<1>10. CASE \E i \in 1..Len(txns) : Land(i) \/ Drop(i)
  BY <1>6, <1>7, <1>10 DEF Drop
<1>. QED  BY <1>3, <1>5, <1>8, <1>9, <1>10 DEF Next

\* What the program keeps of an update while a transaction executes.
DatedState(st) ==
  /\ Dated(st.global.index, st.global.timestamp)
  /\ \A e \in Earners : Dated(st.earner[e].lastClaimIndex, st.earner[e].lastClaimTimestamp)

LEMMA ExecutedDated ==
  ASSUME ChainOK, HistoryInv, DatedState(StartOfTx), NEW list, ListOK(list)
  PROVE  DatedState(Executed(list))
<1>. DEFINE m == Len(list)
<1>1. m \in Nat
  BY DEF ListOK
<1>2. PICK r : Executing(r, list, m) /\ Executed(list) = r[m]
  BY <1>1, ExecutedIs
<1>3. Dated(mIndex.index, mIndex.ts)
  <2>1. PICK k \in 1..Len(history) : currentIndex(history) = history[k] /\ history[k].index \in Nat \ {0}
    BY CurrentIndexIs DEF HistoryInv
  <2>. QED  BY <2>1 DEF Dated, mIndex, allIndexUpdates
<1>. DEFINE Good(k) == r[k] \in TxState /\ DatedState(r[k])
<1>4. ASSUME NEW k \in 1..m, Good(k - 1)  PROVE Good(k)
  <2>. DEFINE st == r[k - 1]
              ix == list[k]
              after == r[k]
  <2>1. st \in TxState /\ DatedState(st) /\ after = ExecuteIx(st, ix)
    BY <1>2, <1>4 DEF Executing
  <2>2. CASE IsSync(ix)
    <3>1. after = [st EXCEPT !.global = [index |-> mIndex.index, timestamp |-> mIndex.ts]]
      BY <2>1, <2>2 DEF ExecuteIx, IsSync
    <3>2. after \in TxState /\ after.earner = st.earner
      BY <2>1, <2>2, SyncIs
    <3>3. after.global = [index |-> mIndex.index, timestamp |-> mIndex.ts]
      BY <2>1, <3>1 DEF TxState
    <3>4. after.global.index = mIndex.index /\ after.global.timestamp = mIndex.ts
      BY <3>3
    <3>. HIDE DEF st, after
    <3>5. DatedState(after)
      BY <1>3, <2>1, <3>2, <3>4 DEF DatedState
    <3>. QED  BY <3>2, <3>5 DEF after
  <2>3. CASE IsClaim(ix)
    <3>. DEFINE e == ix.earner
                g == st.global
    <3>1. ix.op # "sync" /\ e \in Earners
      BY <2>3 DEF IsClaim
    <3>2. /\ after \in TxState /\ after.global = g
          /\ \A a \in Earners \ {e} : after.earner[a] = st.earner[a]
      <4>. HIDE DEF st, ix
      <4>. QED  BY <2>1, <2>3, ClaimIs DEF ix
    <3>3. after.earner = [st.earner EXCEPT ![e] =
            [lastClaimIndex |-> g.index, lastClaimTimestamp |-> g.timestamp]]
      BY <2>1, <3>1 DEF ExecuteIx, TxState
    <3>4. st.earner \in [Earners -> EarnerData]
      BY <2>1 DEF TxState
    <3>5. after.earner[e] = [lastClaimIndex |-> g.index, lastClaimTimestamp |-> g.timestamp]
      BY <3>1, <3>3, <3>4
    <3>6. /\ after.earner[e].lastClaimIndex = g.index
          /\ after.earner[e].lastClaimTimestamp = g.timestamp
      BY <3>5
    <3>7. Dated(g.index, g.timestamp)
      BY <2>1 DEF DatedState
    <3>. HIDE DEF st, after, e, g
    <3>8. ASSUME NEW a \in Earners
          PROVE  Dated(after.earner[a].lastClaimIndex, after.earner[a].lastClaimTimestamp)
      <4>1. CASE a = e
        BY <3>6, <3>7, <4>1
      <4>2. CASE a # e
        BY <2>1, <3>2, <4>2 DEF DatedState
      <4>. QED  BY <4>1, <4>2
    <3>9. DatedState(after)
      BY <3>2, <3>7, <3>8 DEF DatedState
    <3>. QED  BY <3>2, <3>9 DEF after
  <2>. QED  BY <2>2, <2>3 DEF ListOK
<1>5. Good(0)
  <2>1. r[0] = StartOfTx
    BY <1>2 DEF Executing
  <2>2. Reached(r, list, 0)
    BY <2>1, ReachedStart
  <2>. QED  BY <2>1, <2>2 DEF Reached
<1>. HIDE DEF Good
<1>. DEFINE T == {k \in 0..m : ~ Good(k)}
<1>6. T = {}
  <2>1. SUFFICES ASSUME T # {}  PROVE FALSE
    OBVIOUS
  <2>2. T \in SUBSET (0..m)
    OBVIOUS
  <2>. DEFINE k == Min(T)
  <2>3. k \in T /\ \A j \in T : k <= j
    <3>. HIDE DEF T
    <3>. QED  BY <1>1, <2>1, <2>2, GreatestOf
  <2>. HIDE DEF k
  <2>4. k # 0
    BY <1>5, <2>3
  <2>5. k \in 1..m /\ k - 1 \in 0..m /\ ~ (k <= k - 1)
    BY <1>1, <2>3, <2>4
  <2>6. Good(k - 1)
    BY <2>3, <2>5
  <2>. QED  BY <1>4, <2>3, <2>5, <2>6
<1>7. m \in 0..m
  BY <1>1
<1>8. Good(m)
  BY <1>6, <1>7
<1>. QED  BY <1>2, <1>8 DEF Good

\* The program, and the bot on what it read from it, keep dates of updates only.
LEMMA DatesStep ==
  ASSUME Inv, DatesInv, ChainKept, [Next]_vars
  PROVE  DatesInv'
<1>1. ChainOK /\ HistoryInv /\ BotInv /\ TxnsInv
  BY DEF Inv
<1>2. /\ Dated(global'.index, global'.timestamp)
      /\ \A e \in Earners : Dated(earner'[e].lastClaimIndex, earner'[e].lastClaimTimestamp)
  <2>1. CASE UNCHANGED <<global, earner>>
    BY <2>1 DEF DatesInv
  <2>2. ASSUME NEW i, Land(i), ~ UNCHANGED chainVars
        PROVE  /\ Dated(global'.index, global'.timestamp)
               /\ \A e \in Earners : Dated(earner'[e].lastClaimIndex, earner'[e].lastClaimTimestamp)
    <3>1. PICK list, after : list = txns[i].ixs /\ after = Executed(list)
      OBVIOUS
    <3>2. ListOK(list)
      BY <1>1, <2>2, <3>1 DEF Land, InFlight, TxnsInv
    <3>3. DatedState(StartOfTx)
      BY DEF DatedState, DatesInv, StartOfTx
    <3>4. DatedState(after)
      BY <1>1, <3>1, <3>2, <3>3, ExecutedDated
    <3>5. global' = after.global /\ earner' = after.earner
      BY <2>2, <3>1 DEF Land
    <3>. QED  BY <3>4, <3>5 DEF DatedState
  <2>3. ASSUME UNCHANGED chainVars  PROVE UNCHANGED <<global, earner>>
    BY <2>3 DEF chainVars
  <2>4. CASE Load \/ Bot \/ Throw \/ UNCHANGED vars
    <3>1. UNCHANGED chainVars
      BY <2>4 DEF Load, Bot, Throw, vars, ValidateDatabaseData, GetAllEarners, BuildClaim, Simulate,
                  ValidateClaims, BuildTransactions, Send, AllSent, Confirm
    <3>. QED  BY <2>1, <2>3, <3>1
  <2>5. CASE UpdateIndex \/ Index \/ \E from, to \in Accounts : Transfer(from, to)
    BY <2>1, <2>5 DEF UpdateIndex, Index, Transfer
  <2>6. CASE \E i \in 1..Len(txns) : Land(i) \/ Drop(i)
    BY <2>1, <2>2, <2>3, <2>6 DEF Drop
  <2>. QED  BY <2>4, <2>5, <2>6 DEF Next
<1>3. ASSUME NEW k \in 1..Len(todo')
      PROVE  Dated(todo'[k].data.lastClaimIndex, todo'[k].data.lastClaimTimestamp)
  <2>1. CASE todo' = todo
    BY <1>3, <2>1 DEF DatesInv
  <2>2. CASE Report
    BY <1>3, <2>2 DEF Report
  <2>3. CASE GetAllEarners
    <3>1. PICK s \in SetToSeqs(Earners) :
            todo' = [i \in DOMAIN s |-> [earner |-> s[i], data |-> earner[s[i]]]]
      BY <2>3 DEF GetAllEarners
    <3>2. PICK n : n = Cardinality(Earners)
      OBVIOUS
    <3>3. n \in Nat /\ s \in [1..n -> Earners]
      BY <3>1, <3>2, BotAssumption, FS_CardinalityType DEF SetToSeqs
    <3>4. todo' = [i \in 1..n |-> [earner |-> s[i], data |-> earner[s[i]]]]
      BY <3>1, <3>3
    <3>5. Len(todo') = n
      BY <3>3, <3>4
    <3>6. todo'[k].data = earner[s[k]] /\ s[k] \in Earners
      BY <1>3, <3>3, <3>4, <3>5
    <3>. QED  BY <3>6 DEF DatesInv
  <2>4. ASSUME todo # <<>>, todo' = Tail(todo)
        PROVE  Dated(todo'[k].data.lastClaimIndex, todo'[k].data.lastClaimTimestamp)
    <3>1. todo \in Seq([earner : Earners, data : EarnerData])
      BY <1>1 DEF BotInv
    <3>2. PICK m : m = Len(todo)
      OBVIOUS
    <3>3. m \in Nat \ {0} /\ Len(todo') = m - 1 /\ \A i \in 1..(m - 1) : todo'[i] = todo[i + 1]
      BY <2>4, <3>1, <3>2, HeadTailProperties
    <3>4. k + 1 \in 1..m /\ todo'[k] = todo[k + 1]
      BY <1>3, <3>3
    <3>. QED  BY <3>2, <3>4 DEF DatesInv
  <2>5. CASE BuildClaim
    BY <2>2, <2>4, <2>5 DEF BuildClaim, NextEarner
  <2>6. CASE Load \/ ValidateDatabaseData \/ Simulate \/ ValidateClaims \/ BuildTransactions
    BY <2>1, <2>2, <2>6 DEF Load, ValidateDatabaseData, Simulate, ValidateClaims, BuildTransactions
  <2>7. CASE Send \/ AllSent \/ Confirm \/ Throw
    BY <2>1, <2>2, <2>7 DEF Send, AllSent, Confirm, Throw
  <2>8. CASE UpdateIndex \/ Index \/ \E from, to \in Accounts : Transfer(from, to)
    BY <2>1, <2>8 DEF UpdateIndex, Index, Transfer, botVars
  <2>9. CASE \E i \in 1..Len(txns) : Land(i) \/ Drop(i)
    BY <2>1, <2>9 DEF Land, Drop, botVars
  <2>10. CASE UNCHANGED vars
    BY <2>1, <2>10 DEF vars, botVars
  <2>. QED  BY <2>3, <2>5, <2>6, <2>7, <2>8, <2>9, <2>10 DEF Next, Bot
<1>4. ASSUME NEW index, NEW ts, Dated(index, ts)  PROVE Dated(index, ts)'
  BY <1>4 DEF ChainKept
<1>5. Dated(global.index, global.timestamp)'
  <2>1. PICK index, ts : index = global'.index /\ ts = global'.timestamp
    OBVIOUS
  <2>2. Dated(index, ts)'
    BY <1>2, <1>4, <2>1
  <2>. QED  BY <2>1, <2>2 DEF Dated
<1>6. ASSUME NEW e \in Earners
      PROVE  Dated(earner[e].lastClaimIndex, earner[e].lastClaimTimestamp)'
  <2>1. PICK index, ts : index = earner'[e].lastClaimIndex /\ ts = earner'[e].lastClaimTimestamp
    OBVIOUS
  <2>2. Dated(index, ts)'
    BY <1>2, <1>4, <2>1
  <2>. QED  BY <2>1, <2>2 DEF Dated
<1>7. ASSUME NEW k \in 1..Len(todo')
      PROVE  Dated(todo[k].data.lastClaimIndex, todo[k].data.lastClaimTimestamp)'
  <2>1. PICK index, ts : /\ index = todo'[k].data.lastClaimIndex
                         /\ ts = todo'[k].data.lastClaimTimestamp
    OBVIOUS
  <2>2. Dated(index, ts)'
    BY <1>3, <1>4, <2>1
  <2>. QED  BY <2>1, <2>2 DEF Dated
<1>. QED  BY <1>5, <1>6, <1>7 DEF DatesInv

\* The claims of a run and of its transactions.
LEMMA ClaimsStep ==
  ASSUME Inv, LedgerInv, DatesInv, ClaimsInv, ChainKept, [Next]_vars
  PROVE  ClaimsInv'
<1>. SUFFICES ASSUME UpdatesApart'
              PROVE  AllRight(ixs)' /\ \A i \in 1..Len(txns') : AllRight(txns[i].ixs)'
  BY DEF ClaimsInv
<1>1. ChainOK /\ HistoryInv /\ BotInv /\ TxnsInv
  BY DEF Inv
<1>2. UpdatesApart /\ AllRight(ixs) /\ \A i \in 1..Len(txns) : AllRight(txns[i].ixs)
  BY DEF ChainKept, ClaimsInv
<1>3. AllRight(<<>>)
  <2>1. Len(<<>>) = 0
    OBVIOUS
  <2>. QED  BY <2>1 DEF AllRight
<1>4. AllRight(ixs')
  <2>1. CASE ixs' = ixs
    BY <1>2, <2>1
  <2>2. CASE Report
    BY <1>3, <2>2 DEF Report
  <2>3. CASE Load
    <3>1. ixs' = <<[op |-> "sync"]>>
      BY <2>3 DEF Load
    <3>2. Len(ixs') = 1 /\ ixs'[1].op = "sync"
      BY <3>1
    <3>. QED  BY <3>2 DEF AllRight, IsClaim
  <2>4. CASE BuildClaim
    <3>. DEFINE next == Head(todo)
                claim == ClaimBalance(db, next.earner, next.data)
    <3>1. PICK ix : ix = [op |-> "claim", earner |-> next.earner, balance |-> claim,
                          from |-> next.data.lastClaimIndex, to |-> currentIndex(db).index]
      OBVIOUS
    <3>2. CASE ixs' = Append(ixs, ix) /\ ~ AlreadyClaimed(db, next.data)
      <4>1. todo \in Seq([earner : Earners, data : EarnerData]) /\ todo # <<>>
        BY <1>1, <2>4 DEF BotInv, BuildClaim
      <4>2. PICK e, data : e = next.earner /\ data = next.data
        OBVIOUS
      <4>3. next = todo[1] /\ 1 \in 1..Len(todo)
        BY <4>1
      <4>4. next \in [earner : Earners, data : EarnerData]
        BY <4>1, HeadTailProperties
      <4>5. e \in Earners /\ data \in EarnerData /\ Dated(data.lastClaimIndex, data.lastClaimTimestamp)
        BY <4>2, <4>3, <4>4 DEF DatesInv
      <4>6. /\ ix.earner = e /\ ix.balance = ClaimBalance(db, e, data)
            /\ ix.from = data.lastClaimIndex /\ ix.to = currentIndex(db).index
            /\ ~ AlreadyClaimed(db, data)
        BY <3>1, <3>2, <4>2
      <4>. HIDE DEF next, claim
      <4>7. ClaimRight(ix)
        BY <1>1, <1>2, <4>5, <4>6, BuiltRight
      <4>8. PICK n : n = Len(ixs)
        OBVIOUS
      <4>9. /\ n \in Nat /\ Len(ixs') = n + 1 /\ ixs'[n + 1] = ix
            /\ \A k \in 1..n : ixs'[k] = ixs[k]
        <5>1. ixs \in Seq(IxData \cup {ix})
          BY <1>1 DEF BotInv
        <5>. QED  BY <3>2, <4>8, <5>1, AppendProperties
      <4>10. \A k \in 1..(n + 1) : k \in 1..n \/ k = n + 1
        BY <4>9
      <4>. QED  BY <1>2, <4>7, <4>8, <4>9, <4>10 DEF AllRight
    <3>3. CASE ixs' = ixs \/ Report
      BY <2>1, <2>2, <3>3
    <3>. QED  BY <2>4, <3>1, <3>2, <3>3 DEF BuildClaim, NextEarner
  <2>5. CASE ValidateDatabaseData \/ GetAllEarners \/ Simulate \/ ValidateClaims \/ BuildTransactions
    BY <2>1, <2>2, <2>5
       DEF ValidateDatabaseData, GetAllEarners, Simulate, ValidateClaims, BuildTransactions
  <2>6. CASE Send \/ AllSent \/ Confirm \/ Throw
    BY <2>1, <2>2, <2>6 DEF Send, AllSent, Confirm, Throw
  <2>7. CASE UpdateIndex \/ Index \/ \E from, to \in Accounts : Transfer(from, to)
    BY <2>1, <2>7 DEF UpdateIndex, Index, Transfer, botVars
  <2>8. CASE \E i \in 1..Len(txns) : Land(i) \/ Drop(i)
    BY <2>1, <2>8 DEF Land, Drop, botVars
  <2>9. CASE UNCHANGED vars
    BY <2>1, <2>9 DEF vars, botVars
  <2>. QED  BY <2>3, <2>4, <2>5, <2>6, <2>7, <2>8, <2>9 DEF Next, Bot
<1>5. ASSUME NEW i \in 1..Len(txns')  PROVE AllRight(txns'[i].ixs)
  <2>1. CASE txns' = txns
    BY <1>2, <1>5, <2>1
  <2>2. ASSUME NEW j \in 1..Len(txns), NEW tx, txns' = [txns EXCEPT ![j] = tx],
               tx = Over \/ tx = [txns[j] EXCEPT !.status = "sent"]
        PROVE  AllRight(txns'[i].ixs)
    <3>1. txns \in Seq(TxData)
      BY <1>1 DEF TxnsInv
    <3>2. /\ i \in 1..Len(txns) /\ (i # j => txns'[i] = txns[i])
          /\ (i = j => txns'[i] = tx)
      BY <1>5, <2>2, <3>1
    <3>3. tx.ixs = <<>> \/ tx.ixs = txns[j].ixs
      <4>1. txns[j] \in TxData
        BY <3>1
      <4>. QED  BY <2>2, <4>1 DEF Over, TxData
    <3>. QED  BY <1>2, <1>3, <3>2, <3>3
  <2>3. CASE BuildTransactions
    <3>1. ixs \in Seq(IxData) /\ ListOK(ixs)
      BY <1>1 DEF BotInv
    <3>2. PICK n \in Nat :
            /\ DOMAIN Batches = 1..n
            /\ \A k \in 1..n :
                 /\ Batches[k] \in Seq(IxData)
                 /\ \A p \in 1..Len(Batches[k]) : \E q \in 1..Len(ixs) : Batches[k][p] = ixs[q]
      BY <3>1, BatchesOK
    <3>3. PICK new : new = [k \in 1..n |-> [ixs |-> Batches[k], status |-> "built"]]
      OBVIOUS
    <3>4. txns' = txns \o new /\ \A k \in 1..n : new[k].ixs = Batches[k]
      BY <2>3, <3>2, <3>3 DEF BuildTransactions
    <3>5. txns \in Seq(TxData) /\ new \in Seq(TxData) /\ Len(new) = n
      <4>1. new \in [1..n -> TxData]
        BY <3>2, <3>3 DEF TxData
      <4>2. \A S : \A t \in [1..n -> S] : t \in Seq(S) /\ Len(t) = n
        OBVIOUS
      <4>. QED  BY <1>1, <4>1, <4>2 DEF TxnsInv
    <3>6. PICK m : m = Len(txns)
      OBVIOUS
    <3>7. /\ Len(txns') = m + n
          /\ \A k \in 1..(m + n) : txns'[k] = IF k <= m THEN txns[k] ELSE new[k - m]
      BY <3>4, <3>5, <3>6, ConcatProperties
    <3>8. (i <= m /\ i \in 1..m) \/ (~ (i <= m) /\ i - m \in 1..n)
      <4>1. m \in Nat /\ i \in 1..(m + n)
        BY <1>5, <3>5, <3>6, <3>7
      <4>. QED  BY <3>2, <4>1
    <3>9. CASE i <= m /\ i \in 1..m
      BY <1>2, <1>5, <3>6, <3>7, <3>9
    <3>10. CASE ~ (i <= m) /\ i - m \in 1..n
      <4>1. txns'[i].ixs = Batches[i - m]
        BY <1>5, <3>4, <3>7, <3>10
      <4>2. PICK list : list = Batches[i - m]
        OBVIOUS
      <4>3. \A p \in 1..Len(list) : \E q \in 1..Len(ixs) : list[p] = ixs[q]
        BY <3>2, <3>10, <4>2
      <4>4. AllRight(list)
        BY <1>2, <4>3 DEF AllRight
      <4>. QED  BY <4>1, <4>2, <4>4
    <3>. QED  BY <3>8, <3>9, <3>10
  <2>4. CASE Send
    <3>1. PICK j : j = Min(Unsent)
      OBVIOUS
    <3>2. PICK accepted : txns' = [txns EXCEPT ![j] = IF accepted = {} THEN Over
                                                      ELSE [txns[j] EXCEPT !.status = "sent"]]
      BY <2>4, <3>1 DEF Send
    <3>3. j \in 1..Len(txns)
      <4>1. Len(txns) \in Nat /\ Unsent \in SUBSET (0..Len(txns)) /\ Unsent # {}
        BY <1>1, <2>4 DEF TxnsInv, Unsent, Send
      <4>2. j \in Unsent
        BY <3>1, <4>1, GreatestOf
      <4>. QED  BY <4>2 DEF Unsent
    <3>. QED  BY <2>2, <3>2, <3>3
  <2>5. CASE \E j \in 1..Len(txns) : Land(j) \/ Drop(j)
    <3>1. PICK j \in 1..Len(txns) : txns' = [txns EXCEPT ![j] = Over]
      BY <2>5 DEF Land, Drop
    <3>. QED  BY <2>2, <3>1
  <2>6. CASE Load \/ ValidateDatabaseData \/ GetAllEarners \/ BuildClaim \/ Simulate \/ ValidateClaims
    BY <2>1, <2>6 DEF Load, ValidateDatabaseData, GetAllEarners, BuildClaim, Simulate, ValidateClaims
  <2>7. CASE AllSent \/ Confirm \/ Throw
    BY <2>1, <2>7 DEF AllSent, Confirm, Throw
  <2>8. CASE UpdateIndex \/ Index \/ \E from, to \in Accounts : Transfer(from, to)
    BY <2>1, <2>8 DEF UpdateIndex, Index, Transfer
  <2>9. CASE UNCHANGED vars
    BY <2>1, <2>9 DEF vars
  <2>. QED  BY <2>3, <2>4, <2>5, <2>6, <2>7, <2>8, <2>9 DEF Next, Bot
<1>6. ASSUME NEW list, AllRight(list)  PROVE AllRight(list)'
  <2>1. ASSUME NEW k \in 1..Len(list), IsClaim(list[k])  PROVE ClaimRight(list[k])'
    <3>1. PICK ix : ix = list[k]
      OBVIOUS
    <3>2. ClaimRight(ix) /\ IsClaim(ix)
      BY <1>6, <2>1, <3>1 DEF AllRight
    <3>3. ClaimRight(ix)'
      BY <3>2 DEF ChainKept
    <3>. QED  BY <3>1, <3>3
  <2>. QED  BY <2>1 DEF AllRight, IsClaim
<1>7. AllRight(ixs)'
  <2>1. PICK list : list = ixs'
    OBVIOUS
  <2>2. AllRight(list)'
    BY <1>4, <1>6, <2>1
  <2>. QED  BY <2>1, <2>2 DEF AllRight
<1>8. ASSUME NEW i \in 1..Len(txns')  PROVE AllRight(txns[i].ixs)'
  <2>1. PICK list : list = txns'[i].ixs
    OBVIOUS
  <2>2. AllRight(list)'
    BY <1>5, <1>6, <2>1
  <2>. QED  BY <2>1, <2>2 DEF AllRight
<1>. QED  BY <1>7, <1>8

-----------------------------------------------------------------------------
(* What is paid.                                                            *)

LEMMA InitRight ==
  ASSUME Init  PROVE LedgerInv /\ DatesInv /\ ClaimsInv
<1>1. IndexSteps[1] \in Nat \ {0} /\ Unit % IndexSteps[1] = 0
  BY BotAssumption
<1>2. PICK first : first = IndexSteps[1]
  OBVIOUS
<1>3. PICK held \in [Accounts -> 0..Principal * first] :
        /\ balance = held /\ history = <<Row(first, 1, Accounts, held)>> /\ clock = 1
        /\ global = [index |-> first, timestamp |-> 1]
        /\ earner = [e \in Earners |-> [lastClaimIndex |-> first, lastClaimTimestamp |-> 1]]
        /\ todo = <<>> /\ ixs = <<>> /\ txns = <<>>
  BY <1>2 DEF Init
<1>4. /\ Len(history) = 1 /\ history[1].ts = 1 /\ history[1].index = first /\ history[1].held = held
      /\ DOMAIN history[1].post = Accounts /\ \A a \in Accounts : history[1].post[a] = held[a]
  BY <1>3 DEF Row
<1>5. \A k \in 1..Len(history) : k = 1
  BY <1>4
<1>6. allIndexUpdates(history) = {1}
  BY <1>1, <1>2, <1>4, <1>5 DEF allIndexUpdates
<1>7. LedgerInv
  <2>1. \A k \in 2..Len(history) : FALSE
    BY <1>4
  <2>2. \A j, k \in 1..Len(history) : history[j].ts <= history[k].ts
    BY <1>4, <1>5
  <2>3. \A k \in 1..Len(history) : history[k].ts <= clock
    BY <1>3, <1>4, <1>5
  <2>4. \A j, k \in {1} : history[j].index <= history[k].index
    BY <1>1, <1>2, <1>4
  <2>5. \A k \in {1} : Unit % history[k].index = 0
    BY <1>1, <1>2, <1>4
  <2>6. \A k \in 1..Len(history) : \A a \in DOMAIN history[k].post :
          history[k].post[a] = history[k].held[a]
    BY <1>4, <1>5
  <2>7. history[Len(history)].held = balance
    BY <1>3, <1>4
  <2>. QED  BY <1>4, <1>6, <2>1, <2>2, <2>3, <2>4, <2>5, <2>6, <2>7 DEF LedgerInv
<1>8. DatesInv
  <2>1. Dated(first, 1)
    BY <1>4, <1>6 DEF Dated
  <2>2. Len(todo) = 0
    BY <1>3
  <2>3. \A k \in 1..Len(todo) : FALSE
    BY <2>2
  <2>4. global.index = first /\ global.timestamp = 1
    BY <1>3
  <2>5. \A e \in Earners : earner[e].lastClaimIndex = first /\ earner[e].lastClaimTimestamp = 1
    BY <1>3
  <2>. QED  BY <2>1, <2>3, <2>4, <2>5 DEF DatesInv
<1>9. ClaimsInv
  <2>1. Len(ixs) = 0 /\ Len(txns) = 0
    BY <1>3
  <2>2. (\A k \in 1..Len(ixs) : FALSE) /\ \A i \in 1..Len(txns) : FALSE
    BY <2>1
  <2>. QED  BY <2>2 DEF ClaimsInv, AllRight
<1>. QED  BY <1>7, <1>8, <1>9

\* A claim that executes at the indices it was built for pays what accrued.
LEMMA ClaimPaid ==
  ASSUME Inv, LedgerInv, ClaimsInv, [Next]_vars, UpdatesApart,
         NEW i \in InFlight, NEW k \in DOMAIN txns[i].ixs, NEW ix, ix = txns[i].ixs[k],
         ix.op = "claim", earner' # earner, txns'[i] # txns[i],
         earner[ix.earner].lastClaimIndex = ix.from, earner'[ix.earner].lastClaimIndex = ix.to
  PROVE  LET due == Accrued(ix.earner, ix.from, ix.to)
             paid == (balance'[ix.earner] - balance[ix.earner]) * Unit
         IN  paid <= due /\ paid > due - Lost(ix.from, ix.to)
<1>1. ChainOK /\ HistoryInv /\ TxnsInv
  BY DEF Inv
<1>2. Land(i) /\ ~ UNCHANGED chainVars
  <2>1. PICK j \in 1..Len(txns) : Land(j) \/ Drop(j)
    BY DEF Next, Bot, Load, Throw, UpdateIndex, Index, Transfer, vars, ValidateDatabaseData,
           GetAllEarners, BuildClaim, Simulate, ValidateClaims, BuildTransactions, Send, AllSent,
           Confirm, chainVars
  <2>2. txns' = [txns EXCEPT ![j] = Over]
    BY <2>1 DEF Land, Drop
  <2>3. txns \in Seq(TxData) /\ i \in 1..Len(txns)
    BY <1>1 DEF TxnsInv, InFlight
  <2>4. j = i
    BY <2>2, <2>3
  <2>5. ~ UNCHANGED chainVars
    BY DEF chainVars
  <2>. QED  BY <2>1, <2>4, <2>5 DEF Drop
<1>3. PICK list, after : list = txns[i].ixs /\ after = Executed(list)
  OBVIOUS
<1>4. /\ after.ok /\ earner' = after.earner /\ balance' = after.balance
  BY <1>2, <1>3 DEF Land, Record
<1>5. ListOK(list) /\ k \in 1..Len(list) /\ AllRight(list)
  <2>1. i \in 1..Len(txns) /\ txns \in Seq(TxData)
    BY <1>1 DEF TxnsInv, InFlight
  <2>2. txns[i] \in TxData
    BY <2>1
  <2>3. list \in Seq(IxData)
    BY <1>3, <2>2 DEF TxData
  <2>4. k \in 1..Len(list)
    BY <1>3, <2>3
  <2>. QED  BY <1>1, <1>3, <2>1, <2>4 DEF TxnsInv, ClaimsInv
<1>6. IsClaim(ix) /\ ClaimRight(ix) /\ ix = list[k]
  BY <1>3, <1>5 DEF ListOK, IsSync, AllRight
<1>. DEFINE a == ix.earner
            from == ix.from
            to == ix.to
            b == ix.balance
<1>7. balance'[a] = balance[a] + Interest(b, to, from)
  <2>1. Pays(list, after)
    BY <1>1, <1>3, <1>5, ExecutedPays
  <2>2. PICK g \in Nat : /\ after.balance[a] = balance[a] + Interest(b, g, earner[a].lastClaimIndex)
                         /\ after.earner[a].lastClaimIndex = g
    BY <1>4, <1>5, <1>6, <2>1 DEF Pays
  <2>3. g = to
    BY <1>4, <2>2
  <2>. QED  BY <1>4, <2>2, <2>3
<1>8. /\ from \in Nat \ {0} /\ to \in Nat /\ from < to /\ history[1].index <= from
      /\ Unit % from = 0 /\ a \in Accounts
  BY <1>6 DEF ClaimRight, IsClaim, Accounts
<1>9. PICK y \in Nat : Yields(y, ix)
  BY <1>6 DEF ClaimRight
<1>10. PICK due, lost : due = Accrued(a, from, to) /\ lost = LostAtUpdates(from, to)
  OBVIOUS
<1>11. /\ b = (y * from) \div (to - from) /\ y * Unit <= due /\ due - lost <= y * Unit
  BY <1>9, <1>10 DEF Yields
<1>12. due \in Int /\ lost \in Int
  <2>1. PICK n, E, R : n = Len(history) /\ E = Earned(a, from, to) /\ R = Rounded(from, to)
    OBVIOUS
  <2>2. n \in Nat /\ n \in 0..n
    BY <1>1, <2>1, RowsAre
  <2>3. \A m \in 1..n : E[m] \in Int /\ R[m] \in Int
    <3>1. HistoryInv /\ from \in Nat /\ to \in Nat /\ history[1].index <= from /\ a \in Accounts
      BY <1>1, <1>8
    <3>. HIDE DEF from, to, a
    <3>2. \A m \in 1..Len(history) : Earned(a, from, to)[m] \in Int /\ Rounded(from, to)[m] \in Int
      BY <3>1, TermsAre
    <3>. QED  BY <2>1, <3>2
  <2>4. SumTo(E, n) \in Int /\ SumTo(R, n) \in Int
    BY <2>2, <2>3, SumToInt
  <2>. QED  BY <1>10, <2>1, <2>4 DEF Accrued, LostAtUpdates
<1>13. PICK e : e = Part(from)
  OBVIOUS
<1>14. e \in Nat /\ from * e = Unit /\ Unit \in Nat \ {0}
  BY <1>8, <1>13, PartIs, BotAssumption
<1>15. balance[a] \in Int /\ balance'[a] = balance[a] + Interest(b, to, from)
  BY <1>1, <1>7, <1>8 DEF ChainOK
<1>16. PICK more : more = (to - from) * e + IF to % from = 0 THEN 0 ELSE Unit
  OBVIOUS
<1>17. Lost(from, to) = lost + more
  <2>1. Lost(from, to) = lost + (to - from) * e + IF to % from = 0 THEN 0 ELSE Unit
    BY <1>10, <1>13 DEF Lost
  <2>2. (to - from) * e \in Int /\ (IF to % from = 0 THEN 0 ELSE Unit) \in Int
    <3>1. \A v, w \in Int : v * w \in Int
      OBVIOUS
    <3>2. to - from \in Int
      BY <1>8
    <3>. HIDE DEF to, from
    <3>. QED  BY <1>14, <3>1, <3>2
  <2>. HIDE DEF to, from
  <2>. QED  BY <1>12, <1>16, <2>1, <2>2
<1>. HIDE DEF a, from, to, b
<1>18. PICK paid : paid = Interest(b, to, from)
  OBVIOUS
<1>19. paid \in Nat /\ paid * Unit <= y * Unit /\ y * Unit - more < paid * Unit
  <2>1. y \in Nat /\ from \in Nat \ {0} /\ to \in Nat /\ from < to
    BY <1>8
  <2>2. b = (y * from) \div (to - from)
    BY <1>11
  <2>3. PaidOf(y, from, to, b, Unit, e)
    BY <1>14, <2>1, <2>2, PaidFor
  <2>. QED  BY <1>16, <1>18, <2>3 DEF PaidOf
<1>20. more \in Int /\ y * Unit \in Int /\ paid * Unit \in Int
  <2>1. \A v, w \in Int : v * w \in Int
    OBVIOUS
  <2>2. to - from \in Int
    BY <1>8
  <2>3. (to - from) * e \in Int
    BY <1>14, <2>1, <2>2
  <2>. QED  BY <1>14, <1>16, <1>19, <2>1, <2>3
<1>21. balance'[a] - balance[a] = paid
  BY <1>15, <1>18, <1>19
<1>22. paid * Unit <= due /\ paid * Unit > due - (lost + more)
  BY <1>11, <1>12, <1>19, <1>20
<1>. QED  BY <1>10, <1>17, <1>21, <1>22 DEF a, from, to, b

\* The claims stay right, and with them what is paid.
LEMMA RightInductive == Spec => [](Inv /\ LedgerInv /\ DatesInv /\ ClaimsInv)
<1>1. Init => LedgerInv /\ DatesInv /\ ClaimsInv
  BY InitRight
<1>2. Inv /\ Inv' /\ LedgerInv /\ DatesInv /\ ClaimsInv /\ [Next]_vars
        => LedgerInv' /\ DatesInv' /\ ClaimsInv'
  <2>. SUFFICES ASSUME Inv, Inv', LedgerInv, DatesInv, ClaimsInv, [Next]_vars
                PROVE  LedgerInv' /\ DatesInv' /\ ClaimsInv'
    OBVIOUS
  <2>1. ChainKept
    BY ChainStep
  <2>2. LedgerInv'
    BY <2>1 DEF ChainKept
  <2>. QED  BY <2>1, <2>2, DatesStep, ClaimsStep
<1>. QED  BY <1>1, <1>2, InvInductive, PTL DEF Spec

\* A claim executed at the indices it was computed for pays what was accrued, in
\* units of a token exactly, short of it by rounding only (ClaimsPayAccrued): for
\* any number of earners, any indices and transfers, any batch size, whatever the
\* lag of the indexer, however many runs overlap and whatever of them is executed,
\* dropped or thrown when, buildClaimInstruction of sdk/src/earn_auth.ts and
\* services/yield-bot/main.ts neither pay twice nor leave out an update, as long as
\* no other transaction has the second of an index update.
THEOREM ClaimsDoPayAccrued == Spec => ClaimsPayAccrued
<1>. DEFINE Pay == \A i \in InFlight : \A k \in DOMAIN txns[i].ixs :
       LET ix == txns[i].ixs[k]
           due == Accrued(ix.earner, ix.from, ix.to)
           paid == (balance'[ix.earner] - balance[ix.earner]) * Unit
       IN  ix.op = "claim" /\ earner' # earner /\ txns'[i] # txns[i] /\ UpdatesApart
             /\ earner[ix.earner].lastClaimIndex = ix.from
             /\ earner'[ix.earner].lastClaimIndex = ix.to
           => paid <= due /\ paid > due - Lost(ix.from, ix.to)
<1>1. Inv /\ LedgerInv /\ ClaimsInv /\ [Next]_vars => Pay
  <2>. SUFFICES ASSUME Inv, LedgerInv, ClaimsInv, [Next]_vars  PROVE Pay
    OBVIOUS
  <2>1. ASSUME NEW i \in InFlight, NEW k \in DOMAIN txns[i].ixs, NEW ix, ix = txns[i].ixs[k],
               ix.op = "claim", earner' # earner, txns'[i] # txns[i], UpdatesApart,
               earner[ix.earner].lastClaimIndex = ix.from,
               earner'[ix.earner].lastClaimIndex = ix.to
        PROVE  LET due == Accrued(ix.earner, ix.from, ix.to)
                   paid == (balance'[ix.earner] - balance[ix.earner]) * Unit
               IN  paid <= due /\ paid > due - Lost(ix.from, ix.to)
    <3>1. PICK due, paid, lost :
            /\ due = Accrued(ix.earner, ix.from, ix.to) /\ lost = Lost(ix.from, ix.to)
            /\ paid = (balance'[ix.earner] - balance[ix.earner]) * Unit
      OBVIOUS
    <3>2. paid <= due /\ paid > due - lost
      BY <2>1, <3>1, ClaimPaid
    <3>. QED  BY <3>1, <3>2
  <2>. QED  BY <2>1
<1>2. Pay => [Pay]_vars
  OBVIOUS
<1>3. Spec => [][Pay]_vars
  <2>. HIDE DEF Pay
  <2>. QED  BY <1>1, RightInductive, PTL DEF Spec
<1>. QED  BY <1>3 DEF ClaimsPayAccrued
=============================================================================
