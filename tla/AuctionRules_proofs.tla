------------------------ MODULE AuctionRules_proofs ------------------------
(***************************************************************************)
(* What select_winner and the sort of a direct fullpost return, for any     *)
(* number of responses and any amounts and priorities: the CHOOSE of        *)
(* AuctionRules stands for the head of a sorted vector, so that it has to   *)
(* be shown that there is such an entry.                                    *)
(***************************************************************************)
EXTENDS AuctionRules, FiniteSetTheorems, WellFoundedInduction, TLAPS

\* A set of naturals that is not empty has a least element.
LEMMA LeastNat ==
    ASSUME NEW T \in SUBSET Nat, T # {}
    PROVE  \E n \in T : \A m \in T : n <= m
<1>1. PICK n \in T : \A m \in T : <<m, n>> \notin OpToRel(<, Nat)
  BY NatLessThanWellFounded, WFMin
<1>2. \A m \in T : ~(m < n)
  BY <1>1 DEF OpToRel
<1> QED BY <1>2

\* R orders 1..n: any two are comparable, and it is transitive.
Orders(R, n) ==
    /\ \A i, j \in 1 .. n : i = j \/ <<i, j>> \in R \/ <<j, i>> \in R
    /\ \A i, j, k \in 1 .. n : <<i, j>> \in R /\ <<j, k>> \in R => <<i, k>> \in R

\* A first element of S under R.
HasFirstBy(S, R) == \E i \in S : \A j \in S \ {i} : <<i, j>> \in R

\* A total order on 1..n has a first element in every set that is not empty.
LEMMA FirstExists ==
    ASSUME NEW n \in Nat, NEW R, Orders(R, n), NEW I \in SUBSET (1 .. n), I # {}
    PROVE  HasFirstBy(I, R)
<1> USE DEF Orders, HasFirstBy
<1> DEFINE HasFirst(S) == \E i \in S : \A j \in S \ {i} : <<i, j>> \in R
           Bad == {m \in 0 .. n : \E S \in SUBSET (1 .. m) : S # {} /\ ~HasFirst(S)}
<1> SUFFICES ASSUME ~HasFirst(I) PROVE FALSE
  OBVIOUS
<1>1. n \in Bad
  <2>1. I \in SUBSET (1 .. n) /\ I # {} /\ ~HasFirst(I)
    OBVIOUS
  <2>2. \E S \in SUBSET (1 .. n) : S # {} /\ ~HasFirst(S)
    BY <2>1, Zenon
  <2> QED BY <2>2
<1>2. Bad \in SUBSET Nat
  <2>1. \A m \in 0 .. n : m \in Nat
    OBVIOUS
  <2> QED BY <2>1, Zenon
<1>3. PICK m \in Bad : \A k \in Bad : m <= k
  <2> HIDE DEF Bad
  <2> QED BY <1>1, <1>2, LeastNat
<1>s. PICK S \in SUBSET (1 .. m) : S # {} /\ ~HasFirst(S)
  OBVIOUS
<1>b. m \in 0 .. n
  OBVIOUS
<1> HIDE DEF Bad, HasFirst
<1>4. m \in 1 .. n /\ m - 1 \in 0 .. n /\ S \subseteq 1 .. n
  <2>1. PICK x : x \in S
    BY <1>s
  <2>2. x \in 1 .. m
    BY <2>1
  <2>3. m \in Nat /\ m >= 1 /\ m <= n
    BY <1>b, <2>2
  <2> QED BY <2>3
<1>5. m - 1 \notin Bad
  BY <1>3, <1>4
<1> USE DEF HasFirst, Bad
<1> DEFINE Rest == S \ {m}
<1>6. Rest \in SUBSET (1 .. m - 1)
  BY <1>s, <1>4
<1>7. Rest = {} \/ HasFirst(Rest)
  <2> HIDE DEF HasFirst, Rest
  <2> QED BY <1>4, <1>5, <1>6
<1>8. m \in S
  <2> SUFFICES ASSUME m \notin S PROVE FALSE
    OBVIOUS
  <2>1. Rest = S
    OBVIOUS
  <2> QED BY <1>s, <1>7, <2>1
<1>9. Rest # {}
  <2> SUFFICES ASSUME Rest = {} PROVE FALSE
    OBVIOUS
  <2>1. \A j \in S : j = m
    OBVIOUS
  <2> QED BY <1>s, <1>8, <2>1
<1>10. PICK i \in Rest : \A j \in Rest \ {i} : <<i, j>> \in R
  BY <1>7, <1>9
<1>11. i \in 1 .. n /\ i # m /\ i \in S
  BY <1>4, <1>10
<1>12. CASE <<i, m>> \in R
  <2>1. \A j \in S \ {i} : <<i, j>> \in R
    BY <1>10, <1>12
  <2> QED BY <1>s, <1>11, <2>1
<1>13. CASE <<m, i>> \in R
  <2>1. \A j \in Rest : <<m, j>> \in R
    BY <1>4, <1>6, <1>10, <1>11, <1>13
  <2>2. \A j \in S \ {m} : <<m, j>> \in R
    BY <2>1
  <2> QED BY <1>s, <1>8, <2>2
<1> QED BY <1>4, <1>11, <1>12, <1>13

\* What the lemmas below need to know of a sequence of entries: amounts and
\* priorities are integers.
IsEntries(es) ==
    /\ Len(es) \in Nat /\ DOMAIN es = 1 .. Len(es)
    /\ \A i \in DOMAIN es : /\ es[i].priority \in Int
                            /\ es[i].resp.bid \in Int /\ es[i].resp.price \in Int

\* The order of the sort is a strict total order of the positions.
LEMMA BeforeOrders ==
    ASSUME NEW es, IsEntries(es), NEW amount \in [DOMAIN es -> Int]
    PROVE  /\ \A i, j \in DOMAIN es : i = j \/ Before(es, amount, i, j) \/ Before(es, amount, j, i)
           /\ \A i, j, k \in DOMAIN es :
                Before(es, amount, i, j) /\ Before(es, amount, j, k) => Before(es, amount, i, k)
<1> DEFINE P(i) == SortPriority(es[i].priority)
<1>1. \A i \in DOMAIN es : i \in Int /\ P(i) \in Int /\ amount[i] \in Int
  BY DEF IsEntries, SortPriority
<1>2. \A i, j : Before(es, amount, i, j) <=>
        (amount[i] > amount[j] \/ (amount[i] = amount[j] /\ (P(i) < P(j) \/ (P(i) = P(j) /\ i < j))))
  BY DEF Before
<1> HIDE DEF P
<1>3. ASSUME NEW i \in DOMAIN es, NEW j \in DOMAIN es
      PROVE  i = j \/ Before(es, amount, i, j) \/ Before(es, amount, j, i)
  BY <1>1, <1>2
<1>4. ASSUME NEW i \in DOMAIN es, NEW j \in DOMAIN es, NEW k \in DOMAIN es,
             Before(es, amount, i, j), Before(es, amount, j, k)
      PROVE  Before(es, amount, i, k)
  BY <1>1, <1>2, <1>4
<1> QED BY <1>3, <1>4

\* sorted.first() is one of the entries and no entry has a higher amount.
LEMMA SortedFirstIsHighest ==
    ASSUME NEW es, IsEntries(es), NEW amount \in [DOMAIN es -> Int],
           NEW I \in SUBSET DOMAIN es, I # {}
    PROVE  /\ SortedFirst(es, amount, I) \in I
           /\ \A j \in I : amount[j] <= amount[SortedFirst(es, amount, I)]
<1> DEFINE n == Len(es)
           R == {x \in (1 .. n) \X (1 .. n) : Before(es, amount, x[1], x[2])}
<1>1. n \in Nat /\ DOMAIN es = 1 .. n
  BY DEF IsEntries
<1>2. \A i, j \in 1 .. n : <<i, j>> \in R <=> Before(es, amount, i, j)
  <2> HIDE DEF n
  <2> SUFFICES ASSUME NEW i \in 1 .. n, NEW j \in 1 .. n
               PROVE  <<i, j>> \in R <=> Before(es, amount, i, j)
    OBVIOUS
  <2>1. <<i, j>>[1] = i /\ <<i, j>>[2] = j /\ <<i, j>> \in (1 .. n) \X (1 .. n)
    OBVIOUS
  <2> QED BY <2>1, Zenon
<1>3. /\ \A i, j \in 1 .. n : i = j \/ <<i, j>> \in R \/ <<j, i>> \in R
      /\ \A i, j, k \in 1 .. n : <<i, j>> \in R /\ <<j, k>> \in R => <<i, k>> \in R
  BY <1>1, <1>2, BeforeOrders
<1> HIDE DEF R, n
<1>i. I \in SUBSET (1 .. n)
  BY <1>1
<1>4. \E i \in I : \A j \in I \ {i} : <<i, j>> \in R
  <2>1. Orders(R, n)
    BY <1>3 DEF Orders
  <2>2. HasFirstBy(I, R)
    BY <1>1, <1>i, <2>1, FirstExists
  <2> QED BY <2>2 DEF HasFirstBy
<1>5. \E i \in I : \A j \in I \ {i} : Before(es, amount, i, j)
  BY <1>1, <1>2, <1>4
<1> DEFINE f == SortedFirst(es, amount, I)
<1>6. f \in I /\ \A j \in I \ {f} : Before(es, amount, f, j)
  BY <1>5 DEF SortedFirst
<1>7. \A j \in I : amount[j] \in Int
  OBVIOUS
<1> HIDE DEF f
<1>8. \A j \in I : amount[j] <= amount[f]
  BY <1>6, <1>7 DEF Before
<1> QED BY <1>6, <1>8 DEF f

\* min_by_key over the sorted candidates: one of them; no priority is lower, and no
\* bid of the same priority is higher.
LEMMA FirstByPriorityIsLeast ==
    ASSUME NEW es, IsEntries(es), NEW I \in SUBSET DOMAIN es, I # {}
    PROVE  LET f == FirstByPriority(es, I) IN
           /\ f \in I
           /\ \A j \in I : \/ es[f].priority < es[j].priority
                           \/ es[f].priority = es[j].priority /\ es[f].resp.bid >= es[j].resp.bid
<1> DEFINE n == Len(es)
           bids == OfferedBids(es)
           Prior(i, j) == \/ es[i].priority < es[j].priority
                          \/ es[i].priority = es[j].priority /\ Before(es, bids, i, j)
           R == {x \in (1 .. n) \X (1 .. n) : Prior(x[1], x[2])}
<1>1. n \in Nat /\ DOMAIN es = 1 .. n /\ \A i \in DOMAIN es : es[i].priority \in Int
  BY DEF IsEntries
<1>b. bids \in [DOMAIN es -> Int] /\ \A i \in DOMAIN es : bids[i] = es[i].resp.bid
  BY DEF OfferedBids, IsEntries
<1> HIDE DEF n, bids
<1>2. \A i, j \in 1 .. n : <<i, j>> \in R <=> Prior(i, j)
  <2> HIDE DEF Prior
  <2> SUFFICES ASSUME NEW i \in 1 .. n, NEW j \in 1 .. n
               PROVE  <<i, j>> \in R <=> Prior(i, j)
    OBVIOUS
  <2>1. <<i, j>>[1] = i /\ <<i, j>>[2] = j /\ <<i, j>> \in (1 .. n) \X (1 .. n)
    OBVIOUS
  <2> QED BY <2>1, Zenon
<1> HIDE DEF R
<1>t. /\ \A i, j \in 1 .. n : i = j \/ Before(es, bids, i, j) \/ Before(es, bids, j, i)
      /\ \A i, j, k \in 1 .. n :
           Before(es, bids, i, j) /\ Before(es, bids, j, k) => Before(es, bids, i, k)
  BY <1>1, <1>b, BeforeOrders, Zenon
<1>3. \A i, j \in 1 .. n : i = j \/ Prior(i, j) \/ Prior(j, i)
  BY <1>1, <1>t
<1>4. \A i, j, k \in 1 .. n : Prior(i, j) /\ Prior(j, k) => Prior(i, k)
  BY <1>1, <1>t
<1>5. /\ \A i, j \in 1 .. n : i = j \/ <<i, j>> \in R \/ <<j, i>> \in R
      /\ \A i, j, k \in 1 .. n : <<i, j>> \in R /\ <<j, k>> \in R => <<i, k>> \in R
  BY <1>2, <1>3, <1>4
<1>6. \E i \in I : \A j \in I \ {i} : <<i, j>> \in R
  <2>1. I \in SUBSET (1 .. n)
    BY <1>1
  <2>2. Orders(R, n)
    BY <1>5 DEF Orders
  <2>3. HasFirstBy(I, R)
    BY <1>1, <2>1, <2>2, FirstExists
  <2> QED BY <2>3 DEF HasFirstBy
<1>7. \E i \in I : \A j \in I \ {i} : Prior(i, j)
  BY <1>1, <1>2, <1>6
<1> DEFINE f == FirstByPriority(es, I)
<1>8. f \in I /\ \A j \in I \ {f} : Prior(f, j)
  BY <1>7 DEF FirstByPriority, bids
<1> HIDE DEF f
<1>9. \A j \in I : \/ es[f].priority < es[j].priority
                   \/ es[f].priority = es[j].priority /\ es[f].resp.bid >= es[j].resp.bid
  <2> SUFFICES ASSUME NEW j \in I, f # j, es[f].priority = es[j].priority PROVE es[f].resp.bid >= es[j].resp.bid
    BY <1>1, <1>8, <1>b
  <2>1. Before(es, bids, f, j)
    BY <1>1, <1>8
  <2>2. bids[f] \in Int /\ bids[j] \in Int
    BY <1>8, <1>b
  <2>3. bids[f] >= bids[j]
    BY <2>1, <2>2 DEF Before
  <2> QED BY <1>8, <1>b, <2>3
<1> QED BY <1>8, <1>9 DEF f

\* The entry t of I has the highest bid.
IsTop(es, I, t) == t \in I /\ \A j \in I : es[j].resp.bid <= es[t].resp.bid

\* What select_winner promises of an entry w it may return, when t has the highest
\* bid: the bid of w counts as equal to it, and w precedes, by priority and then by
\* bid, every entry with a priority whose bid counts as equal too.
IsWinner(es, I, t, w) ==
    /\ w \in I
    /\ es[t].resp.bid - es[w].resp.bid < Epsilon
    /\ \A j \in I : es[t].resp.bid - es[j].resp.bid < Epsilon /\ es[j].priority # NoPriority =>
         /\ es[w].priority # NoPriority
         /\ \/ es[w].priority < es[j].priority
            \/ es[w].priority = es[j].priority /\ es[w].resp.bid >= es[j].resp.bid

\* select_winner returns an entry whenever there is a valid one, and only such as it
\* promises: its sort, its epsilon and its two ways to break a tie agree.
THEOREM SelectWinnerIsSound ==
    ASSUME NEW es, IsEntries(es), NEW I \in SUBSET DOMAIN es, I # {}
    PROVE  /\ SelectWinner(es, I) # {}
           /\ \E t \in I : IsTop(es, I, t)
           /\ \A t, w : IsTop(es, I, t) /\ w \in SelectWinner(es, I) => IsWinner(es, I, t, w)
<1> DEFINE f == SortedFirst(es, OfferedBids(es), I)
           top == es[f].resp.bid
           cs == Candidates(es, I)
           ranked == {i \in cs : es[i].priority # NoPriority}
<1>1. /\ OfferedBids(es) \in [DOMAIN es -> Int]
      /\ \A i \in DOMAIN es : OfferedBids(es)[i] = es[i].resp.bid /\ es[i].resp.bid \in Int
      /\ \A i \in DOMAIN es : es[i].priority \in Int
  BY DEF OfferedBids, IsEntries
<1>2. f \in I /\ \A j \in I : OfferedBids(es)[j] <= OfferedBids(es)[f]
  BY <1>1, SortedFirstIsHighest
<1> HIDE DEF f
<1>3. f \in I /\ \A j \in I : es[j].resp.bid <= top
  BY <1>1, <1>2
<1>4. cs = {i \in I : top - es[i].resp.bid < Epsilon}
  BY DEF Candidates, f
<1>5. f \in cs /\ cs \subseteq I /\ IsFiniteSet(cs)
  <2>1. f \in cs
    BY <1>1, <1>3, <1>4, EpsilonAssumption
  <2>2. IsFiniteSet(DOMAIN es)
    BY FS_Interval DEF IsEntries
  <2>3. cs \subseteq DOMAIN es
    BY <1>4
  <2> QED BY <1>4, <2>1, <2>2, <2>3, FS_Subset
<1> HIDE DEF cs
<1>6. ranked # {} => /\ FirstByPriority(es, ranked) \in ranked
                     /\ \A j \in ranked :
                          \/ es[FirstByPriority(es, ranked)].priority < es[j].priority
                          \/ /\ es[FirstByPriority(es, ranked)].priority = es[j].priority
                             /\ es[FirstByPriority(es, ranked)].resp.bid >= es[j].resp.bid
  <2>1. ranked \in SUBSET DOMAIN es
    BY <1>5
  <2> HIDE DEF ranked
  <2> QED BY <2>1, FirstByPriorityIsLeast
<1>7. SelectWinner(es, I) = IF Cardinality(cs) = 1 THEN cs
                            ELSE IF ranked # {} THEN {FirstByPriority(es, ranked)} ELSE cs
  BY DEF SelectWinner, cs
<1>8. SelectWinner(es, I) # {} /\ SelectWinner(es, I) \subseteq cs
  BY <1>5, <1>6, <1>7
<1>9. IsTop(es, I, f)
  BY <1>3 DEF IsTop
<1>10. ASSUME NEW t, NEW w, IsTop(es, I, t), w \in SelectWinner(es, I)
       PROVE  IsWinner(es, I, t, w)
  <2>1. t \in I /\ es[t].resp.bid = top
    BY <1>1, <1>3, <1>10 DEF IsTop
  <2>2. w \in cs /\ w \in I /\ top - es[w].resp.bid < Epsilon
    BY <1>4, <1>8, <1>10
  <2>3. ASSUME NEW j \in ranked
        PROVE  /\ es[w].priority # NoPriority
               /\ \/ es[w].priority < es[j].priority
                  \/ es[w].priority = es[j].priority /\ es[w].resp.bid >= es[j].resp.bid
    <3>1. CASE Cardinality(cs) = 1
      <4>1. PICK x : cs = {x}
        BY <1>5, <3>1, FS_Singleton
      <4>2. w = j
        BY <2>2, <4>1
      <4> QED BY <1>1, <2>2, <4>2
    <3>2. CASE Cardinality(cs) # 1
      <4>1. w = FirstByPriority(es, ranked)
        BY <1>7, <1>10, <3>2
      <4> QED BY <1>6, <4>1
    <3> QED BY <3>1, <3>2
  <2>4. \A j \in I : top - es[j].resp.bid < Epsilon /\ es[j].priority # NoPriority => j \in ranked
    BY <1>4
  <2> QED BY <2>1, <2>2, <2>3, <2>4 DEF IsWinner
<1> QED BY <1>3, <1>8, <1>9, <1>10

=============================================================================
