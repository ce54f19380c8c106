----------------------------- MODULE ListsProofs -----------------------------
(***************************************************************************)
(* Facts about the lists of the trading models: the sum of a list of       *)
(* numbers, and the list of an order manager's live orders, whose ids are  *)
(* in rising order because the oldest order comes first.                   *)
(***************************************************************************)
EXTENDS Lists, SequenceTheorems, WellFoundedInduction, TLAPS

Sums == INSTANCE FoldFacts WITH Op <- LAMBDA p, x, e : x + e
Keeps == INSTANCE FoldFacts
            WITH Op <- LAMBDA p, x, e : IF e \in p THEN Append(x, e) ELSE x

(* A set of numbers that has 0, and k + 1 with every k, has all up to n.   *)
LEMMA Induction ==
    ASSUME NEW n \in Nat, NEW K, 0 \in K, \A k \in 0..(n - 1) : k \in K => k + 1 \in K
    PROVE  \A k \in 0..n : k \in K
<1> SUFFICES ASSUME NEW k \in 0..n, k \notin K PROVE FALSE
    OBVIOUS
<1> DEFINE Missing == {m \in Nat : m <= n /\ m \notin K}
<1>1. PICK m \in Missing : \A y \in Missing : ~(<<y, m>> \in OpToRel(<, Nat))
    <2>1. Missing \subseteq Nat /\ k \in Missing
        OBVIOUS
    <2> HIDE DEF Missing
    <2> QED
        BY <2>1, WFMin, NatLessThanWellFounded, ZenonT(30)
<1>2. m \in Nat /\ m <= n /\ m # 0
    OBVIOUS
<1>3. m - 1 \in K
    <2>1. m - 1 \in Nat /\ m - 1 < m /\ m - 1 <= n
        BY <1>2
    <2>2. <<m - 1, m>> \in OpToRel(<, Nat)
        BY <1>2, <2>1 DEF OpToRel
    <2> QED
        BY <1>1, <2>1, <2>2, ZenonT(30)
<1> QED
    BY <1>2, <1>3

(* A sum is reached by adding one number after the other.                  *)
LEMMA TotalRuns ==
    ASSUME NEW s, NEW n \in Nat, DOMAIN s = 1..n
    PROVE  \E h : Sums!Runs(h, 0, 0, s, n) /\ Total(s) = h[n]
<1>1. Total(s) = Sums!Folded(0, 0, s)
    BY DEF Total, Sums!Folded, FoldLeft, MapThenFoldSet, Max, Sums!Largest
<1> QED
    BY <1>1, Induction, Sums!Along DEF Sums!CountsUp

(* A list is filtered one element after the other.                         *)
LEMMA KeptRuns ==
    ASSUME NEW T, NEW s, NEW n \in Nat, DOMAIN s = 1..n
    PROVE  \E h : Keeps!Runs(h, T, <<>>, s, n) /\ Kept(s, T) = h[n]
<1>1. Kept(s, T) = Keeps!Folded(T, <<>>, s)
    BY DEF Kept, Keeps!Folded, FoldLeft, MapThenFoldSet, Max, Keeps!Largest
<1> QED
    BY <1>1, Induction, Keeps!Along DEF Keeps!CountsUp
-----------------------------------------------------------------------------
(* Sums *)

(* A sum is folded one number at a time.                                   *)
LEMMA SumStep ==
    ASSUME NEW n \in Nat, NEW s, NEW h, Sums!Runs(h, 0, 0, s, n)
    PROVE  /\ h[0] = 0
           /\ \A i \in 1..n : h[i] = h[i - 1] + s[i]
BY DEF Sums!Runs

(* The sum of integers is an integer, and of naturals a natural.           *)
LEMMA TotalType ==
    ASSUME NEW n \in Nat, NEW s \in [1..n -> Int]
    PROVE  /\ Total(s) \in Int
           /\ s \in [1..n -> Nat] => Total(s) \in Nat
<1>1. PICK h : Sums!Runs(h, 0, 0, s, n) /\ Total(s) = h[n]
    BY TotalRuns
<1>2. /\ h[0] = 0
      /\ \A i \in 1..n : h[i] = h[i - 1] + s[i]
    BY <1>1, SumStep
<1> DEFINE K == {i \in 0..n : h[i] \in Int /\ (s \in [1..n -> Nat] => h[i] \in Nat)}
<1>3. 0 \in K
    BY <1>2
<1>4. ASSUME NEW k \in 0..(n - 1), k \in K PROVE k + 1 \in K
    <2>1. k + 1 \in 1..n /\ k + 1 \in 0..n /\ (k + 1) - 1 = k
        OBVIOUS
    <2>2. h[k + 1] = h[k] + s[k + 1]
        BY <1>2, <2>1
    <2>3. s[k + 1] \in Int /\ (s \in [1..n -> Nat] => s[k + 1] \in Nat)
        BY <2>1
    <2> QED
        BY <1>4, <2>1, <2>2, <2>3
<1>5. n \in K
    <2> HIDE DEF K
    <2>1. \A k \in 0..(n - 1) : k \in K => k + 1 \in K
        BY <1>4
    <2>2. \A k \in 0..n : k \in K
        BY <1>3, <2>1, Induction
    <2> QED
        BY <2>2
<1> QED
    BY <1>1, <1>5

(* One number changes.                                                     *)
Changed(t, s, n, j, d) ==
    /\ s \in [1..n -> Int] /\ t \in [1..n -> Int] /\ j \in 1..n /\ d \in Int
    /\ t[j] = s[j] + d
    /\ \A i \in 1..n : i # j => t[i] = s[i]

(* When one number changes, the sum changes by as much.                    *)
LEMMA TotalChanged ==
    ASSUME NEW n \in Nat, NEW s, NEW t, NEW j, NEW d, Changed(t, s, n, j, d)
    PROVE  Total(t) = Total(s) + d
<1>0. /\ s \in [1..n -> Int] /\ t \in [1..n -> Int] /\ j \in 1..n /\ d \in Int
      /\ t[j] = s[j] + d
      /\ \A i \in 1..n : i # j => t[i] = s[i]
    BY DEF Changed
<1> USE <1>0
<1>1. PICK h : Sums!Runs(h, 0, 0, s, n) /\ Total(s) = h[n]
    BY TotalRuns
<1>2. PICK g : Sums!Runs(g, 0, 0, t, n) /\ Total(t) = g[n]
    BY TotalRuns
<1>3. /\ h[0] = 0
      /\ \A i \in 1..n : h[i] = h[i - 1] + s[i]
    BY <1>1 DEF Sums!Runs
<1>4. /\ g[0] = 0
      /\ \A i \in 1..n : g[i] = g[i - 1] + t[i]
    BY <1>2 DEF Sums!Runs
<1> DEFINE K == {i \in 0..n : /\ h[i] \in Int
                              /\ g[i] = h[i] + (IF i >= j THEN d ELSE 0)}
<1>5. 0 \in K
    BY <1>3, <1>4
<1>6. ASSUME NEW k \in 0..(n - 1), k \in K PROVE k + 1 \in K
    <2>1. k + 1 \in 1..n /\ k + 1 \in 0..n /\ (k + 1) - 1 = k
        OBVIOUS
    <2>2. h[k + 1] = h[k] + s[k + 1] /\ g[k + 1] = g[k] + t[k + 1]
        BY <1>3, <1>4, <2>1
    <2>3. s[k + 1] \in Int /\ t[k + 1] \in Int
        BY <2>1
    <2>4. h[k] \in Int /\ g[k] = h[k] + (IF k >= j THEN d ELSE 0)
        BY <1>6
    <2>5. CASE k + 1 = j
        <3>1. t[k + 1] = s[k + 1] + d /\ ~(k >= j) /\ k + 1 >= j
            BY <2>1, <2>5
        <3>2. g[k] = h[k] /\ d \in Int
            BY <2>3, <2>4, <3>1
        <3>3. h[k + 1] \in Int /\ g[k + 1] = h[k + 1] + d
            BY ONLY <2>2, <2>3, <2>4, <3>1, <3>2
        <3> QED
            BY ONLY <2>1, <3>1, <3>3
    <2>6. CASE k + 1 # j
        <3>1. t[k + 1] = s[k + 1] /\ (k >= j <=> k + 1 >= j)
            BY <2>1, <2>6
        <3> QED
            BY <2>1, <2>2, <2>3, <2>4, <3>1
    <2> QED
        BY <2>5, <2>6
<1>7. n \in K
    <2> HIDE DEF K
    <2>1. \A k \in 0..(n - 1) : k \in K => k + 1 \in K
        BY <1>6
    <2>2. \A k \in 0..n : k \in K
        BY <1>5, <2>1, Induction
    <2> QED
        BY <2>2
<1> QED
    BY <1>1, <1>2, <1>7

(* t is s with one number more, at place j.                                *)
Inserted(t, s, n, j) ==
    /\ s \in [1..n -> Int] /\ t \in [1..(n + 1) -> Int] /\ j \in 1..(n + 1)
    /\ \A i \in 1..n : /\ i < j => t[i] = s[i]
                       /\ i >= j => t[i + 1] = s[i]

(* When a number is put in anywhere, the sum grows by it.                  *)
LEMMA TotalInserted ==
    ASSUME NEW n \in Nat, NEW s, NEW t, NEW j, Inserted(t, s, n, j)
    PROVE  Total(t) = Total(s) + t[j]
<1> DEFINE m == n + 1
<1>0. /\ m \in Nat /\ m = n + 1
      /\ s \in [1..n -> Int] /\ t \in [1..m -> Int] /\ j \in 1..m
      /\ \A i \in 1..n : /\ i < j => t[i] = s[i]
                         /\ i >= j => t[i + 1] = s[i]
    BY DEF Inserted
<1> HIDE DEF m
<1> USE <1>0
<1>1. PICK h : Sums!Runs(h, 0, 0, s, n) /\ Total(s) = h[n]
    BY TotalRuns
<1>2. PICK g : Sums!Runs(g, 0, 0, t, m) /\ Total(t) = g[m]
    BY TotalRuns
<1>3. /\ h[0] = 0
      /\ \A i \in 1..n : h[i] = h[i - 1] + s[i]
    BY <1>1 DEF Sums!Runs
<1>4. /\ g[0] = 0
      /\ \A i \in 1..m : g[i] = g[i - 1] + t[i]
    BY <1>2 DEF Sums!Runs
<1> DEFINE K == {i \in 0..n : /\ h[i] \in Int
                              /\ i < j => g[i] = h[i]
                              /\ i >= j - 1 => g[i + 1] = h[i] + t[j]}
<1>5. 0 \in K
    <2>1. t[j] \in Int /\ 1 \in 1..m
        OBVIOUS
    <2>2. g[1] = 0 + t[1]
        BY <1>4, <2>1
    <2> QED
        BY <1>3, <1>4, <2>1, <2>2
<1>6. ASSUME NEW k \in 0..(n - 1), k \in K PROVE k + 1 \in K
    <2>1. /\ k + 1 \in 1..n /\ k + 1 \in 0..n /\ (k + 1) - 1 = k
          /\ k + 1 \in 1..m /\ k + 2 \in 1..m /\ (k + 2) - 1 = k + 1
        OBVIOUS
    <2>2. h[k + 1] = h[k] + s[k + 1] /\ g[k + 1] = g[k] + t[k + 1]
        BY <1>3, <1>4, <2>1
    <2>3. g[k + 2] = g[k + 1] + t[k + 2]
        BY <1>4, <2>1
    <2>4. s[k + 1] \in Int /\ t[k + 1] \in Int /\ t[k + 2] \in Int /\ t[j] \in Int
        BY <2>1
    <2>5. /\ h[k] \in Int
          /\ k < j => g[k] = h[k]
          /\ k >= j - 1 => g[k + 1] = h[k] + t[j]
        BY <1>6
    <2>6. CASE k + 1 < j
        <3>1. t[k + 1] = s[k + 1]
            BY <2>1, <2>6
        <3>2. g[k + 1] = h[k + 1]
            BY <2>2, <2>5, <2>6, <3>1
        <3>3. k + 1 >= j - 1 => k + 2 = j
            BY <2>6
        <3> QED
            BY <2>1, <2>2, <2>3, <2>4, <2>5, <2>6, <3>2, <3>3
    <2>7. CASE k + 1 >= j
        <3>1. t[k + 2] = s[k + 1] /\ ~(k + 1 < j) /\ k >= j - 1
            BY <2>1, <2>7
        <3>2. h[k + 1] \in Int /\ g[k + 2] = h[k + 1] + t[j]
            <4> HIDE DEF K
            <4>1. g[k + 1] = h[k] + t[j]
                BY <2>5, <3>1
            <4>2. g[k + 2] = g[k + 1] + s[k + 1]
                BY <2>3, <3>1
            <4> QED
                <5>1. \A a, b, c \in Int : (a + b) + c = (a + c) + b /\ a + c \in Int
                    OBVIOUS
                <5>2. h[k] \in Int /\ t[j] \in Int /\ s[k + 1] \in Int
                    BY <2>4, <2>5
                <5>3. g[k + 2] = (h[k] + t[j]) + s[k + 1] /\ h[k + 1] = h[k] + s[k + 1]
                    BY <2>2, <4>1, <4>2
                <5> QED
                    BY <5>1, <5>2, <5>3, SMTT(30)
        <3>3. (k + 1) + 1 = k + 2
            OBVIOUS
        <3> QED
            BY <2>1, <3>1, <3>2, <3>3
    <2> QED
        BY <2>6, <2>7
<1>7. n \in K
    <2> HIDE DEF K
    <2>1. \A k \in 0..(n - 1) : k \in K => k + 1 \in K
        BY <1>6
    <2>2. \A k \in 0..n : k \in K
        BY <1>5, <2>1, Induction
    <2> QED
        BY <2>2
<1> QED
    BY <1>1, <1>2, <1>7

(* The sum of zeros is 0.                                                  *)
LEMMA TotalZero ==
    ASSUME NEW n \in Nat, NEW s \in [1..n -> Int], \A i \in 1..n : s[i] = 0
    PROVE  Total(s) = 0
<1>1. PICK h : Sums!Runs(h, 0, 0, s, n) /\ Total(s) = h[n]
    BY TotalRuns
<1>2. /\ h[0] = 0
      /\ \A i \in 1..n : h[i] = h[i - 1] + s[i]
    BY <1>1, SumStep
<1> DEFINE K == {i \in 0..n : h[i] = 0}
<1>3. 0 \in K
    BY <1>2
<1>4. ASSUME NEW k \in 0..(n - 1), k \in K PROVE k + 1 \in K
    <2>1. k + 1 \in 1..n /\ k + 1 \in 0..n /\ (k + 1) - 1 = k
        OBVIOUS
    <2>2. h[k + 1] = h[k] + s[k + 1]
        BY <1>2, <2>1
    <2> QED
        BY <1>4, <2>1, <2>2
<1>5. n \in K
    <2> HIDE DEF K
    <2>1. \A k \in 0..(n - 1) : k \in K => k + 1 \in K
        BY <1>4
    <2>2. \A k \in 0..n : k \in K
        BY <1>3, <2>1, Induction
    <2> QED
        BY <2>2
<1> QED
    BY <1>1, <1>5

(* Of two lists the one with the smaller numbers has the smaller sum.      *)
LEMMA TotalMonotone ==
    ASSUME NEW n \in Nat, NEW s \in [1..n -> Int], NEW t \in [1..n -> Int],
           \A i \in 1..n : s[i] <= t[i]
    PROVE  Total(s) <= Total(t)
<1>1. PICK h : Sums!Runs(h, 0, 0, s, n) /\ Total(s) = h[n]
    BY TotalRuns
<1>2. PICK g : Sums!Runs(g, 0, 0, t, n) /\ Total(t) = g[n]
    BY TotalRuns
<1>3. /\ h[0] = 0
      /\ \A i \in 1..n : h[i] = h[i - 1] + s[i]
    BY <1>1, SumStep
<1>4. /\ g[0] = 0
      /\ \A i \in 1..n : g[i] = g[i - 1] + t[i]
    BY <1>2, SumStep
<1> DEFINE K == {i \in 0..n : h[i] \in Int /\ g[i] \in Int /\ h[i] <= g[i]}
<1>5. 0 \in K
    BY <1>3, <1>4
<1>6. ASSUME NEW k \in 0..(n - 1), k \in K PROVE k + 1 \in K
    <2>1. k + 1 \in 1..n /\ k + 1 \in 0..n /\ (k + 1) - 1 = k
        OBVIOUS
    <2>2. h[k + 1] = h[k] + s[k + 1] /\ g[k + 1] = g[k] + t[k + 1]
        BY <1>3, <1>4, <2>1
    <2>3. s[k + 1] \in Int /\ t[k + 1] \in Int /\ s[k + 1] <= t[k + 1]
        BY <2>1
    <2>4. h[k] \in Int /\ g[k] \in Int /\ h[k] <= g[k]
        BY <1>6
    <2> QED
        BY <2>1, <2>2, <2>3, <2>4
<1>7. n \in K
    <2> HIDE DEF K
    <2>1. \A k \in 0..(n - 1) : k \in K => k + 1 \in K
        BY <1>6
    <2>2. \A k \in 0..n : k \in K
        BY <1>5, <2>1, Induction
    <2> QED
        BY <2>2
<1> QED
    BY <1>1, <1>2, <1>7

(* The sum of no numbers is 0.                                             *)
LEMMA TotalNone ==
    ASSUME NEW s, DOMAIN s = 1..0
    PROVE  Total(s) = 0
<1>1. PICK h : Sums!Runs(h, 0, 0, s, 0) /\ Total(s) = h[0]
    BY TotalRuns
<1> QED
    BY <1>1 DEF Sums!Runs

-----------------------------------------------------------------------------
(* Lists in rising order *)

Rising(s) == \A i, j \in DOMAIN s : i < j => s[i] < s[j]

(* A rising list stays rising when something larger is appended.           *)
LEMMA RisingAppend ==
    ASSUME NEW s \in Seq(Int), NEW x \in Int, Rising(s), \A y \in ToSet(s) : y < x
    PROVE  /\ Append(s, x) \in Seq(Int) /\ Rising(Append(s, x))
           /\ ToSet(Append(s, x)) = ToSet(s) \cup {x}
<1> DEFINE t == Append(s, x)
<1>1. /\ t \in Seq(Int) /\ DOMAIN t = 1..(Len(s) + 1) /\ DOMAIN s = 1..Len(s)
      /\ Len(s) \in Nat /\ t[Len(s) + 1] = x
      /\ \A i \in 1..Len(s) : t[i] = s[i]
    OBVIOUS
<1> HIDE DEF t
<1>2. ASSUME NEW i \in DOMAIN t, NEW j \in DOMAIN t, i < j PROVE t[i] < t[j]
    <2>1. i \in 1..Len(s)
        BY <1>1, <1>2
    <2>2. CASE j \in 1..Len(s)
        BY <1>1, <1>2, <2>1, <2>2 DEF Rising
    <2>3. CASE j = Len(s) + 1
        BY <1>1, <2>1, <2>3 DEF ToSet
    <2> QED
        BY <1>1, <2>2, <2>3
<1>3. ToSet(t) = ToSet(s) \cup {x}
    <2>1. \A y \in ToSet(t) : y \in ToSet(s) \cup {x}
        BY <1>1 DEF ToSet
    <2>2. \A y \in ToSet(s) \cup {x} : y \in ToSet(t)
        <3>1. 1..Len(s) \subseteq 1..(Len(s) + 1) /\ Len(s) + 1 \in 1..(Len(s) + 1)
            BY <1>1
        <3> QED
            BY <1>1, <3>1 DEF ToSet
    <2> QED
        BY <2>1, <2>2
<1> QED
    BY <1>1, <1>2, <1>3 DEF Rising, t

(* The kept elements stay in order.                                        *)
LEMMA KeptRising ==
    ASSUME NEW s \in Seq(Int), NEW T, Rising(s)
    PROVE  /\ Kept(s, T) \in Seq(Int) /\ Rising(Kept(s, T))
           /\ ToSet(Kept(s, T)) = ToSet(s) \cap T
<1> DEFINE n == Len(s)
<1>0. n \in Nat /\ DOMAIN s = 1..n
    OBVIOUS
<1> HIDE DEF n
<1>1. PICK h : Keeps!Runs(h, T, <<>>, s, n) /\ Kept(s, T) = h[n]
    BY <1>0, KeptRuns
<1>2. /\ h[0] = <<>>
      /\ \A i \in 1..n : s[i] \in T => h[i] = Append(h[i - 1], s[i])
      /\ \A i \in 1..n : s[i] \notin T => h[i] = h[i - 1]
    BY <1>1 DEF Keeps!Runs
<1> DEFINE K == {k \in 0..n : /\ h[k] \in Seq(Int) /\ Rising(h[k])
                              /\ ToSet(h[k]) = {s[i] : i \in 1..k} \cap T}
<1>3. 0 \in K
    <2>1. <<>> \in Seq(Int) /\ DOMAIN <<>> = {}
        OBVIOUS
    <2>2. Rising(<<>>) /\ ToSet(<<>>) = {}
        BY <2>1 DEF Rising, ToSet
    <2>3. 1..0 = {} /\ 0 \in 0..n
        BY <1>0
    <2> QED
        BY <1>2, <2>1, <2>2, <2>3
<1>4. ASSUME NEW k \in 0..(n - 1), k \in K PROVE k + 1 \in K
    <2>1. k + 1 \in 1..n /\ k + 1 \in 0..n /\ (k + 1) - 1 = k
        BY <1>0
    <2>2. s[k + 1] \in Int /\ \A i \in 1..k : s[i] < s[k + 1]
        BY <1>0, <2>1 DEF Rising
    <2>3. h[k] \in Seq(Int) /\ Rising(h[k]) /\ ToSet(h[k]) = {s[i] : i \in 1..k} \cap T
        BY <1>4
    <2>4. {s[i] : i \in 1..(k + 1)} = {s[i] : i \in 1..k} \cup {s[k + 1]}
        <3>1. 1..(k + 1) = (1..k) \cup {k + 1}
            BY <1>0
        <3> QED
            BY <3>1
    <2>5. CASE s[k + 1] \in T
        <3>1. h[k + 1] = Append(h[k], s[k + 1])
            BY <1>2, <2>1, <2>5
        <3>2. \A y \in ToSet(h[k]) : y < s[k + 1]
            BY <2>2, <2>3
        <3>3. /\ h[k + 1] \in Seq(Int) /\ Rising(h[k + 1])
              /\ ToSet(h[k + 1]) = ToSet(h[k]) \cup {s[k + 1]}
            BY <2>2, <2>3, <3>1, <3>2, RisingAppend
        <3>4. ToSet(h[k + 1]) = {s[i] : i \in 1..(k + 1)} \cap T
            BY <2>3, <2>4, <2>5, <3>3
        <3> QED
            BY <2>1, <3>3, <3>4
    <2>6. CASE s[k + 1] \notin T
        <3>1. h[k + 1] = h[k]
            BY <1>2, <2>1, <2>6
        <3>2. ToSet(h[k + 1]) = {s[i] : i \in 1..(k + 1)} \cap T
            BY <2>3, <2>4, <2>6, <3>1
        <3> QED
            BY <2>1, <2>3, <3>1, <3>2
    <2> QED
        BY <2>5, <2>6
<1>5. n \in K
    <2> HIDE DEF K
    <2>1. \A k \in 0..(n - 1) : k \in K => k + 1 \in K
        BY <1>4
    <2>2. \A k \in 0..n : k \in K
        BY <1>0, <1>3, <2>1, Induction
    <2> QED
        BY <1>0, <2>2
<1> QED
    BY <1>0, <1>1, <1>5 DEF ToSet

(* A rising list without some of its ids is rising.                        *)
LEMMA KeptListed ==
    ASSUME NEW l, l \in Seq(Int), Rising(l), NEW ids
    PROVE  /\ Kept(l, ToSet(l) \ ids) \in Seq(Int) /\ Rising(Kept(l, ToSet(l) \ ids))
           /\ ToSet(Kept(l, ToSet(l) \ ids)) = ToSet(l) \ ids
<1> DEFINE M == ToSet(l) \ ids
<1>1. ToSet(l) \cap M = M
    OBVIOUS
<1> HIDE DEF M
<1>2. Kept(l, M) \in Seq(Int) /\ Rising(Kept(l, M)) /\ ToSet(Kept(l, M)) = M
    BY <1>1, KeptRising
<1> QED
    BY <1>2 DEF M
=============================================================================
