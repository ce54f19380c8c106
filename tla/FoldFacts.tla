------------------------------ MODULE FoldFacts ------------------------------
(***************************************************************************)
(* What a proof needs to know of a fold over a list: the fold runs along   *)
(* the list, one element after the other.  The operator that is folded is  *)
(* a parameter of the module, so that each fold of a model has its own     *)
(* instance of these facts; p stands for whatever else the operator needs. *)
(***************************************************************************)
EXTENDS Integers

CONSTANT Op(_, _, _)   \* one step: the parameters, the result so far, the element
-----------------------------------------------------------------------------
(* Lists one element at a time *)

(* Induction over 0..n, as a hypothesis of the lemmas here: Induction of   *)
(* ListsProofs proves it once, so that the instances of this module do not *)
(* each come with the library's theorems about induction.                  *)
CountsUp ==
    \A n \in Nat : \A K : 0 \in K /\ (\A k \in 0..(n - 1) : k \in K => k + 1 \in K)
                         => \A k \in 0..n : k \in K

(* The largest number of a set: Max of the module FiniteSetsExt.           *)
Largest(S) == CHOOSE x \in S : \A y \in S : x >= y

(* The largest number of a range of positions is its last.                 *)
LEMMA LastOfRange ==
    ASSUME NEW i \in Nat \ {0}
    PROVE  Largest(1..i) = i /\ (1..i) \ {i} = 1..(i - 1) /\ 1..i # {}
<1>1. i \in 1..i /\ \A y \in 1..i : i >= y
    OBVIOUS
<1>2. Largest(1..i) \in 1..i /\ \A y \in 1..i : Largest(1..i) >= y
    BY <1>1 DEF Largest
<1> QED
    BY <1>1, <1>2

(* A part of a range that holds the range's last number has it as its      *)
(* largest.                                                                *)
LEMMA LastOfPart ==
    ASSUME CountsUp, NEW k \in Nat, NEW d \in SUBSET (1..(k + 1)), d # {}
    PROVE  /\ k + 1 \in d => Largest(d) = k + 1
           /\ Largest(d) \in d
<1> DEFINE K == {j \in 0..(k + 1) :
                    \A e \in SUBSET (1..j) : e # {} => \E x \in e : \A y \in e : x >= y}
<1>1. 0 \in K
    <2>1. \A e \in SUBSET (1..0) : e = {}
        OBVIOUS
    <2>2. 0 \in 0..(k + 1)
        OBVIOUS
    <2> QED
        BY <2>1, <2>2
<1>2. ASSUME NEW j \in 0..k, j \in K PROVE j + 1 \in K
    <2> SUFFICES ASSUME NEW e \in SUBSET (1..(j + 1)), e # {}
                 PROVE  \E x \in e : \A y \in e : x >= y
        OBVIOUS
    <2>1. CASE j + 1 \in e
        BY <2>1
    <2>2. CASE j + 1 \notin e
        <3>1. e \in SUBSET (1..j)
            BY <2>2
        <3> QED
            BY <1>2, <3>1
    <2> QED
        BY <2>1, <2>2
<1>3. k + 1 \in K
    <2> HIDE DEF K
    <2>1. \A j \in 0..((k + 1) - 1) : j \in K => j + 1 \in K
        BY <1>2
    <2>2. \A j \in 0..(k + 1) : j \in K
        BY <1>1, <2>1 DEF CountsUp
    <2> QED
        BY <2>2
<1>4. \E x \in d : \A y \in d : x >= y
    BY <1>3
<1>5. Largest(d) \in d /\ \A y \in d : Largest(d) >= y
    BY <1>4 DEF Largest
<1>6. k + 1 \in d => Largest(d) = k + 1
    <2> SUFFICES ASSUME k + 1 \in d PROVE Largest(d) = k + 1
        OBVIOUS
    <2>1. Largest(d) >= k + 1 /\ Largest(d) \in 1..(k + 1)
        BY <1>5
    <2> QED
        BY <2>1
<1> QED
    BY <1>5, <1>6
-----------------------------------------------------------------------------
(* Folds *)

(* g gives the result of a fold for every part of the list's places.       *)
FoldsTo(g, p, base, s, n) ==
    g = [d \in SUBSET (1..n) |->
            IF d = {} THEN base ELSE Op(p, g[d \ {Largest(d)}], s[Largest(d)])]

(* h lists the results of a fold along the list, the first one at 0.       *)
Runs(h, p, base, s, n) ==
    /\ DOMAIN h = 0..n
    /\ h[0] = base
    /\ \A i \in 1..n : h[i] = Op(p, h[i - 1], s[i])

(* The function behind a fold exists.                                      *)
LEMMA FoldExists ==
    ASSUME CountsUp, NEW p, NEW base, NEW s, NEW n \in Nat
    PROVE  \E g : FoldsTo(g, p, base, s, n)
<1> DEFINE K == {k \in 0..n : \E g : FoldsTo(g, p, base, s, k)}
<1>1. 0 \in K
    <2> DEFINE g == [d \in SUBSET (1..0) |-> base]
    <2>1. FoldsTo(g, p, base, s, 0)
        BY \A d \in SUBSET (1..0) : d = {} DEF FoldsTo
    <2> HIDE DEF g
    <2> QED
        BY <2>1
<1>2. ASSUME NEW k \in 0..(n - 1), k \in K PROVE k + 1 \in K
    <2>1. PICK g : FoldsTo(g, p, base, s, k)
        BY <1>2
    <2> DEFINE f == [d \in SUBSET (1..(k + 1)) |->
                        IF k + 1 \in d THEN Op(p, g[d \ {k + 1}], s[k + 1])
                        ELSE g[d]]
    <2>2. ASSUME NEW d \in SUBSET (1..(k + 1))
          PROVE  f[d] = IF d = {} THEN base
                        ELSE Op(p, f[d \ {Largest(d)}], s[Largest(d)])
        <3>1. \A e \in SUBSET (1..k) : f[e] = g[e] /\ e \in SUBSET (1..(k + 1))
            OBVIOUS
        <3>2. \A e \in SUBSET (1..k) :
                 g[e] = IF e = {} THEN base
                        ELSE Op(p, g[e \ {Largest(e)}], s[Largest(e)])
            BY <2>1 DEF FoldsTo
        <3>3. CASE d = {}
            BY <3>1, <3>2, <3>3
        <3>4. CASE k + 1 \in d
            <4>1. Largest(d) = k + 1 /\ d \ {k + 1} \in SUBSET (1..k)
                BY <3>4, LastOfPart
            <4>2. f[d] = Op(p, g[d \ {k + 1}], s[k + 1])
                BY <3>4
            <4> HIDE DEF f
            <4> QED
                BY <3>1, <3>4, <4>1, <4>2
        <3>5. CASE d # {} /\ k + 1 \notin d
            <4>1. \A x \in d : x \in 1..k
                <5> SUFFICES ASSUME NEW x \in d PROVE x \in 1..k
                    OBVIOUS
                <5>1. x \in 1..(k + 1) /\ x # k + 1
                    BY <3>5
                <5> QED
                    BY <5>1
            <4>2. d \in SUBSET (1..k) /\ d \ {Largest(d)} \in SUBSET (1..k)
                BY <4>1
            <4> HIDE DEF f
            <4> QED
                BY <3>1, <3>2, <3>5, <4>2
        <3> HIDE DEF f
        <3> QED
            BY <3>3, <3>4, <3>5
    <2>3. FoldsTo(f, p, base, s, k + 1)
        <3>1. f = [d \in SUBSET (1..(k + 1)) |-> f[d]]
            OBVIOUS
        <3> HIDE DEF f
        <3>2. f = [d \in SUBSET (1..(k + 1)) |->
                      IF d = {} THEN base
                      ELSE Op(p, f[d \ {Largest(d)}], s[Largest(d)])]
            BY <2>2, <3>1
        <3> QED
            BY <3>2 DEF FoldsTo
    <2>4. k + 1 \in 0..n
        OBVIOUS
    <2> HIDE DEF f
    <2> QED
        BY <2>3, <2>4
<1>3. n \in K
    <2> HIDE DEF K
    <2>1. \A k \in 0..(n - 1) : k \in K => k + 1 \in K
        BY <1>2
    <2>2. \A k \in 0..n : k \in K
        BY <1>1, <2>1 DEF CountsUp
    <2> QED
        BY <2>2
<1> QED
    BY <1>3

(* The results of a fold along the list.                                   *)
LEMMA FoldRuns ==
    ASSUME NEW p, NEW base, NEW s, NEW n \in Nat, NEW it,
           FoldsTo(it, p, base, s, n)
    PROVE  \E h : Runs(h, p, base, s, n) /\ it[1..n] = h[n]
<1> DEFINE h == [i \in 0..n |-> it[1..i]]
<1>1. \A d \in SUBSET (1..n) :
         it[d] = IF d = {} THEN base ELSE Op(p, it[d \ {Largest(d)}], s[Largest(d)])
    BY DEF FoldsTo
<1>2. DOMAIN h = 0..n /\ \A i \in 0..n : h[i] = it[1..i]
    OBVIOUS
<1> HIDE DEF h
<1>3. h[0] = base
    <2>1. 1..0 = {} /\ 0 \in 0..n
        OBVIOUS
    <2>2. h[0] = it[{}] /\ {} \in SUBSET (1..n)
        BY <1>2, <2>1
    <2> QED
        BY <1>1, <2>2
<1>4. ASSUME NEW i \in 1..n PROVE h[i] = Op(p, h[i - 1], s[i])
    <2>1. 1..i \in SUBSET (1..n) /\ i - 1 \in 0..n /\ i \in 0..n /\ i \in Nat \ {0}
        OBVIOUS
    <2>2. Largest(1..i) = i /\ (1..i) \ {i} = 1..(i - 1) /\ 1..i # {}
        BY <2>1, LastOfRange
    <2>3. it[1..i] = Op(p, it[(1..i) \ {Largest(1..i)}], s[Largest(1..i)])
        BY <1>1, <2>1, <2>2
    <2>4. h[i] = it[1..i] /\ h[i - 1] = it[1..(i - 1)]
        BY <1>2, <2>1
    <2> QED
        BY <2>2, <2>3, <2>4
<1>5. it[1..n] = h[n]
    BY <1>2
<1>6. Runs(h, p, base, s, n)
    BY <1>2, <1>3, <1>4 DEF Runs
<1> QED
    BY <1>5, <1>6

(* FoldLeft of the module SequencesExt, with Op.                           *)
Folded(p, base, s) ==
    LET it == CHOOSE g : g = [d \in SUBSET (DOMAIN s) |->
                                 IF d = {} THEN base
                                 ELSE Op(p, g[d \ {Largest(d)}], s[Largest(d)])]
    IN  it[DOMAIN s]

(* A fold has a run, and ends with its last result.                        *)
LEMMA Along ==
    ASSUME CountsUp, NEW p, NEW base, NEW s, NEW n \in Nat, DOMAIN s = 1..n
    PROVE  \E h : Runs(h, p, base, s, n) /\ Folded(p, base, s) = h[n]
<1> DEFINE Rec(g, D) == [d \in SUBSET D |->
                            IF d = {} THEN base
                            ELSE Op(p, g[d \ {Largest(d)}], s[Largest(d)])]
           it == CHOOSE g : g = Rec(g, DOMAIN s)
<1>2. \A g : FoldsTo(g, p, base, s, n) <=> g = Rec(g, 1..n)
    BY DEF FoldsTo
<1>3. it = Rec(it, 1..n)
    <2>1. \E g : g = Rec(g, DOMAIN s)
        BY <1>2, FoldExists
    <2> HIDE DEF Rec
    <2> QED
        BY <2>1
<1>4. Folded(p, base, s) = it[1..n]
    BY DEF Folded
<1> HIDE DEF it
<1>5. FoldsTo(it, p, base, s, n)
    BY <1>2, <1>3
<1> QED
    BY <1>4, <1>5, FoldRuns
=============================================================================
