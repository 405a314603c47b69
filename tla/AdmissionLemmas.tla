-------------------------- MODULE AdmissionLemmas --------------------------
(***************************************************************************)
(* What the operations of AdmissionOps keep, for every input: first the    *)
(* array helpers Filter and FlatPending, then draining and the calls that  *)
(* drain.  AdmissionProofs and RegistryProofs cite these lemmas.           *)
(*                                                                         *)
(* Both helpers are recursive functions.  Their facts are proved by a      *)
(* minimal counterexample, a natural number that NatMinimum supplies.      *)
(***************************************************************************)
EXTENDS AdmissionOps, FiniteSetTheorems, SequenceTheorems, TLAPS

\* A nonempty set of naturals has a least element.
LEMMA NatMinimum ==
  ASSUME NEW T \in SUBSET Nat, T # {}
  PROVE  \E n \in T : \A m \in T : n <= m
<1> DEFINE less == OpToRel(<, Nat)
<1>1. IsWellFoundedOn(less, Nat)
  BY NatLessThanWellFounded
<1>2. \A m, n \in Nat : m < n => <<m, n>> \in less
  BY SMT DEF OpToRel
<1> HIDE DEF less
<1>3. PICK n \in T : \A m \in T : <<m, n>> \notin less
  BY <1>1, WFMin
<1>4. ASSUME NEW m \in T PROVE n <= m
  <2>1. m \in Nat /\ n \in Nat
    OBVIOUS
  <2>2. ~ (m < n)
    BY <1>2, <1>3, <2>1, Zenon
  <2> QED
    BY <2>1, <2>2, SMT
<1> QED
  BY <1>4

-----------------------------------------------------------------------------
(***************************************************************************)
(* Filter                                                                  *)
(***************************************************************************)

\* g satisfies the recursive definition inside Filter, up to index L.
Kept(s, S, L, g) ==
  g = [n \in 0 .. L |->
         IF n = 0 THEN << >>
         ELSE IF s[n] \in S THEN Append(g[n - 1], s[n]) ELSE g[n - 1]]

LEMMA KeptExists ==
  ASSUME NEW T, NEW s \in Seq(T), NEW S
  PROVE  \A L \in 0 .. Len(s) : \E g : Kept(s, S, L, g)
<1> DEFINE Bad == {L \in 0 .. Len(s) : ~ \E g : Kept(s, S, L, g)}
<1> SUFFICES ASSUME Bad # {} PROVE FALSE
  OBVIOUS
<1>1. PICK L \in Bad : \A m \in Bad : L <= m
  <2>1. Bad \in SUBSET Nat
    BY LenProperties
  <2> QED
    BY <2>1, NatMinimum
<1>2. L # 0
  <2> DEFINE g == [n \in 0 .. 0 |-> << >>]
  <2>1. Kept(s, S, 0, g)
    BY DEF Kept
  <2> QED
    BY <1>1, <2>1
<1>3. L \in Nat /\ L - 1 \in 0 .. Len(s) /\ L - 1 \notin Bad
  BY <1>1, <1>2, LenProperties
<1>4. PICK g : Kept(s, S, L - 1, g)
  BY <1>3
<1> DEFINE last == IF s[L] \in S THEN Append(g[L - 1], s[L]) ELSE g[L - 1]
           h    == [n \in 0 .. L |-> IF n < L THEN g[n] ELSE last]
<1>5. \A n \in 0 .. L : h[n] =
         IF n = 0 THEN << >>
         ELSE IF s[n] \in S THEN Append(h[n - 1], s[n]) ELSE h[n - 1]
  <2> SUFFICES ASSUME NEW n \in 0 .. L
               PROVE  h[n] = IF n = 0 THEN << >>
                             ELSE IF s[n] \in S THEN Append(h[n - 1], s[n]) ELSE h[n - 1]
    OBVIOUS
  <2>1. CASE n = L
    <3>1. h[n] = last /\ h[n - 1] = g[n - 1] /\ n # 0
      BY <1>2, <1>3, <2>1
    <3> QED
      BY <2>1, <3>1
  <2>2. CASE n # L
    <3>1. n \in 0 .. (L - 1) /\ h[n] = g[n]
      BY <1>3, <2>2
    <3>2. g[n] = IF n = 0 THEN << >>
                 ELSE IF s[n] \in S THEN Append(g[n - 1], s[n]) ELSE g[n - 1]
      BY <1>4, <3>1, Zenon DEF Kept
    <3>3. CASE n = 0
      BY <3>1, <3>2, <3>3
    <3>4. CASE n # 0
      <4>1. h[n - 1] = g[n - 1]
        BY <1>3, <3>1, <3>4
      <4> QED
        BY <3>1, <3>2, <3>4, <4>1
    <3> QED
      BY <3>3, <3>4
  <2> QED
    BY <2>1, <2>2
<1>6. Kept(s, S, L, h)
  <2> HIDE DEF last
  <2>1. h = [n \in 0 .. L |-> h[n]]
    OBVIOUS
  <2> QED
    BY <1>5, <2>1, Zenon DEF Kept
<1> QED
  BY <1>1, <1>6

\* Filter(s, S) is a sequence made of exactly the elements of s that are in
\* S, and is no longer than s.
LEMMA FilterProperties ==
  ASSUME NEW T, NEW s \in Seq(T), NEW S
  PROVE  /\ Filter(s, S) \in Seq(T)
         /\ Len(Filter(s, S)) <= Len(s)
         /\ Elements(Filter(s, S)) = Elements(s) \intersect S
<1> DEFINE g == CHOOSE g : Kept(s, S, Len(s), g)
<1>1. Kept(s, S, Len(s), g)
  <2>1. Len(s) \in 0 .. Len(s)
    BY LenProperties
  <2> QED
    BY <2>1, KeptExists
<1>2. Filter(s, S) = g[Len(s)]
  BY Zenon DEF Filter, Kept
<1> DEFINE Good(n) == /\ g[n] \in Seq(T)
                      /\ Len(g[n]) <= n
                      /\ {g[n][i] : i \in 1 .. Len(g[n])} = {s[i] : i \in 1 .. n} \intersect S
           Bad == {n \in 0 .. Len(s) : ~Good(n)}
<1>3. ASSUME Bad # {} PROVE FALSE
  <2>1. PICK n \in Bad : \A m \in Bad : n <= m
    <3>1. Bad \in SUBSET Nat
      BY LenProperties
    <3> HIDE DEF Bad
    <3> QED
      BY <1>3, <3>1, NatMinimum
  <2> HIDE DEF g
  <2>2. Len(s) \in Nat /\ n \in 0 .. Len(s)
    BY <2>1, LenProperties
  <2>3. \A m \in 0 .. Len(s) : g[m] =
           IF m = 0 THEN << >>
           ELSE IF s[m] \in S THEN Append(g[m - 1], s[m]) ELSE g[m - 1]
    BY <1>1, Zenon DEF Kept
  <2>4. Good(0)
    <3>1. g[0] = << >>
      BY <2>2, <2>3
    <3> QED
      BY <3>1
  <2>5. n # 0
    BY <2>1, <2>4
  <2>6. Good(n - 1)
    BY <2>1, <2>2, <2>5
  <2>7. s[n] \in T
    BY <2>2, <2>5
  <2>8. {s[i] : i \in 1 .. n} = {s[i] : i \in 1 .. (n - 1)} \union {s[n]}
    BY <2>2, <2>5
  <2>9. CASE s[n] \in S
    <3>1. g[n] = Append(g[n - 1], s[n])
      BY <2>2, <2>3, <2>5, <2>9
    <3>2. g[n] \in Seq(T) /\ Len(g[n]) = Len(g[n - 1]) + 1 /\ Len(g[n]) <= n
      BY <2>2, <2>6, <2>7, <3>1
    <3>3. {g[n][i] : i \in 1 .. Len(g[n])}
            = {g[n - 1][i] : i \in 1 .. Len(g[n - 1])} \union {s[n]}
      <4> DEFINE p == g[n - 1]  e == s[n]
      <4>1. p \in Seq(T) /\ e \in T
        BY <2>6, <2>7
      <4> HIDE DEF p, e
      <4>2. {Append(p, e)[i] : i \in 1 .. Len(Append(p, e))}
              = {p[i] : i \in 1 .. Len(p)} \union {e}
        BY <4>1, AppendProperties
      <4> QED
        BY <3>1, <4>2 DEF p, e
    <3> QED
      BY <2>1, <2>6, <2>8, <2>9, <3>2, <3>3
  <2>10. CASE s[n] \notin S
    <3>1. g[n] = g[n - 1]
      BY <2>2, <2>3, <2>5, <2>10
    <3>2. {s[i] : i \in 1 .. n} \intersect S = {s[i] : i \in 1 .. (n - 1)} \intersect S
      BY <2>8, <2>10
    <3>3. Len(g[n]) <= n
      BY <2>2, <2>6, <3>1
    <3> QED
      BY <2>1, <2>6, <3>1, <3>2, <3>3
  <2> QED
    BY <2>9, <2>10
<1>4. Good(Len(s))
  <2>1. Len(s) \in 0 .. Len(s)
    BY LenProperties
  <2> HIDE DEF Good
  <2> QED
    BY <1>3, <2>1
<1> HIDE DEF g
<1>5. DOMAIN s = 1 .. Len(s) /\ DOMAIN g[Len(s)] = 1 .. Len(g[Len(s)])
  BY <1>4, LenProperties
<1> QED
  BY <1>2, <1>4, <1>5 DEF Elements

-----------------------------------------------------------------------------
(***************************************************************************)
(* FlatPending                                                             *)
(***************************************************************************)

\* g satisfies the recursive definition inside FlatPending, up to index L.
Flattened(gs, L, g) ==
  g = [n \in 0 .. L |-> IF n = 0 THEN << >> ELSE g[n - 1] \o gs[n].pending]

LEMMA FlattenedExists ==
  ASSUME NEW gs \in Seq(Group)
  PROVE  \A L \in 0 .. Len(gs) : \E g : Flattened(gs, L, g)
<1> DEFINE Bad == {L \in 0 .. Len(gs) : ~ \E g : Flattened(gs, L, g)}
<1> SUFFICES ASSUME Bad # {} PROVE FALSE
  OBVIOUS
<1>1. PICK L \in Bad : \A m \in Bad : L <= m
  <2>1. Bad \in SUBSET Nat
    BY LenProperties
  <2> QED
    BY <2>1, NatMinimum
<1>2. L # 0
  <2> DEFINE g == [n \in 0 .. 0 |-> << >>]
  <2>1. Flattened(gs, 0, g)
    BY DEF Flattened
  <2> QED
    BY <1>1, <2>1
<1>3. L \in Nat /\ L - 1 \in 0 .. Len(gs) /\ L - 1 \notin Bad
  BY <1>1, <1>2, LenProperties
<1>4. PICK g : Flattened(gs, L - 1, g)
  BY <1>3
<1> DEFINE last == g[L - 1] \o gs[L].pending
           h    == [n \in 0 .. L |-> IF n < L THEN g[n] ELSE last]
<1>5. ASSUME NEW n \in 0 .. L
      PROVE  h[n] = IF n = 0 THEN << >> ELSE h[n - 1] \o gs[n].pending
  <2>1. CASE n = L
    <3>1. h[n] = last /\ h[n - 1] = g[n - 1] /\ n # 0
      BY <1>2, <1>3, <2>1
    <3> QED
      BY <2>1, <3>1
  <2>2. CASE n # L
    <3>1. n \in 0 .. (L - 1) /\ h[n] = g[n]
      BY <1>3, <2>2
    <3>2. g[n] = IF n = 0 THEN << >> ELSE g[n - 1] \o gs[n].pending
      BY <1>4, <3>1, Zenon DEF Flattened
    <3>3. n # 0 => h[n - 1] = g[n - 1]
      BY <1>3, <3>1
    <3> QED
      BY <3>1, <3>2, <3>3
  <2> QED
    BY <2>1, <2>2
<1>6. Flattened(gs, L, h)
  <2> HIDE DEF last
  <2>1. h = [n \in 0 .. L |-> h[n]]
    OBVIOUS
  <2> QED
    BY <1>5, <2>1, Zenon DEF Flattened
<1> QED
  BY <1>1, <1>6

\* The elements of a concatenation
LEMMA ConcatElements ==
  ASSUME NEW T, NEW p \in Seq(T), NEW q \in Seq(T)
  PROVE  Elements(p \o q) = Elements(p) \union Elements(q)
<1>2. /\ DOMAIN p = 1 .. Len(p) /\ DOMAIN q = 1 .. Len(q)
      /\ DOMAIN (p \o q) = 1 .. (Len(p) + Len(q))
      /\ Len(p) \in Nat /\ Len(q) \in Nat
  OBVIOUS
<1>3. \A i \in 1 .. Len(p) : (p \o q)[i] = p[i]
  BY <1>2
<1>4. \A i \in 1 .. Len(q) : (p \o q)[Len(p) + i] = q[i]
  BY <1>2
<1>5. Elements(p) \union Elements(q) \subseteq Elements(p \o q)
  <2>1. ASSUME NEW i \in 1 .. Len(p) PROVE p[i] \in Elements(p \o q)
    <3>1. i \in DOMAIN (p \o q)
      BY <1>2
    <3> QED
      BY <1>3, <3>1 DEF Elements
  <2>2. ASSUME NEW i \in 1 .. Len(q) PROVE q[i] \in Elements(p \o q)
    <3>1. Len(p) + i \in DOMAIN (p \o q)
      BY <1>2
    <3> QED
      BY <1>4, <3>1 DEF Elements
  <2> QED
    BY <1>2, <2>1, <2>2 DEF Elements
<1>6. ASSUME NEW i \in 1 .. (Len(p) + Len(q))
      PROVE  (p \o q)[i] \in Elements(p) \union Elements(q)
  <2>1. CASE i <= Len(p)
    BY <1>2, <1>3, <2>1 DEF Elements
  <2>2. CASE i > Len(p)
    <3>1. i - Len(p) \in 1 .. Len(q) /\ Len(p) + (i - Len(p)) = i
      BY <1>2, <2>2
    <3> QED
      BY <1>2, <1>4, <3>1 DEF Elements
  <2> QED
    BY <1>2, <2>1, <2>2
<1>7. Elements(p \o q) \subseteq Elements(p) \union Elements(q)
  BY <1>2, <1>6 DEF Elements
<1> QED
  BY <1>5, <1>7

\* FlatPending(gs) is a sequence made of exactly the waiting members of gs.
LEMMA FlatPendingProperties ==
  ASSUME NEW gs \in Seq(Group)
  PROVE  /\ FlatPending(gs) \in Seq(Delegations)
         /\ Elements(FlatPending(gs)) = UNION {Elements(gs[i].pending) : i \in DOMAIN gs}
<1> DEFINE g == CHOOSE g : Flattened(gs, Len(gs), g)
<1>1. Flattened(gs, Len(gs), g)
  <2>1. Len(gs) \in 0 .. Len(gs)
    BY LenProperties
  <2> QED
    BY <2>1, FlattenedExists
<1>2. FlatPending(gs) = g[Len(gs)]
  BY Zenon DEF FlatPending, Flattened
<1> DEFINE Good(n) == /\ g[n] \in Seq(Delegations)
                      /\ Elements(g[n]) = UNION {Elements(gs[i].pending) : i \in 1 .. n}
           Bad == {n \in 0 .. Len(gs) : ~Good(n)}
<1>3. ASSUME Bad # {} PROVE FALSE
  <2>1. PICK n \in Bad : \A m \in Bad : n <= m
    <3>1. Bad \in SUBSET Nat
      BY LenProperties
    <3> HIDE DEF Bad
    <3> QED
      BY <1>3, <3>1, NatMinimum
  <2> HIDE DEF g
  <2>2. Len(gs) \in Nat /\ n \in 0 .. Len(gs)
    BY <2>1, LenProperties
  <2>3. \A m \in 0 .. Len(gs) :
           g[m] = IF m = 0 THEN << >> ELSE g[m - 1] \o gs[m].pending
    BY <1>1, Zenon DEF Flattened
  <2>4. Good(0)
    <3>1. g[0] = << >>
      BY <2>2, <2>3
    <3> QED
      BY <3>1 DEF Elements
  <2>5. n # 0
    BY <2>1, <2>4
  <2>6. Good(n - 1)
    <3>1. n - 1 \in 0 .. Len(gs) /\ ~ (n <= n - 1)
      BY <2>2, <2>5
    <3> HIDE DEF Good
    <3> QED
      BY <2>1, <3>1
  <2>7. gs[n].pending \in Seq(Delegations)
    <3>1. gs[n] \in Group
      BY <2>2, <2>5, ElementOfSeq
    <3> QED
      BY <3>1 DEF Group
  <2>8. g[n] = g[n - 1] \o gs[n].pending
    BY <2>2, <2>3, <2>5
  <2>9. UNION {Elements(gs[i].pending) : i \in 1 .. n}
          = (UNION {Elements(gs[i].pending) : i \in 1 .. (n - 1)}) \union Elements(gs[n].pending)
    <3>1. 1 .. n = (1 .. (n - 1)) \union {n}
      BY <2>2, <2>5
    <3> HIDE DEF Good
    <3> QED
      BY <3>1, Zenon
  <2>10. Elements(g[n]) = Elements(g[n - 1]) \union Elements(gs[n].pending)
    <3> DEFINE p == g[n - 1]  q == gs[n].pending
    <3>1. p \in Seq(Delegations) /\ q \in Seq(Delegations)
      BY <2>6, <2>7
    <3> HIDE DEF p, q
    <3>2. Elements(p \o q) = Elements(p) \union Elements(q)
      BY <3>1, ConcatElements
    <3> QED
      BY <2>8, <3>2 DEF p, q
  <2>11. g[n] \in Seq(Delegations)
    BY <2>6, <2>7, <2>8
  <2> QED
    BY <2>1, <2>6, <2>9, <2>10, <2>11
<1>4. Good(Len(gs))
  <2>1. Len(gs) \in 0 .. Len(gs)
    BY LenProperties
  <2> HIDE DEF Good
  <2> QED
    BY <1>3, <2>1
<1> HIDE DEF g
<1>5. DOMAIN gs = 1 .. Len(gs)
  BY LenProperties
<1> QED
  BY <1>2, <1>4, <1>5

-----------------------------------------------------------------------------
\* A sequence has at most as many elements as places.
LEMMA ElementsCardinality ==
  ASSUME NEW T, NEW s \in Seq(T)
  PROVE  /\ Elements(s) \subseteq T
         /\ IsFiniteSet(Elements(s))
         /\ Cardinality(Elements(s)) <= Len(s)
<1>1. Len(s) \in Nat /\ s \in [1 .. Len(s) -> T] /\ DOMAIN s = 1 .. Len(s)
  BY LenProperties
<1>2. Elements(s) \subseteq T
  BY <1>1 DEF Elements
<1>3. s \in Surjection(1 .. Len(s), Elements(s))
  BY <1>1 DEF Elements, Surjection
<1>4. IsFiniteSet(1 .. Len(s)) /\ Cardinality(1 .. Len(s)) = Len(s)
  BY <1>1, FS_Interval
<1> QED
  BY <1>2, <1>3, <1>4, FS_Surjection

-----------------------------------------------------------------------------
(***************************************************************************)
(* The elements of a sequence.                                             *)
(***************************************************************************)

LEMMA ElementsOf ==
  ASSUME NEW T, NEW s \in Seq(T)
  PROVE  /\ Elements(s) \subseteq T
         /\ \A i \in 1 .. Len(s) : s[i] \in Elements(s)
         /\ \A x \in Elements(s) : \E i \in 1 .. Len(s) : x = s[i]
         /\ s = << >> <=> Elements(s) = {}
BY LenProperties DEF Elements

LEMMA ElementsAppend ==
  ASSUME NEW T, NEW s \in Seq(T), NEW e \in T
  PROVE  /\ Append(s, e) \in Seq(T)
         /\ Elements(Append(s, e)) = Elements(s) \union {e}
<1>1. /\ Append(s, e) \in Seq(T) /\ Len(Append(s, e)) = Len(s) + 1 /\ Len(s) \in Nat
      /\ \A i \in 1 .. Len(s) : Append(s, e)[i] = s[i]
      /\ Append(s, e)[Len(s) + 1] = e
      /\ DOMAIN s = 1 .. Len(s) /\ DOMAIN Append(s, e) = 1 .. (Len(s) + 1)
  OBVIOUS
<1>2. 1 .. (Len(s) + 1) = (1 .. Len(s)) \union {Len(s) + 1}
  BY <1>1
<1> QED
  BY <1>1, <1>2 DEF Elements

-----------------------------------------------------------------------------
(***************************************************************************)
(* Induction, over indices and over sequences, for a set of good ones.     *)
(***************************************************************************)

LEMMA IndexInduction ==
  ASSUME NEW L \in Nat, NEW Good, 0 \in Good, \A n \in 1 .. L : n - 1 \in Good => n \in Good
  PROVE  0 .. L \subseteq Good
<1> DEFINE Bad == {n \in 0 .. L : n \notin Good}
<1> SUFFICES ASSUME Bad # {} PROVE FALSE
  OBVIOUS
<1>1. PICK n \in Bad : \A m \in Bad : n <= m
  <2>1. Bad \in SUBSET Nat
    OBVIOUS
  <2> HIDE DEF Bad
  <2> QED
    BY <2>1, NatMinimum
<1>2. n \in 1 .. L /\ n - 1 \in 0 .. L /\ n - 1 \notin Bad
  BY <1>1
<1> QED
  BY <1>1, <1>2

LEMMA SequenceInduction ==
  ASSUME NEW T, NEW Good, << >> \in Good,
         \A s \in Seq(T), e \in T : s \in Good => Append(s, e) \in Good
  PROVE  Seq(T) \subseteq Good
<1> SUFFICES ASSUME NEW s \in Seq(T) PROVE s \in Good
  OBVIOUS
<1>1. Len(s) \in Nat /\ DOMAIN s = 1 .. Len(s) /\ \A i \in 1 .. Len(s) : s[i] \in T
  BY LenProperties, ElementOfSeq
<1> DEFINE Prefix(n) == [i \in 1 .. n |-> s[i]]
           GoodTo == {n \in 0 .. Len(s) : Prefix(n) \in Good}
<1>2. ASSUME NEW n \in 0 .. Len(s)
      PROVE  Prefix(n) \in Seq(T) /\ Len(Prefix(n)) = n
  BY <1>1
<1>3. 0 \in GoodTo
  <2>1. Prefix(0) = << >>
    BY <1>1, <1>2, EmptySeq
  <2> QED
    BY <1>1, <2>1
<1>4. ASSUME NEW n \in 1 .. Len(s), n - 1 \in GoodTo PROVE n \in GoodTo
  <2> DEFINE p == Prefix(n - 1)  q == Prefix(n)  a == Append(p, s[n])
  <2>1. /\ n - 1 \in 0 .. Len(s) /\ n \in 0 .. Len(s) /\ n \in Nat /\ s[n] \in T
    BY <1>1
  <2>2. /\ p \in Seq(T) /\ Len(p) = n - 1 /\ q \in Seq(T) /\ Len(q) = n
        /\ \A i \in 1 .. n - 1 : p[i] = s[i]
        /\ \A i \in 1 .. n : q[i] = s[i]
    BY <1>2, <2>1
  <2>3. p \in Good
    BY <1>4
  <2> HIDE DEF p, q
  <2>4. /\ a \in Seq(T) /\ Len(a) = n
        /\ \A i \in 1 .. n - 1 : a[i] = p[i]
        /\ a[n] = s[n]
    BY <2>1, <2>2, AppendProperties
  <2>5. \A i \in 1 .. n : i \in 1 .. n - 1 \/ i = n
    BY <2>1
  <2> HIDE DEF a
  <2>6. a = q
    BY <2>2, <2>4, <2>5, SeqEqual
  <2>7. a \in Good
    BY <2>1, <2>2, <2>3 DEF a
  <2> QED
    BY <2>1, <2>6, <2>7 DEF q
<1>5. 0 .. Len(s) \subseteq GoodTo
  <2> HIDE DEF GoodTo
  <2> QED
    BY <1>1, <1>3, <1>4, IndexInduction
<1>6. Prefix(Len(s)) = s
  BY <1>1
<1> QED
  BY <1>1, <1>5, <1>6

-----------------------------------------------------------------------------
(***************************************************************************)
(* The equations of the two recursions.                                    *)
(***************************************************************************)

\* The values of the recursion inside Filter
LEMMA FilterSteps ==
  ASSUME NEW T, NEW s \in Seq(T), NEW S
  PROVE  \E g : /\ g[0] = << >>
                /\ \A n \in 1 .. Len(s) :
                     g[n] = IF s[n] \in S THEN Append(g[n - 1], s[n]) ELSE g[n - 1]
                /\ Filter(s, S) = g[Len(s)]
<1> DEFINE g == CHOOSE g : Kept(s, S, Len(s), g)
<1>1. Len(s) \in 0 .. Len(s) /\ Len(s) \in Nat
  BY LenProperties
<1>2. Kept(s, S, Len(s), g)
  BY <1>1, KeptExists
<1>3. Filter(s, S) = g[Len(s)]
  BY Zenon DEF Filter, Kept
<1> HIDE DEF g
<1>4. \A n \in 0 .. Len(s) : g[n] =
         IF n = 0 THEN << >>
         ELSE IF s[n] \in S THEN Append(g[n - 1], s[n]) ELSE g[n - 1]
  BY <1>2, Zenon DEF Kept
<1>5. g[0] = << >> /\ \A n \in 1 .. Len(s) :
         g[n] = IF s[n] \in S THEN Append(g[n - 1], s[n]) ELSE g[n - 1]
  BY <1>1, <1>4
<1> QED
  BY <1>3, <1>5

LEMMA FilterNone == \A S : Filter(<< >>, S) = << >>
<1> SUFFICES ASSUME NEW S PROVE Filter(<< >>, S) = << >>
  OBVIOUS
<1> DEFINE s == << >>
<1>1. s \in Seq({}) /\ Len(s) = 0
  OBVIOUS
<1> HIDE DEF s
<1>2. PICK g : /\ g[0] = << >>
               /\ \A n \in 1 .. Len(s) :
                    g[n] = IF s[n] \in S THEN Append(g[n - 1], s[n]) ELSE g[n - 1]
               /\ Filter(s, S) = g[Len(s)]
  BY <1>1, FilterSteps
<1> QED
  BY <1>1, <1>2 DEF s

LEMMA FilterAppend ==
  ASSUME NEW T, NEW s \in Seq(T), NEW e \in T, NEW S
  PROVE  Filter(Append(s, e), S) = IF e \in S THEN Append(Filter(s, S), e) ELSE Filter(s, S)
<1> DEFINE t == Append(s, e)  L == Len(s)
<1>1. /\ t \in Seq(T) /\ Len(t) = L + 1 /\ L \in Nat /\ t[L + 1] = e
      /\ \A n \in 1 .. L : t[n] = s[n]
  BY AppendProperties, LenProperties
<1> HIDE DEF t
<1>2. PICK g : /\ g[0] = << >>
               /\ \A n \in 1 .. Len(s) :
                    g[n] = IF s[n] \in S THEN Append(g[n - 1], s[n]) ELSE g[n - 1]
               /\ Filter(s, S) = g[Len(s)]
  BY FilterSteps
<1>3. PICK h : /\ h[0] = << >>
               /\ \A n \in 1 .. Len(t) :
                    h[n] = IF t[n] \in S THEN Append(h[n - 1], t[n]) ELSE h[n - 1]
               /\ Filter(t, S) = h[Len(t)]
  BY <1>1, FilterSteps
<1> HIDE DEF L
<1> DEFINE Same == {n \in 0 .. L : g[n] = h[n]}
<1>4. 0 .. L \subseteq Same
  <2>1. 0 \in Same
    BY <1>1, <1>2, <1>3
  <2>2. ASSUME NEW n \in 1 .. L, n - 1 \in Same PROVE n \in Same
    BY <1>1, <1>2, <1>3, <2>2 DEF L
  <2> HIDE DEF Same
  <2> QED
    BY <1>1, <2>1, <2>2, IndexInduction
<1>5. g[L] = h[L] /\ L + 1 \in 1 .. Len(t) /\ (L + 1) - 1 = L
  BY <1>1, <1>4
<1>6. h[L + 1] = IF e \in S THEN Append(h[L], e) ELSE h[L]
  BY <1>1, <1>3, <1>5
<1> QED
  BY <1>1, <1>2, <1>3, <1>5, <1>6 DEF t, L

\* The values of the recursion inside FlatPending
LEMMA FlatSteps ==
  ASSUME NEW gs \in Seq(Group)
  PROVE  \E f : /\ f[0] = << >>
                /\ \A n \in 1 .. Len(gs) : f[n] = f[n - 1] \o gs[n].pending
                /\ FlatPending(gs) = f[Len(gs)]
                /\ \A n \in 0 .. Len(gs) : f[n] \in Seq(Delegations)
<1> DEFINE f == CHOOSE f : Flattened(gs, Len(gs), f)
<1>1. Len(gs) \in 0 .. Len(gs) /\ Len(gs) \in Nat
  BY LenProperties
<1>2. Flattened(gs, Len(gs), f)
  BY <1>1, FlattenedExists
<1>3. FlatPending(gs) = f[Len(gs)]
  BY Zenon DEF FlatPending, Flattened
<1> HIDE DEF f
<1>4. \A n \in 0 .. Len(gs) : f[n] = IF n = 0 THEN << >> ELSE f[n - 1] \o gs[n].pending
  BY <1>2, Zenon DEF Flattened
<1>5. f[0] = << >> /\ \A n \in 1 .. Len(gs) : f[n] = f[n - 1] \o gs[n].pending
  <2>1. 0 \in 0 .. Len(gs) /\ \A n \in 1 .. Len(gs) : n \in 0 .. Len(gs) /\ n # 0
    BY <1>1
  <2> QED
    BY <1>4, <2>1, Zenon
<1>6. ASSUME NEW n \in 1 .. Len(gs) PROVE gs[n].pending \in Seq(Delegations)
  <2>1. gs[n] \in Group
    BY ElementOfSeq
  <2> QED
    BY <2>1 DEF Group
<1> DEFINE Good == {n \in 0 .. Len(gs) : f[n] \in Seq(Delegations)}
<1>7. 0 .. Len(gs) \subseteq Good
  <2>1. 0 \in Good
    <3>1. f[0] \in Seq(Delegations)
      BY <1>5
    <3> QED
      BY <1>1, <3>1
  <2>2. ASSUME NEW n \in 1 .. Len(gs), n - 1 \in Good PROVE n \in Good
    <3>1. n \in 0 .. Len(gs)
      BY <1>1
    <3> QED
      BY <1>5, <1>6, <2>2, <3>1, ConcatProperties
  <2> HIDE DEF Good
  <2> QED
    BY <1>1, <2>1, <2>2, IndexInduction
<1> QED
  BY <1>3, <1>5, <1>7

LEMMA FlatNone == FlatPending(<< >>) = << >>
<1>1. << >> \in Seq(Group) /\ Len(<< >>) = 0
  OBVIOUS
<1>2. PICK f : f[0] = << >> /\ FlatPending(<< >>) = f[0]
  BY <1>1, FlatSteps
<1> QED
  BY <1>2

LEMMA FlatAppend ==
  ASSUME NEW gs \in Seq(Group), NEW g \in Group
  PROVE  FlatPending(Append(gs, g)) = FlatPending(gs) \o g.pending
<1> DEFINE hs == Append(gs, g)  L == Len(gs)
<1>1. /\ hs \in Seq(Group) /\ Len(hs) = L + 1 /\ L \in Nat /\ hs[L + 1] = g
      /\ \A n \in 1 .. L : hs[n] = gs[n]
  BY AppendProperties, LenProperties
<1> HIDE DEF hs
<1>2. PICK f : /\ f[0] = << >>
               /\ \A n \in 1 .. Len(gs) : f[n] = f[n - 1] \o gs[n].pending
               /\ FlatPending(gs) = f[Len(gs)]
  BY FlatSteps
<1>3. PICK h : /\ h[0] = << >>
               /\ \A n \in 1 .. Len(hs) : h[n] = h[n - 1] \o hs[n].pending
               /\ FlatPending(hs) = h[Len(hs)]
  BY <1>1, FlatSteps
<1> HIDE DEF L
<1> DEFINE Same == {n \in 0 .. L : f[n] = h[n]}
<1>4. 0 .. L \subseteq Same
  <2>1. 0 \in Same
    BY <1>1, <1>2, <1>3
  <2>2. ASSUME NEW n \in 1 .. L, n - 1 \in Same PROVE n \in Same
    <3>1. n \in 1 .. Len(gs) /\ n \in 1 .. Len(hs) /\ n \in 0 .. L /\ hs[n] = gs[n]
      BY <1>1 DEF L
    <3>2. f[n - 1] = h[n - 1]
      BY <2>2
    <3> QED
      BY <1>2, <1>3, <3>1, <3>2
  <2> HIDE DEF Same
  <2> QED
    BY <1>1, <2>1, <2>2, IndexInduction
<1>5. f[L] = h[L] /\ L + 1 \in 1 .. Len(hs) /\ (L + 1) - 1 = L
  BY <1>1, <1>4
<1>6. h[L + 1] = h[L] \o g.pending
  BY <1>1, <1>3, <1>5
<1> QED
  BY <1>1, <1>2, <1>3, <1>5, <1>6 DEF hs, L

-----------------------------------------------------------------------------
(***************************************************************************)
(* What Filter and FlatPending keep.                                       *)
(***************************************************************************)

LEMMA FilterType == ASSUME NEW T, NEW s \in Seq(T), NEW S PROVE Filter(s, S) \in Seq(T)
BY FilterProperties

LEMMA AppendOnConcat ==
  ASSUME NEW T, NEW p \in Seq(T), NEW q \in Seq(T), NEW e \in T
  PROVE  p \o Append(q, e) = Append(p \o q, e)
<1>1. <<e>> \in Seq(T) /\ p \o q \in Seq(T)
  BY ConcatProperties
<1>2. Append(q, e) = q \o <<e>> /\ Append(p \o q, e) = (p \o q) \o <<e>>
  BY <1>1, AppendIsConcat
<1>3. (p \o q) \o <<e>> = p \o (q \o <<e>>)
  BY <1>1, ConcatAssociative
<1> QED
  BY <1>2, <1>3

LEMMA FilterConcat ==
  ASSUME NEW T, NEW p \in Seq(T), NEW q \in Seq(T), NEW S
  PROVE  Filter(p \o q, S) = Filter(p, S) \o Filter(q, S)
<1> DEFINE Good == {t \in Seq(T) : Filter(p \o t, S) = Filter(p, S) \o Filter(t, S)}
<1>1. << >> \in Good
  <2>1. << >> \in Seq(T) /\ p \o << >> = p /\ Filter(p, S) \o << >> = Filter(p, S)
    BY ConcatEmptySeq, FilterType
  <2> QED
    BY <2>1, FilterNone, Zenon
<1>2. ASSUME NEW t \in Seq(T), NEW e \in T, t \in Good PROVE Append(t, e) \in Good
  <2>1. p \o t \in Seq(T) /\ Append(t, e) \in Seq(T)
    BY ConcatProperties, AppendProperties
  <2>2. p \o Append(t, e) = Append(p \o t, e)
    BY AppendOnConcat
  <2>3. Filter(p \o t, S) = Filter(p, S) \o Filter(t, S)
    BY <1>2
  <2>4. Filter(p, S) \o Append(Filter(t, S), e) = Append(Filter(p, S) \o Filter(t, S), e)
    BY FilterType, AppendOnConcat
  <2>5. Filter(p \o Append(t, e), S) = Filter(p, S) \o Filter(Append(t, e), S)
    <3>1. /\ Filter(Append(p \o t, e), S)
               = IF e \in S THEN Append(Filter(p \o t, S), e) ELSE Filter(p \o t, S)
          /\ Filter(Append(t, e), S) = IF e \in S THEN Append(Filter(t, S), e) ELSE Filter(t, S)
      BY <2>1, FilterAppend
    <3>2. CASE e \in S
      BY <2>2, <2>3, <2>4, <3>1, <3>2, Zenon
    <3>3. CASE e \notin S
      BY <2>2, <2>3, <3>1, <3>3, Zenon
    <3> QED
      BY <3>2, <3>3
  <2> QED
    BY <2>1, <2>5
<1>3. Seq(T) \subseteq Good
  <2> HIDE DEF Good
  <2> QED
    BY <1>1, <1>2, SequenceInduction
<1> QED
  BY <1>3

LEMMA FilterAll ==
  ASSUME NEW T, NEW S, NEW s \in Seq(T), Elements(s) \subseteq S
  PROVE  Filter(s, S) = s
<1> DEFINE Good == {t \in Seq(T) : Elements(t) \subseteq S => Filter(t, S) = t}
<1>1. << >> \in Good
  BY FilterNone
<1>2. ASSUME NEW t \in Seq(T), NEW e \in T, t \in Good PROVE Append(t, e) \in Good
  BY <1>2, ElementsAppend, FilterAppend
<1>3. Seq(T) \subseteq Good
  <2> HIDE DEF Good
  <2> QED
    BY <1>1, <1>2, SequenceInduction
<1> QED
  BY <1>3

LEMMA FilterNothing ==
  ASSUME NEW T, NEW S, NEW s \in Seq(T), Elements(s) \intersect S = {}
  PROVE  Filter(s, S) = << >>
<1> DEFINE Good == {t \in Seq(T) : Elements(t) \intersect S = {} => Filter(t, S) = << >>}
<1>1. << >> \in Good
  BY FilterNone
<1>2. ASSUME NEW t \in Seq(T), NEW e \in T, t \in Good PROVE Append(t, e) \in Good
  BY <1>2, ElementsAppend, FilterAppend
<1>3. Seq(T) \subseteq Good
  <2> HIDE DEF Good
  <2> QED
    BY <1>1, <1>2, SequenceInduction
<1> QED
  BY <1>3

\* No element stands in two places.
Distinct(s) == \A i, j \in DOMAIN s : s[i] = s[j] => i = j

\* x stands before y.
Before(s, x, y) == \E i, j \in DOMAIN s : i < j /\ s[i] = x /\ s[j] = y

LEMMA DistinctAppend ==
  ASSUME NEW T, NEW s \in Seq(T), NEW e \in T
  PROVE  Distinct(Append(s, e)) <=> Distinct(s) /\ e \notin Elements(s)
<1> DEFINE t == Append(s, e)  L == Len(s)
<1>1. /\ t \in Seq(T) /\ Len(t) = L + 1 /\ L \in Nat /\ t[L + 1] = e
      /\ \A n \in 1 .. L : t[n] = s[n]
      /\ DOMAIN t = 1 .. L + 1 /\ DOMAIN s = 1 .. L
  BY AppendProperties, LenProperties
<1> HIDE DEF t, L
<1>2. \A i \in 1 .. L + 1 : i \in 1 .. L \/ i = L + 1
  BY <1>1
<1>3. \A i \in 1 .. L : i \in 1 .. L + 1 /\ i # L + 1
  BY <1>1
<1>4. L + 1 \in 1 .. L + 1
  BY <1>1
<1>5. ASSUME Distinct(t) PROVE Distinct(s) /\ e \notin Elements(s)
  BY <1>1, <1>3, <1>4, <1>5, Zenon DEF Distinct, Elements
<1>6. ASSUME Distinct(s), e \notin Elements(s) PROVE Distinct(t)
  <2> SUFFICES ASSUME NEW i \in 1 .. L + 1, NEW j \in 1 .. L + 1, t[i] = t[j] PROVE i = j
    BY <1>1, Zenon DEF Distinct
  <2>1. CASE i \in 1 .. L /\ j \in 1 .. L
    BY <1>1, <1>6, <2>1 DEF Distinct
  <2>2. CASE i = L + 1 /\ j \in 1 .. L
    BY <1>1, <1>6, <2>2 DEF Elements
  <2>3. CASE i \in 1 .. L /\ j = L + 1
    BY <1>1, <1>6, <2>3 DEF Elements
  <2> QED
    BY <1>2, <2>1, <2>2, <2>3
<1> QED
  BY <1>5, <1>6 DEF t

LEMMA BeforeAppend ==
  ASSUME NEW T, NEW s \in Seq(T), NEW e \in T, NEW x, NEW y
  PROVE  Before(Append(s, e), x, y) <=> Before(s, x, y) \/ (x \in Elements(s) /\ y = e)
<1> DEFINE t == Append(s, e)  L == Len(s)
<1>1. /\ t \in Seq(T) /\ Len(t) = L + 1 /\ L \in Nat /\ t[L + 1] = e
      /\ \A n \in 1 .. L : t[n] = s[n]
      /\ DOMAIN t = 1 .. L + 1 /\ DOMAIN s = 1 .. L
  BY AppendProperties, LenProperties
<1> HIDE DEF t, L
<1>2. /\ L + 1 \in 1 .. L + 1
      /\ \A i \in 1 .. L : i \in 1 .. L + 1 /\ i < L + 1
      /\ \A i, j \in 1 .. L + 1 : i < j => i \in 1 .. L /\ (j \in 1 .. L \/ j = L + 1)
  BY <1>1
<1>3. ASSUME Before(t, x, y) PROVE Before(s, x, y) \/ (x \in Elements(s) /\ y = e)
  <2>1. PICK i \in 1 .. L + 1, j \in 1 .. L + 1 : i < j /\ t[i] = x /\ t[j] = y
    BY <1>1, <1>3 DEF Before
  <2>2. i \in 1 .. L /\ s[i] = x
    BY <1>1, <1>2, <2>1
  <2>3. CASE j \in 1 .. L
    <3>1. s[j] = y
      BY <1>1, <2>1, <2>3
    <3> QED
      BY <1>1, <2>1, <2>2, <2>3, <3>1 DEF Before
  <2>4. CASE j = L + 1
    BY <1>1, <2>1, <2>2, <2>4 DEF Elements
  <2> QED
    BY <1>2, <2>1, <2>3, <2>4
<1>4. ASSUME Before(s, x, y) PROVE Before(t, x, y)
  <2>1. PICK i \in 1 .. L, j \in 1 .. L : i < j /\ s[i] = x /\ s[j] = y
    BY <1>1, <1>4 DEF Before
  <2>2. i \in DOMAIN t /\ j \in DOMAIN t /\ t[i] = x /\ t[j] = y
    BY <1>1, <1>2, <2>1
  <2> QED
    BY <2>1, <2>2 DEF Before
<1>5. ASSUME x \in Elements(s), y = e PROVE Before(t, x, y)
  <2>1. PICK i \in 1 .. L : s[i] = x
    BY <1>1, <1>5 DEF Elements
  <2>2. i \in DOMAIN t /\ L + 1 \in DOMAIN t /\ t[i] = x /\ t[L + 1] = y /\ i < L + 1
    BY <1>1, <1>2, <1>5, <2>1
  <2> QED
    BY <2>2 DEF Before
<1> QED
  BY <1>3, <1>4, <1>5 DEF t

LEMMA BeforeNone == \A x, y : ~ Before(<< >>, x, y)
BY DEF Before

\* Filter keeps and reflects the order.
LEMMA FilterOrder ==
  ASSUME NEW T, NEW s \in Seq(T), NEW S, NEW x, NEW y
  PROVE  Before(Filter(s, S), x, y) <=> Before(s, x, y) /\ x \in S /\ y \in S
<1> DEFINE Good == {t \in Seq(T) : Before(Filter(t, S), x, y) <=> Before(t, x, y) /\ x \in S /\ y \in S}
<1>1. << >> \in Good
  BY FilterNone, BeforeNone
<1>2. ASSUME NEW t \in Seq(T), NEW e \in T, t \in Good PROVE Append(t, e) \in Good
  <2> DEFINE f == Filter(t, S)
  <2>1. f \in Seq(T) /\ Elements(f) = Elements(t) \intersect S
    BY FilterProperties
  <2>2. Before(f, x, y) <=> Before(t, x, y) /\ x \in S /\ y \in S
    BY <1>2
  <2> HIDE DEF f
  <2>3. Before(Append(t, e), x, y) <=> Before(t, x, y) \/ (x \in Elements(t) /\ y = e)
    BY BeforeAppend
  <2>4. Before(Append(f, e), x, y) <=> Before(f, x, y) \/ (x \in Elements(f) /\ y = e)
    BY <2>1, BeforeAppend
  <2>5. Filter(Append(t, e), S) = IF e \in S THEN Append(f, e) ELSE f
    BY FilterAppend DEF f
  <2>6. Before(Filter(Append(t, e), S), x, y) <=> Before(Append(t, e), x, y) /\ x \in S /\ y \in S
    <3>1. CASE e \in S
      BY <2>1, <2>2, <2>3, <2>4, <2>5, <3>1
    <3>2. CASE e \notin S
      BY <2>2, <2>3, <2>5, <3>2
    <3> QED
      BY <3>1, <3>2
  <2> QED
    BY <2>6, AppendProperties
<1>3. Seq(T) \subseteq Good
  <2> HIDE DEF Good
  <2> QED
    BY <1>1, <1>2, SequenceInduction
<1> QED
  BY <1>3

LEMMA FilterDistinct ==
  ASSUME NEW T, NEW S, NEW s \in Seq(T), Distinct(s)
  PROVE  Distinct(Filter(s, S))
<1> DEFINE Good == {t \in Seq(T) : Distinct(t) => Distinct(Filter(t, S))}
<1>1. << >> \in Good
  BY FilterNone
<1>2. ASSUME NEW t \in Seq(T), NEW e \in T, t \in Good PROVE Append(t, e) \in Good
  <2> DEFINE f == Filter(t, S)
  <2>1. f \in Seq(T) /\ Elements(f) = Elements(t) \intersect S
    BY FilterProperties
  <2>2. Distinct(t) => Distinct(f)
    BY <1>2
  <2> HIDE DEF f
  <2>3. Distinct(Append(t, e)) <=> Distinct(t) /\ e \notin Elements(t)
    BY DistinctAppend
  <2>4. Distinct(Append(f, e)) <=> Distinct(f) /\ e \notin Elements(f)
    BY <2>1, DistinctAppend
  <2>5. Filter(Append(t, e), S) = IF e \in S THEN Append(f, e) ELSE f
    BY FilterAppend DEF f
  <2>6. Distinct(Append(t, e)) => Distinct(Filter(Append(t, e), S))
    BY <2>1, <2>2, <2>3, <2>4, <2>5
  <2> QED
    BY <2>6, AppendProperties
<1>3. Seq(T) \subseteq Good
  <2> HIDE DEF Good
  <2> QED
    BY <1>1, <1>2, SequenceInduction
<1> QED
  BY <1>3

\* A concatenation of distinct elements
LEMMA DistinctConcat ==
  ASSUME NEW T, NEW p \in Seq(T), NEW q \in Seq(T)
  PROVE  Distinct(p \o q) <=> /\ Distinct(p) /\ Distinct(q)
                              /\ Elements(p) \intersect Elements(q) = {}
<1> DEFINE Good == {t \in Seq(T) : Distinct(p \o t) <=>
                      Distinct(p) /\ Distinct(t) /\ Elements(p) \intersect Elements(t) = {}}
<1>1. << >> \in Good
  <2>1. p \o << >> = p /\ Elements(<< >>) = {} /\ Distinct(<< >>) /\ << >> \in Seq(T)
    BY ConcatEmptySeq DEF Distinct, Elements
  <2> QED
    BY <2>1
<1>2. ASSUME NEW t \in Seq(T), NEW e \in T, t \in Good PROVE Append(t, e) \in Good
  <2>1. /\ p \o t \in Seq(T) /\ Append(t, e) \in Seq(T)
        /\ Elements(Append(t, e)) = Elements(t) \union {e}
    BY ConcatProperties, ElementsAppend
  <2>2. p \o Append(t, e) = Append(p \o t, e)
    BY AppendOnConcat
  <2>3. Elements(p \o t) = Elements(p) \union Elements(t)
    BY ConcatElements
  <2>4. Distinct(Append(p \o t, e)) <=> Distinct(p \o t) /\ e \notin Elements(p \o t)
    BY <2>1, DistinctAppend
  <2>5. Distinct(Append(t, e)) <=> Distinct(t) /\ e \notin Elements(t)
    BY DistinctAppend
  <2>6. Distinct(p \o t) <=> /\ Distinct(p) /\ Distinct(t)
                             /\ Elements(p) \intersect Elements(t) = {}
    BY <1>2
  <2>7. Distinct(p \o Append(t, e)) <=>
          Distinct(p) /\ Distinct(Append(t, e)) /\ Elements(p) \intersect Elements(Append(t, e)) = {}
    BY <2>1, <2>2, <2>3, <2>4, <2>5, <2>6
  <2> QED
    BY <2>1, <2>7
<1>3. Seq(T) \subseteq Good
  <2> HIDE DEF Good
  <2> QED
    BY <1>1, <1>2, SequenceInduction
<1> QED
  BY <1>3

\* What stands before an element of the first part is in the first part.
LEMMA BeforePrefix ==
  ASSUME NEW T, NEW p \in Seq(T), NEW q \in Seq(T), Distinct(p \o q),
         NEW x, NEW y \in Elements(p), Before(p \o q, x, y)
  PROVE  x \in Elements(p)
<1> DEFINE s == p \o q
<1>1. /\ s \in Seq(T) /\ Len(p) \in Nat /\ Len(q) \in Nat /\ DOMAIN s = 1 .. Len(p) + Len(q)
      /\ DOMAIN p = 1 .. Len(p) /\ \A i \in 1 .. Len(p) : s[i] = p[i]
  BY ConcatProperties, LenProperties
<1> HIDE DEF s
<1>2. PICK i \in DOMAIN s, j \in DOMAIN s : i < j /\ s[i] = x /\ s[j] = y
  BY DEF Before, s
<1>3. PICK k \in 1 .. Len(p) : p[k] = y
  BY <1>1 DEF Elements
<1>4. k \in DOMAIN s /\ s[k] = s[j]
  BY <1>1, <1>2, <1>3
<1>5. k = j
  BY <1>2, <1>4 DEF Distinct, s
<1>6. i \in 1 .. Len(p) /\ p[i] = x
  BY <1>1, <1>2, <1>3, <1>5
<1> QED
  BY <1>1, <1>6 DEF Elements

\* Filtering every group's line filters the flat line.
LEMMA FlatFilter ==
  ASSUME NEW gs \in Seq(Group), NEW hs \in Seq(Group), Len(hs) = Len(gs), NEW S,
         \A i \in 1 .. Len(gs) : hs[i].pending = Filter(gs[i].pending, S)
  PROVE  FlatPending(hs) = Filter(FlatPending(gs), S)
<1> DEFINE L == Len(gs)
<1>1. PICK f : /\ f[0] = << >>
               /\ \A n \in 1 .. Len(gs) : f[n] = f[n - 1] \o gs[n].pending
               /\ FlatPending(gs) = f[Len(gs)]
               /\ \A n \in 0 .. Len(gs) : f[n] \in Seq(Delegations)
  BY FlatSteps
<1>2. PICK h : /\ h[0] = << >>
               /\ \A n \in 1 .. Len(hs) : h[n] = h[n - 1] \o hs[n].pending
               /\ FlatPending(hs) = h[Len(hs)]
               /\ \A n \in 0 .. Len(hs) : h[n] \in Seq(Delegations)
  BY FlatSteps
<1>3. L \in Nat /\ \A n \in 1 .. L : n - 1 \in 0 .. L /\ n \in 0 .. L
  BY LenProperties
<1>4. ASSUME NEW n \in 1 .. L PROVE gs[n].pending \in Seq(Delegations)
  <2>1. gs[n] \in Group
    BY ElementOfSeq
  <2> QED
    BY <2>1 DEF Group
<1> DEFINE Good == {n \in 0 .. L : h[n] = Filter(f[n], S)}
<1>5. 0 \in Good
  BY <1>1, <1>2, <1>3, FilterNone
<1>6. ASSUME NEW n \in 1 .. L, n - 1 \in Good PROVE n \in Good
  <2> DEFINE p == f[n - 1]  q == gs[n].pending
  <2>1. p \in Seq(Delegations) /\ q \in Seq(Delegations)
    BY <1>1, <1>3, <1>4
  <2>2. h[n - 1] = Filter(p, S) /\ hs[n].pending = Filter(q, S)
    BY <1>6
  <2>3. f[n] = p \o q /\ h[n] = h[n - 1] \o hs[n].pending
    BY <1>1, <1>2
  <2> HIDE DEF p, q
  <2>4. h[n] = Filter(f[n], S)
    BY <2>1, <2>2, <2>3, FilterConcat
  <2> QED
    BY <1>3, <2>4
<1>7. 0 .. L \subseteq Good
  <2> HIDE DEF Good, L
  <2> QED
    BY <1>3, <1>5, <1>6, IndexInduction
<1> QED
  BY <1>1, <1>2, <1>3, <1>7

\* Dropping groups that have no one waiting does not change the flat line.
LEMMA FlatOfFilter ==
  ASSUME NEW gs \in Seq(Group), NEW S, \A g \in Elements(gs) : g \in S \/ g.pending = << >>
  PROVE  FlatPending(Filter(gs, S)) = FlatPending(gs)
<1> DEFINE Good == {t \in Seq(Group) : (\A g \in Elements(t) : g \in S \/ g.pending = << >>)
                                         => FlatPending(Filter(t, S)) = FlatPending(t)}
<1>1. << >> \in Good
  <2>1. << >> \in Seq(Group) /\ FlatPending(Filter(<< >>, S)) = FlatPending(<< >>)
    BY FilterNone
  <2> QED
    BY <2>1, Zenon
<1>2. ASSUME NEW t \in Seq(Group), NEW e \in Group, t \in Good PROVE Append(t, e) \in Good
  <2> DEFINE f == Filter(t, S)
  <2>1. SUFFICES ASSUME \A g \in Elements(Append(t, e)) : g \in S \/ g.pending = << >>
                 PROVE  FlatPending(Filter(Append(t, e), S)) = FlatPending(Append(t, e))
    BY AppendProperties
  <2>2. Elements(Append(t, e)) = Elements(t) \union {e}
    BY ElementsAppend
  <2>3. FlatPending(f) = FlatPending(t)
    BY <1>2, <2>1, <2>2
  <2>4. f \in Seq(Group)
    BY FilterType
  <2>5. Filter(Append(t, e), S) = IF e \in S THEN Append(f, e) ELSE f
    BY FilterAppend
  <2> HIDE DEF f
  <2>6. FlatPending(Append(t, e)) = FlatPending(t) \o e.pending
    BY FlatAppend
  <2>7. CASE e \in S
    <3>1. FlatPending(Append(f, e)) = FlatPending(f) \o e.pending
      BY <2>4, FlatAppend
    <3> QED
      BY <2>3, <2>5, <2>6, <2>7, <3>1
  <2>8. CASE e \notin S
    <3>1. e.pending = << >>
      BY <2>1, <2>2, <2>8
    <3>2. FlatPending(t) \o << >> = FlatPending(t)
      BY FlatPendingProperties, ConcatEmptySeq
    <3> QED
      BY <2>3, <2>5, <2>6, <2>8, <3>1, <3>2
  <2> QED
    BY <2>7, <2>8
<1>3. Seq(Group) \subseteq Good
  <2> HIDE DEF Good
  <2> QED
    BY <1>1, <1>2, SequenceInduction
<1> QED
  BY <1>3

StartsWith(s, p) == \E rest \in Seq(Delegations) : s = p \o rest

LEMMA StartsLonger ==
  ASSUME NEW p \in Seq(Delegations), NEW q \in Seq(Delegations), NEW s, StartsWith(s, p)
  PROVE  StartsWith(s \o q, p)
<1>1. PICK rest \in Seq(Delegations) : s = p \o rest
  BY DEF StartsWith
<1>2. rest \o q \in Seq(Delegations) /\ (p \o rest) \o q = p \o (rest \o q)
  BY <1>1, ConcatProperties, ConcatAssociative
<1> QED
  BY <1>1, <1>2 DEF StartsWith

\* The flat line begins with the line of the first group in which anyone waits.
LEMMA FlatHead ==
  ASSUME NEW gs \in Seq(Group), NEW k \in 1 .. Len(gs),
         \A i \in 1 .. Len(gs) : i < k => gs[i].pending = << >>
  PROVE  StartsWith(FlatPending(gs), gs[k].pending)
<1> DEFINE L == Len(gs)  p == gs[k].pending
<1>1. PICK f : /\ f[0] = << >>
               /\ \A n \in 1 .. Len(gs) : f[n] = f[n - 1] \o gs[n].pending
               /\ FlatPending(gs) = f[Len(gs)]
               /\ \A n \in 0 .. Len(gs) : f[n] \in Seq(Delegations)
  BY FlatSteps
<1>2. L \in Nat /\ k \in 1 .. L /\ \A n \in 1 .. L : n - 1 \in 0 .. L /\ n \in 0 .. L
  BY LenProperties
<1>3. \A n \in 1 .. L : gs[n].pending \in Seq(Delegations)
  <2>1. \A n \in 1 .. L : gs[n] \in Group
    BY ElementOfSeq
  <2> QED
    BY <2>1 DEF Group
<1>4. p \in Seq(Delegations) /\ << >> \in Seq(Delegations) /\ p \o << >> = p
      /\ << >> \o p = p /\ << >> \o << >> = << >>
  <2>1. p \in Seq(Delegations)
    BY <1>2, <1>3
  <2> HIDE DEF p
  <2> QED
    BY <2>1, ConcatEmptySeq
<1> DEFINE Good == {n \in 0 .. L : (n < k => f[n] = << >>) /\ (n >= k => StartsWith(f[n], p))}
<1>5. 0 \in Good
  BY <1>1, <1>2
<1>6. ASSUME NEW n \in 1 .. L, n - 1 \in Good PROVE n \in Good
  <2>1. f[n] = f[n - 1] \o gs[n].pending
    BY <1>1
  <2> HIDE DEF p
  <2>2. CASE n < k
    <3>1. f[n - 1] = << >> /\ gs[n].pending = << >>
      BY <1>2, <1>6, <2>2
    <3>2. f[n] = << >>
      BY <1>4, <2>1, <3>1
    <3> QED
      BY <1>2, <2>2, <3>2
  <2>3. CASE n = k
    <3>1. f[n - 1] = << >> /\ gs[n].pending = p
      BY <1>2, <1>6, <2>3 DEF p
    <3>2. f[n] = p \o << >>
      BY <1>4, <2>1, <3>1
    <3>3. StartsWith(f[n], p)
      BY <1>4, <3>2 DEF StartsWith
    <3> QED
      BY <1>2, <2>3, <3>3
  <2>4. CASE n > k
    <3>1. n - 1 >= k /\ StartsWith(f[n - 1], p)
      BY <1>2, <1>6, <2>4
    <3>2. p \in Seq(Delegations) /\ gs[n].pending \in Seq(Delegations)
      BY <1>3, <1>4
    <3>3. StartsWith(f[n - 1] \o gs[n].pending, p)
      BY <3>1, <3>2, StartsLonger
    <3>4. StartsWith(f[n], p)
      BY <2>1, <3>3
    <3> QED
      BY <1>2, <2>4, <3>4
  <2>5. n < k \/ n = k \/ n > k
    BY <1>2
  <2> QED
    BY <2>2, <2>3, <2>4, <2>5
<1>7. 0 .. L \subseteq Good
  <2> HIDE DEF Good, L
  <2> QED
    BY <1>2, <1>5, <1>6, IndexInduction
<1>8. StartsWith(f[L], p)
  <2>1. L \in 0 .. L /\ L >= k
    BY <1>2
  <2> QED
    BY <1>7, <2>1
<1> QED
  BY <1>1, <1>8

\* If no one waits twice in the flat line, no one waits in two groups, or
\* twice in one.
LEMMA FlatDistinct ==
  ASSUME NEW gs \in Seq(Group), Distinct(FlatPending(gs))
  PROVE  \A i, j \in 1 .. Len(gs) :
           /\ Distinct(gs[i].pending)
           /\ i # j => Elements(gs[i].pending) \intersect Elements(gs[j].pending) = {}
<1> DEFINE L == Len(gs)
<1>1. PICK f : /\ f[0] = << >>
               /\ \A n \in 1 .. Len(gs) : f[n] = f[n - 1] \o gs[n].pending
               /\ FlatPending(gs) = f[Len(gs)]
               /\ \A n \in 0 .. Len(gs) : f[n] \in Seq(Delegations)
  BY FlatSteps
<1>2. L \in Nat /\ \A n \in 1 .. L : n - 1 \in 0 .. L /\ n \in 0 .. L
  BY LenProperties
<1>3. \A n \in 1 .. L : gs[n].pending \in Seq(Delegations)
  <2>1. \A n \in 1 .. L : gs[n] \in Group
    BY ElementOfSeq
  <2> QED
    BY <2>1 DEF Group
<1> DEFINE Apart(n) ==
      /\ \A i \in 1 .. n : Distinct(gs[i].pending) /\ Elements(gs[i].pending) \subseteq Elements(f[n])
      /\ \A i, j \in 1 .. n : i # j => Elements(gs[i].pending) \intersect Elements(gs[j].pending) = {}
<1> DEFINE Good == {n \in 0 .. L : Distinct(f[n]) => Apart(n)}
<1>4. 0 \in Good
  BY <1>2
<1>5. ASSUME NEW n \in 1 .. L, n - 1 \in Good PROVE n \in Good
  <2> DEFINE p == f[n - 1]  q == gs[n].pending
  <2>1. /\ p \in Seq(Delegations) /\ q \in Seq(Delegations) /\ f[n] = p \o q
    BY <1>1, <1>2, <1>3
  <2>2. Distinct(p) => Apart(n - 1)
    BY <1>5
  <2> SUFFICES ASSUME Distinct(f[n]) PROVE Apart(n)
    BY <1>2
  <2> HIDE DEF p, q
  <2>3. /\ Distinct(p) /\ Distinct(q) /\ Elements(p) \intersect Elements(q) = {}
        /\ Elements(f[n]) = Elements(p) \union Elements(q)
    BY <2>1, DistinctConcat, ConcatElements
  <2>4. \A i \in 1 .. n : i \in 1 .. n - 1 \/ i = n
    BY <1>2
  <2>5. ASSUME NEW i \in 1 .. n
        PROVE  Distinct(gs[i].pending) /\ Elements(gs[i].pending) \subseteq Elements(f[n])
    <3>1. CASE i \in 1 .. n - 1
      BY <2>2, <2>3, <3>1 DEF p
    <3>2. CASE i = n
      BY <2>3, <3>2 DEF q
    <3> QED
      BY <2>4, <3>1, <3>2
  <2>6. ASSUME NEW i \in 1 .. n - 1, NEW j \in 1 .. n - 1, i # j
        PROVE  Elements(gs[i].pending) \intersect Elements(gs[j].pending) = {}
    BY <2>2, <2>3, <2>6
  <2>7. ASSUME NEW i \in 1 .. n - 1
        PROVE  Elements(gs[i].pending) \intersect Elements(q) = {}
    BY <2>2, <2>3, <2>7 DEF p
  <2>8. ASSUME NEW i \in 1 .. n, NEW j \in 1 .. n, i # j
        PROVE  Elements(gs[i].pending) \intersect Elements(gs[j].pending) = {}
    <3>1. CASE i \in 1 .. n - 1 /\ j \in 1 .. n - 1
      BY <2>6, <2>8, <3>1
    <3>2. CASE i \in 1 .. n - 1 /\ j = n
      BY <2>7, <3>2 DEF q
    <3>3. CASE i = n /\ j \in 1 .. n - 1
      BY <2>7, <3>3 DEF q
    <3> QED
      BY <2>4, <2>8, <3>1, <3>2, <3>3
  <2> QED
    BY <2>5, <2>8
<1>6. 0 .. L \subseteq Good
  <2> HIDE DEF Good, L
  <2> QED
    BY <1>2, <1>4, <1>5, IndexInduction
<1>7. Apart(L)
  <2>1. L \in 0 .. L
    BY <1>2
  <2> HIDE DEF Apart
  <2> QED
    BY <1>1, <1>6, <2>1
<1> QED
  BY <1>7

-----------------------------------------------------------------------------
(***************************************************************************)
(* Sound states.                                                           *)
(***************************************************************************)

Busy(gs) == UNION {g.members : g \in Elements(gs)}
Pending(gs) == UNION {Elements(g.pending) : g \in Elements(gs)}

Disciplined(g) ==
  /\ g.mode = "serial" => Cardinality(g.members) <= 1
  /\ g.mode = "parallel" => /\ g.members = {} \/ g.pending = << >>
                            /\ Len(g.pending) <= Cap

InUse(g) == g.members # {} \/ g.pending # << >>

Sound(s) ==
  /\ s \in AdmissionState
  /\ IsFiniteSet(s.running)
  /\ Cardinality(s.running) <= Cap
  /\ s.running = Busy(s.groups)
  /\ Elements(s.queue) \subseteq Pending(s.groups)
  /\ \A g \in Elements(s.groups) : Disciplined(g) /\ InUse(g)

LineMoves(s) == WaitingGroups(s.groups) # {} => s.running # {}


LEMMA HeadTailElements ==
  ASSUME NEW T, NEW s \in Seq(T), s # << >>
  PROVE  /\ Head(s) \in T /\ Tail(s) \in Seq(T)
         /\ Elements(s) = Elements(Tail(s)) \union {Head(s)}
         /\ Elements(<<Head(s)>>) = {Head(s)}
<1>1. /\ Head(s) \in T /\ Tail(s) \in Seq(T) /\ Head(s) = s[1]
      /\ Len(s) \in Nat \ {0} /\ Len(Tail(s)) = Len(s) - 1
      /\ \A i \in 1 .. (Len(s) - 1) : Tail(s)[i] = s[i + 1]
      /\ DOMAIN s = 1 .. Len(s) /\ DOMAIN Tail(s) = 1 .. (Len(s) - 1)
  BY HeadTailProperties, LenProperties
<1>2. ASSUME NEW i \in 1 .. Len(s) PROVE s[i] \in Elements(Tail(s)) \union {Head(s)}
  <2>1. CASE i = 1
    BY <1>1, <2>1
  <2>2. CASE i # 1
    <3>1. i - 1 \in 1 .. (Len(s) - 1) /\ Tail(s)[i - 1] = s[i]
      BY <1>1, <2>2
    <3> QED
      BY <1>1, <3>1 DEF Elements
  <2> QED
    BY <2>1, <2>2
<1>3. ASSUME NEW i \in 1 .. (Len(s) - 1) PROVE Tail(s)[i] \in Elements(s)
  <2>1. i + 1 \in 1 .. Len(s)
    BY <1>1
  <2> QED
    BY <1>1, <2>1 DEF Elements
<1>4. Head(s) \in Elements(s)
  BY <1>1 DEF Elements
<1>5. Elements(<<Head(s)>>) = {Head(s)}
  BY DEF Elements
<1> QED
  BY <1>1, <1>2, <1>3, <1>4, <1>5 DEF Elements

LEMMA FunctionIsSequence ==
  ASSUME NEW T, NEW n \in Nat, NEW f \in [1 .. n -> T]
  PROVE  f \in Seq(T) /\ Len(f) = n
OBVIOUS

LEMMA HeadOfLine ==
  ASSUME NEW gs \in Seq(Group), WaitingGroups(gs) # {}
  PROVE  /\ HeadIndex(gs) \in 1 .. Len(gs)
         /\ gs[HeadIndex(gs)] \in Group
         /\ gs[HeadIndex(gs)] \in Elements(gs)
         /\ gs[HeadIndex(gs)].pending # << >>
<1>1. WaitingGroups(gs) \in SUBSET Nat
  BY LenProperties DEF WaitingGroups
<1>2. \E i \in WaitingGroups(gs) : \A j \in WaitingGroups(gs) : i <= j
  BY <1>1, NatMinimum
<1>3. HeadIndex(gs) \in WaitingGroups(gs)
  BY <1>2, Zenon DEF HeadIndex
<1>4. HeadIndex(gs) \in 1 .. Len(gs) /\ gs[HeadIndex(gs)].pending # << >>
  BY <1>3, LenProperties DEF WaitingGroups
<1> HIDE DEF HeadIndex
<1> QED
  BY <1>4, ElementOfSeq, ElementsOf

LEMMA OccupiedProperties ==
  ASSUME NEW gs \in Seq(Group)
  PROVE  /\ Occupied(gs) \in Seq(Group)
         /\ Elements(Occupied(gs)) = {g \in Elements(gs) : InUse(g)}
BY FilterProperties DEF Occupied, InUse

-----------------------------------------------------------------------------
(***************************************************************************)
(* Draining: a sound state stays sound, and the line moves afterwards      *)
(* whether or not it did before.                                           *)
(***************************************************************************)

\* The batch of a head that can proceed fits the free slots.
LEMMA BatchFits ==
  ASSUME NEW g \in Group, g.pending # << >>, NEW running,
         IsFiniteSet(running), ~Stuck(g, running)
  PROVE  /\ Batch(g) \in Seq(Delegations) /\ Elements(Batch(g)) # {}
         /\ Elements(Batch(g)) \subseteq Elements(g.pending)
         /\ IsFiniteSet(running \union Elements(Batch(g)))
         /\ Cardinality(running \union Elements(Batch(g))) <= Cap
<1> USE CapsAssumption
<1>1. g.mode \in Modes /\ g.pending \in Seq(Delegations)
  BY DEF Group
<1>2. Cardinality(running) \in Nat
  BY FS_CardinalityType
<1>3. CASE g.mode = "serial"
  <2>1. Batch(g) = <<Head(g.pending)>> /\ Cardinality(running) < Cap
    BY <1>2, <1>3 DEF Batch, Stuck
  <2>2. /\ Head(g.pending) \in Delegations
        /\ Elements(Batch(g)) = {Head(g.pending)}
        /\ {Head(g.pending)} \subseteq Elements(g.pending)
    BY <1>1, <2>1, HeadTailElements
  <2>3. /\ IsFiniteSet(running \union {Head(g.pending)})
        /\ Cardinality(running \union {Head(g.pending)}) <= Cap
    <3> DEFINE h == Head(g.pending)
    <3> HIDE DEF h
    <3>1. /\ IsFiniteSet(running \union {h})
          /\ \/ Cardinality(running \union {h}) = Cardinality(running)
             \/ Cardinality(running \union {h}) = Cardinality(running) + 1
      BY FS_AddElement
    <3>2. Cardinality(running \union {h}) <= Cap
      BY <1>2, <2>1, <3>1
    <3> QED
      BY <3>1, <3>2 DEF h
  <2>4. Batch(g) \in Seq(Delegations)
    BY <2>1, <2>2
  <2> QED
    BY <2>2, <2>3, <2>4
<1>4. CASE g.mode = "parallel"
  <2>1. Batch(g) = g.pending /\ Cardinality(running) + Len(g.pending) <= Cap
    BY <1>1, <1>2, <1>4, LenProperties DEF Batch, Stuck
  <2>2. Elements(g.pending) # {}
    BY <1>1, ElementsOf
  <2>3. IsFiniteSet(Elements(g.pending)) /\ Cardinality(Elements(g.pending)) <= Len(g.pending)
    BY <1>1, ElementsCardinality
  <2> DEFINE both == running \union Elements(g.pending)
             common == running \intersect Elements(g.pending)
  <2>4. /\ IsFiniteSet(both)
        /\ Cardinality(both) = Cardinality(running) + Cardinality(Elements(g.pending))
                                  - Cardinality(common)
    BY <2>3, FS_Union
  <2>5. Cardinality(common) \in Nat /\ Cardinality(Elements(g.pending)) \in Nat
    BY <2>3, FS_Intersection, FS_CardinalityType
  <2>6. Cardinality(both) <= Cap
    BY <1>1, <1>2, <2>1, <2>3, <2>4, <2>5, LenProperties
  <2> QED
    BY <1>1, <2>1, <2>2, <2>4, <2>6
<1> QED
  BY <1>1, <1>3, <1>4 DEF Modes

LEMMA AdmittedGroup ==
  ASSUME NEW g \in Group, g.pending # << >>, NEW running,
         IsFiniteSet(running), ~Stuck(g, running), Disciplined(g)
  PROVE  /\ Admitted(g) \in Group
         /\ Admitted(g).members = g.members \union Elements(Batch(g))
         /\ Elements(g.pending) = Elements(Admitted(g).pending) \union Elements(Batch(g))
         /\ Disciplined(Admitted(g)) /\ InUse(Admitted(g))
<1> USE CapsAssumption
<1>1. g.mode \in Modes /\ g.pending \in Seq(Delegations) /\ g.members \subseteq Delegations
  BY DEF Group
<1>2. /\ Elements(Batch(g)) # {} /\ Elements(Batch(g)) \subseteq Delegations
  BY <1>1, BatchFits, ElementsOf
<1>3. CASE g.mode = "serial"
  <2>1. /\ Batch(g) = <<Head(g.pending)>> /\ g.members = {}
    BY <1>3 DEF Batch, Stuck
  <2>2. /\ Tail(g.pending) \in Seq(Delegations) /\ Head(g.pending) \in Delegations
        /\ Elements(g.pending) = Elements(Tail(g.pending)) \union {Head(g.pending)}
        /\ Elements(Batch(g)) = {Head(g.pending)}
    BY <1>1, <2>1, HeadTailElements
  <2>3. /\ Admitted(g) \in Group
        /\ Admitted(g).mode = "serial"
        /\ Admitted(g).members = {Head(g.pending)}
        /\ Admitted(g).pending = Tail(g.pending)
    BY <1>1, <1>3, <2>1, <2>2 DEF Admitted, Group
  <2>4. Cardinality({Head(g.pending)}) = 1
    BY FS_Singleton
  <2> QED
    BY <2>1, <2>2, <2>3, <2>4 DEF Disciplined, InUse
<1>4. CASE g.mode = "parallel"
  <2>1. Batch(g) = g.pending
    BY <1>4 DEF Batch
  <2>2. /\ Admitted(g) \in Group
        /\ Admitted(g).mode = "parallel"
        /\ Admitted(g).members = g.members \union Elements(g.pending)
        /\ Admitted(g).pending = << >>
    BY <1>1, <1>2, <1>4, <2>1 DEF Admitted, Group
  <2>3. Elements(<< >>) = {}
    BY DEF Elements
  <2> QED
    BY <1>2, <2>1, <2>2, <2>3 DEF Disciplined, InUse
<1> QED
  BY <1>1, <1>3, <1>4 DEF Modes

LEMMA AdmitHeadSound ==
  ASSUME NEW s, Sound(s), WaitingGroups(s.groups) # {}, ~WaitingHeadBlocked(s)
  PROVE  LET t == AdmitHead(s, HeadIndex(s.groups)).state
         IN  Sound(t) /\ t.running # {}
<1> DEFINE k     == HeadIndex(s.groups)
           gs    == s.groups
           g     == gs[k]
           batch == Batch(g)
           t     == AdmitHead(s, k).state
<1>1. /\ gs \in Seq(Group) /\ s.running \subseteq Delegations /\ IsFiniteSet(s.running)
      /\ s.queue \in Seq(Delegations)
  BY DEF Sound, AdmissionState
<1>2. k \in 1 .. Len(gs) /\ g \in Group /\ g \in Elements(gs) /\ g.pending # << >>
  BY <1>1, HeadOfLine
<1>3. ~Stuck(g, s.running) /\ Disciplined(g)
  BY <1>2 DEF WaitingHeadBlocked, Sound
<1>4. /\ batch \in Seq(Delegations) /\ Elements(batch) # {}
      /\ IsFiniteSet(s.running \union Elements(batch))
      /\ Cardinality(s.running \union Elements(batch)) <= Cap
  BY <1>1, <1>2, <1>3, BatchFits
<1>5. /\ Admitted(g) \in Group
      /\ Admitted(g).members = g.members \union Elements(batch)
      /\ Elements(g.pending) = Elements(Admitted(g).pending) \union Elements(batch)
      /\ Disciplined(Admitted(g)) /\ InUse(Admitted(g))
  BY <1>1, <1>2, <1>3, AdmittedGroup
<1>6. /\ t.running = s.running \union Elements(batch)
      /\ t.queue = Filter(s.queue, Delegations \ Elements(batch))
      /\ t.groups = [gs EXCEPT ![k] = Admitted(g)]
      /\ t = [running |-> t.running, queue |-> t.queue, groups |-> t.groups]
  BY DEF AdmitHead
<1> HIDE DEF t, batch, k
<1>7. /\ t.groups \in Seq(Group) /\ Len(t.groups) = Len(gs)
      /\ \A j \in 1 .. Len(gs) : t.groups[j] = IF j = k THEN Admitted(gs[k]) ELSE gs[j]
  BY <1>1, <1>2, <1>5, <1>6, ExceptSeq
<1>8. /\ Elements(t.groups) \subseteq Elements(gs) \union {Admitted(g)}
      /\ Admitted(g) \in Elements(t.groups)
      /\ Elements(gs) \subseteq Elements(t.groups) \union {g}
  <2>1. \A j \in 1 .. Len(gs) : t.groups[j] \in Elements(t.groups)
    BY <1>7, ElementsOf
  <2>2. \A h \in Elements(t.groups) : \E j \in 1 .. Len(gs) : h = t.groups[j]
    BY <1>7, ElementsOf
  <2>3. \A j \in 1 .. Len(gs) : gs[j] \in Elements(gs)
    BY <1>1, ElementsOf
  <2>4. \A h \in Elements(gs) : \E j \in 1 .. Len(gs) : h = gs[j]
    BY <1>1, ElementsOf
  <2>5. ASSUME NEW h \in Elements(t.groups) PROVE h \in Elements(gs) \union {Admitted(g)}
    <3>1. PICK j \in 1 .. Len(gs) : h = t.groups[j]
      BY <2>2
    <3> QED
      BY <1>7, <2>3, <3>1
  <2>6. Admitted(g) \in Elements(t.groups)
    BY <1>2, <1>7, <2>1
  <2>7. ASSUME NEW h \in Elements(gs) PROVE h \in Elements(t.groups) \union {g}
    <3>1. PICK j \in 1 .. Len(gs) : h = gs[j]
      BY <2>4
    <3> QED
      BY <1>7, <2>1, <3>1
  <2> QED
    BY <2>5, <2>6, <2>7
<1>9. /\ t.queue \in Seq(Delegations)
      /\ Elements(t.queue) = Elements(s.queue) \intersect (Delegations \ Elements(batch))
  BY <1>1, <1>6, FilterProperties
<1> HIDE DEF g
<1>10. Busy(t.groups) = Busy(gs) \union Elements(batch)
  BY <1>2, <1>5, <1>8 DEF Busy
<1>11. Pending(gs) \subseteq Pending(t.groups) \union Elements(batch)
  BY <1>2, <1>5, <1>8 DEF Pending
<1>12. t \in AdmissionState
  <2>1. Elements(batch) \subseteq Delegations
    BY <1>4, ElementsOf
  <2> QED
    BY <1>1, <1>6, <1>7, <1>9, <2>1 DEF AdmissionState
<1>13. t.running = Busy(t.groups) /\ Elements(t.queue) \subseteq Pending(t.groups)
  BY <1>6, <1>9, <1>10, <1>11 DEF Sound
<1>14. \A h \in Elements(t.groups) : Disciplined(h) /\ InUse(h)
  BY <1>5, <1>8 DEF Sound
<1>15. Sound(t) /\ t.running # {}
  BY <1>4, <1>6, <1>12, <1>13, <1>14 DEF Sound
<1> QED
  BY <1>15 DEF t, k

\* A blocked head is blocked by somebody.
LEMMA BlockedMeansBusy ==
  ASSUME NEW s, Sound(s), WaitingHeadBlocked(s)
  PROVE  s.running # {}
<1> USE CapsAssumption
<1> DEFINE g == s.groups[HeadIndex(s.groups)]
<1>1. s.groups \in Seq(Group) /\ IsFiniteSet(s.running) /\ Cardinality(s.running) \in Nat
  BY FS_CardinalityType DEF Sound, AdmissionState
<1>2. g \in Group /\ g \in Elements(s.groups)
  BY <1>1, HeadOfLine DEF WaitingHeadBlocked
<1>3. Stuck(g, s.running) /\ Disciplined(g)
  BY <1>2 DEF WaitingHeadBlocked, Sound
<1> HIDE DEF g
<1>4. Cardinality({}) = 0
  BY FS_EmptySet
<1>5. g.members \subseteq s.running
  BY <1>2 DEF Sound, Busy
<1>6. Len(g.pending) \in Nat
  BY <1>2, LenProperties DEF Group
<1>7. CASE g.members # {}
  BY <1>5, <1>7
<1>8. CASE g.members = {}
  <2>1. Cardinality(s.running) > 0
    BY <1>1, <1>3, <1>6, <1>8 DEF Stuck, Disciplined
  <2> QED
    BY <1>4, <2>1
<1> QED
  BY <1>7, <1>8

LEMMA DrainSound ==
  ASSUME NEW s, Sound(s)
  PROVE  Sound(DrainAdmission(s).state) /\ LineMoves(DrainAdmission(s).state)
<1>1. CASE WaitingGroups(s.groups) = {}
  BY <1>1 DEF DrainAdmission, LineMoves
<1>2. CASE WaitingHeadBlocked(s)
  BY <1>2, BlockedMeansBusy DEF DrainAdmission, LineMoves
<1>3. CASE WaitingGroups(s.groups) # {} /\ ~WaitingHeadBlocked(s)
  BY <1>3, AdmitHeadSound DEF DrainAdmission, LineMoves
<1> QED
  BY <1>1, <1>2, <1>3

-----------------------------------------------------------------------------
(***************************************************************************)
(* The operations keep a state sound and its line moving.                  *)
(***************************************************************************)

\* Taking ids out of a group leaves a group that obeys its mode.
LEMMA FewerDisciplined ==
  ASSUME NEW g \in Group, Disciplined(g), IsFiniteSet(g.members),
         NEW out, NEW keep,
         NEW h, h = [mode |-> g.mode, members |-> g.members \ out,
                     pending |-> Filter(g.pending, keep)]
  PROVE  /\ h \in Group /\ Disciplined(h)
         /\ Elements(h.pending) = Elements(g.pending) \intersect keep
<1>1. g.mode \in Modes /\ g.members \subseteq Delegations /\ g.pending \in Seq(Delegations)
  BY DEF Group
<1> DEFINE p == Filter(g.pending, keep)  m == g.members \ out
<1>2. /\ p \in Seq(Delegations) /\ Len(p) <= Len(g.pending)
      /\ Elements(p) = Elements(g.pending) \intersect keep
  BY <1>1, FilterProperties
<1> HIDE DEF p
<1>3. /\ h.mode = g.mode /\ h.members = m /\ h.pending = p
      /\ h \in Group
  BY <1>1, <1>2 DEF Group, p
<1>4. /\ Cardinality(m) <= Cardinality(g.members)
      /\ Cardinality(m) \in Nat /\ Cardinality(g.members) \in Nat
  BY FS_Subset, FS_CardinalityType
<1>5. /\ Len(p) \in Nat /\ Len(g.pending) \in Nat
      /\ g.pending = << >> => p = << >>
  <2>1. Len(p) \in Nat /\ Len(g.pending) \in Nat
    BY <1>1, <1>2, LenProperties
  <2>2. ASSUME g.pending = << >> PROVE p = << >>
    <3>1. Elements(p) = {}
      BY <1>2, <2>2 DEF Elements
    <3> QED
      BY <1>2, <3>1, ElementsOf
  <2> QED
    BY <2>1, <2>2
<1> HIDE DEF m
<1>6. g.members = {} => m = {}
  BY DEF m
<1>7. h.mode = "serial" => Cardinality(h.members) <= 1
  BY <1>3, <1>4 DEF Disciplined
<1>8. h.mode = "parallel" => /\ h.members = {} \/ h.pending = << >>
                             /\ Len(h.pending) <= Cap
  BY CapsAssumption, <1>2, <1>3, <1>5, <1>6 DEF Disciplined
<1> QED
  BY <1>2, <1>3, <1>7, <1>8 DEF Disciplined

\* The state a release or a cancellation drains: every group has lost `out`
\* from its members and all but `keep` from its waiting line.
LEMMA PrunedSound ==
  ASSUME NEW s, Sound(s), NEW out, NEW keep,
         NEW gs1 \in Seq(Group), Len(gs1) = Len(s.groups),
         \A i \in 1 .. Len(s.groups) :
            gs1[i] = [mode    |-> s.groups[i].mode,
                      members |-> s.groups[i].members \ out,
                      pending |-> Filter(s.groups[i].pending, keep)],
         NEW u, u \in AdmissionState,
         u.groups = Occupied(gs1),
         u.running = s.running \ out,
         Elements(u.queue) \subseteq Elements(s.queue) \intersect keep
           \/ Elements(u.queue) \subseteq Pending(u.groups)
  PROVE  Sound(u)
<1> DEFINE gs == s.groups
<1>1. gs \in Seq(Group) /\ s.running \subseteq Delegations /\ IsFiniteSet(s.running)
  BY DEF Sound, AdmissionState
<1>2. /\ Occupied(gs1) \in Seq(Group)
      /\ Elements(Occupied(gs1)) = {g \in Elements(gs1) : InUse(g)}
  BY OccupiedProperties
<1>3. ASSUME NEW i \in 1 .. Len(gs)
      PROVE  /\ gs[i] \in Elements(gs) /\ gs1[i] \in Elements(gs1) /\ gs1[i] \in Group
             /\ gs1[i].members = gs[i].members \ out
             /\ Elements(gs1[i].pending) = Elements(gs[i].pending) \intersect keep
             /\ Disciplined(gs1[i])
  <2>1. gs[i] \in Elements(gs) /\ gs1[i] \in Elements(gs1) /\ gs[i] \in Group
    BY <1>1, ElementsOf
  <2>2. Disciplined(gs[i])
    BY <2>1 DEF Sound
  <2>3. gs[i].members \subseteq s.running
    BY <2>1 DEF Sound, Busy
  <2>4. IsFiniteSet(gs[i].members)
    BY <1>1, <2>3, FS_Subset
  <2> DEFINE g == gs[i]  h == gs1[i]
  <2>5. /\ g \in Group /\ Disciplined(g) /\ IsFiniteSet(g.members)
        /\ h = [mode |-> g.mode, members |-> g.members \ out, pending |-> Filter(g.pending, keep)]
    BY <2>1, <2>2, <2>4
  <2> HIDE DEF g, h
  <2>6. h \in Group /\ Disciplined(h) /\ Elements(h.pending) = Elements(g.pending) \intersect keep
    BY <2>5, FewerDisciplined
  <2>7. h.members = g.members \ out
    BY <2>5
  <2> QED
    BY <2>1, <2>6, <2>7 DEF g, h
<1>4. \A h \in Elements(gs1) : \E i \in 1 .. Len(gs) : h = gs1[i]
  BY ElementsOf
<1>5. \A g \in Elements(gs) : \E i \in 1 .. Len(gs) : g = gs[i]
  BY <1>1, ElementsOf
<1> HIDE DEF gs
<1>6. Busy(gs1) = Busy(gs) \ out
  BY <1>3, <1>4, <1>5 DEF Busy
<1>7. Pending(gs) \intersect keep \subseteq Pending(gs1)
  BY <1>3, <1>5 DEF Pending
<1>8. Busy(u.groups) = Busy(gs1)
  BY <1>2 DEF Busy, InUse
<1>9. Pending(u.groups) = Pending(gs1)
  <2>1. Elements(<< >>) = {}
    BY DEF Elements
  <2> QED
    BY <1>2, <2>1 DEF Pending, InUse
<1>10. \A h \in Elements(u.groups) : Disciplined(h) /\ InUse(h)
  BY <1>2, <1>3, <1>4
<1>11. IsFiniteSet(u.running) /\ Cardinality(u.running) <= Cap
  <2>1. /\ IsFiniteSet(u.running) /\ Cardinality(u.running) <= Cardinality(s.running)
        /\ Cardinality(u.running) \in Nat /\ Cardinality(s.running) \in Nat
    BY <1>1, FS_Subset, FS_CardinalityType
  <2> QED
    BY <2>1, CapsAssumption DEF Sound
<1>12. u.running = Busy(u.groups)
  BY <1>6, <1>8 DEF Sound, gs
<1>13. Elements(u.queue) \subseteq Pending(u.groups)
  <2>1. Elements(s.queue) \subseteq Pending(gs)
    BY DEF Sound, gs
  <2> QED
    BY <1>7, <1>9, <2>1
<1> QED
  BY <1>10, <1>11, <1>12, <1>13 DEF Sound

LEMMA ReleaseSound ==
  ASSUME NEW s, Sound(s), NEW id
  PROVE  Sound(ReleaseRun(s, id).state) /\ LineMoves(ReleaseRun(s, id).state)
<1> DEFINE keep == Delegations \ {id}
           gs1  == [i \in 1 .. Len(s.groups) |-> Released(s.groups[i], id)]
           occ  == Occupied(gs1)
           u    == [running |-> s.running \ {id}, queue |-> FlatPending(occ), groups |-> occ]
<1>1. s.groups \in Seq(Group) /\ s.running \subseteq Delegations
  BY DEF Sound, AdmissionState
<1>2. \A i \in 1 .. Len(s.groups) : gs1[i] \in Group
  <2> SUFFICES ASSUME NEW i \in 1 .. Len(s.groups) PROVE Released(s.groups[i], id) \in Group
    OBVIOUS
  <2> DEFINE g == s.groups[i]
  <2>1. g \in Group
    BY <1>1, ElementOfSeq
  <2> HIDE DEF g
  <2>2. g.mode \in Modes /\ g.members \subseteq Delegations /\ g.pending \in Seq(Delegations)
    BY <2>1 DEF Group
  <2>3. Filter(g.pending, keep) \in Seq(Delegations)
    BY <2>2, FilterProperties
  <2>4. Released(g, id) \in Group
    BY <2>2, <2>3 DEF Released, Group
  <2> QED
    BY <2>4 DEF g
<1>3. gs1 \in Seq(Group) /\ Len(gs1) = Len(s.groups)
  <2>1. Len(s.groups) \in Nat
    BY <1>1, LenProperties
  <2>2. gs1 \in [1 .. Len(s.groups) -> Group]
    BY <1>2
  <2> HIDE DEF gs1
  <2> QED
    BY <2>1, <2>2, FunctionIsSequence
<1>4. occ \in Seq(Group)
  BY <1>3, OccupiedProperties
<1>5. /\ FlatPending(occ) \in Seq(Delegations)
      /\ Elements(FlatPending(occ)) = UNION {Elements(occ[i].pending) : i \in DOMAIN occ}
  BY <1>4, FlatPendingProperties
<1>6. \A i \in 1 .. Len(s.groups) :
         gs1[i] = [mode    |-> s.groups[i].mode,
                   members |-> s.groups[i].members \ {id},
                   pending |-> Filter(s.groups[i].pending, keep)]
  BY DEF Released
<1> HIDE DEF gs1, occ, keep
<1>7. Elements(FlatPending(occ)) \subseteq Pending(occ)
  <2>1. \A i \in DOMAIN occ : occ[i] \in Elements(occ)
    BY DEF Elements
  <2> QED
    BY <1>5, <2>1 DEF Pending
<1>8. /\ u \in AdmissionState /\ u.groups = occ /\ u.running = s.running \ {id}
      /\ Elements(u.queue) \subseteq Pending(u.groups)
  BY <1>1, <1>4, <1>5, <1>7 DEF AdmissionState
<1>9. ReleaseRun(s, id) = DrainAdmission(u)
  BY DEF ReleaseRun, occ, gs1
<1> HIDE DEF u
<1>10. Sound(u)
  BY <1>3, <1>6, <1>8, PrunedSound DEF occ
<1> QED
  BY <1>9, <1>10, DrainSound

LEMMA RemoveSound ==
  ASSUME NEW s, Sound(s), NEW ids
  PROVE  Sound(RemovePending(s, ids).state) /\ LineMoves(RemovePending(s, ids).state)
<1> DEFINE keep == Delegations \ ids
           gs1  == [i \in 1 .. Len(s.groups) |-> Removed(s.groups[i], ids)]
           occ  == Occupied(gs1)
           u    == [running |-> s.running, queue |-> Filter(s.queue, keep), groups |-> occ]
<1>1. /\ s.groups \in Seq(Group) /\ s.running \subseteq Delegations
      /\ s.queue \in Seq(Delegations)
  BY DEF Sound, AdmissionState
<1>2. \A i \in 1 .. Len(s.groups) : gs1[i] \in Group
  <2> SUFFICES ASSUME NEW i \in 1 .. Len(s.groups) PROVE Removed(s.groups[i], ids) \in Group
    OBVIOUS
  <2> DEFINE g == s.groups[i]
  <2>1. g \in Group
    BY <1>1, ElementOfSeq
  <2> HIDE DEF g
  <2>2. g.mode \in Modes /\ g.members \subseteq Delegations /\ g.pending \in Seq(Delegations)
    BY <2>1 DEF Group
  <2>3. Filter(g.pending, keep) \in Seq(Delegations)
    BY <2>2, FilterProperties
  <2>4. Removed(g, ids) \in Group
    BY <2>2, <2>3 DEF Removed, Group
  <2> QED
    BY <2>4 DEF g
<1>3. gs1 \in Seq(Group) /\ Len(gs1) = Len(s.groups)
  <2>1. Len(s.groups) \in Nat
    BY <1>1, LenProperties
  <2>2. gs1 \in [1 .. Len(s.groups) -> Group]
    BY <1>2
  <2> HIDE DEF gs1
  <2> QED
    BY <2>1, <2>2, FunctionIsSequence
<1>4. occ \in Seq(Group)
  BY <1>3, OccupiedProperties
<1>5. /\ Filter(s.queue, keep) \in Seq(Delegations)
      /\ Elements(Filter(s.queue, keep)) \subseteq Elements(s.queue) \intersect keep
  BY <1>1, FilterProperties
<1>6. \A i \in 1 .. Len(s.groups) :
         gs1[i] = [mode    |-> s.groups[i].mode,
                   members |-> s.groups[i].members \ {},
                   pending |-> Filter(s.groups[i].pending, keep)]
  <2>1. \A S : S \ {} = S
    OBVIOUS
  <2> QED
    BY <2>1 DEF Removed
<1> HIDE DEF gs1, occ, keep
<1>7. /\ u \in AdmissionState /\ u.groups = occ /\ u.running = s.running \ {}
      /\ Elements(u.queue) \subseteq Elements(s.queue) \intersect keep
  BY <1>1, <1>4, <1>5 DEF AdmissionState
<1>8. RemovePending(s, ids) = DrainAdmission(u)
  BY DEF RemovePending, occ, gs1, keep
<1> HIDE DEF u
<1>9. Sound(u)
  BY <1>3, <1>6, <1>7, PrunedSound DEF occ
<1> QED
  BY <1>8, <1>9, DrainSound

\* A group appended to the FIFO of a sound state.
LEMMA AppendedSound ==
  ASSUME NEW s, Sound(s), NEW g \in Group, Disciplined(g), InUse(g), NEW queue,
         queue \in Seq(Delegations),
         Elements(queue) \subseteq Elements(s.queue) \union Elements(g.pending),
         IsFiniteSet(s.running \union g.members),
         Cardinality(s.running \union g.members) <= Cap
  PROVE  Sound([running |-> s.running \union g.members,
                queue |-> queue, groups |-> Append(s.groups, g)])
<1> DEFINE gs == Append(s.groups, g)
           u  == [running |-> s.running \union g.members, queue |-> queue, groups |-> gs]
<1>1. s.groups \in Seq(Group) /\ s.running \subseteq Delegations
  BY DEF Sound, AdmissionState
<1>2. gs \in Seq(Group) /\ Elements(gs) = Elements(s.groups) \union {g}
  BY <1>1, ElementsAppend
<1> HIDE DEF gs
<1>3. g.members \subseteq Delegations
  BY DEF Group
<1>4. u \in AdmissionState
  BY <1>1, <1>2, <1>3 DEF AdmissionState
<1>5. Busy(gs) = Busy(s.groups) \union g.members
  BY <1>2 DEF Busy
<1>6. Pending(gs) = Pending(s.groups) \union Elements(g.pending)
  BY <1>2 DEF Pending
<1>7. /\ u.running = s.running \union g.members /\ u.queue = queue /\ u.groups = gs
  OBVIOUS
<1> HIDE DEF u
<1>8. u.running = Busy(u.groups) /\ Elements(u.queue) \subseteq Pending(u.groups)
  BY <1>5, <1>6, <1>7 DEF Sound
<1>9. \A h \in Elements(u.groups) : Disciplined(h) /\ InUse(h)
  BY <1>2, <1>7 DEF Sound
<1>10. Sound(u)
  BY <1>4, <1>7, <1>8, <1>9 DEF Sound
<1> QED
  BY <1>10 DEF u, gs

LEMMA RequestSound ==
  ASSUME NEW s, Sound(s), LineMoves(s), NEW id \in Delegations
  PROVE  Sound(AdmitRequest(s, id).state) /\ LineMoves(AdmitRequest(s, id).state)
<1> USE CapsAssumption
<1> DEFINE admit == Cardinality(s.running) < Cap /\ ~WaitingHeadBlocked(s)
<1>1. /\ IsFiniteSet(s.running) /\ Cardinality(s.running) \in Nat
      /\ s.queue \in Seq(Delegations)
  BY FS_CardinalityType DEF Sound, AdmissionState
<1>2. /\ Elements(<< >>) = {} /\ Elements(<<id>>) = {id}
      /\ << >> \in Seq(Delegations) /\ <<id>> \in Seq(Delegations)
  BY DEF Elements
<1>3. Cardinality({}) = 0 /\ Cardinality({id}) = 1
  BY FS_EmptySet, FS_Singleton
<1>4. CASE admit
  <2> DEFINE g == Single({id}, << >>)
             u == [running |-> s.running \union {id}, queue |-> s.queue,
                   groups |-> Append(s.groups, g)]
  <2>1. g \in Group /\ g.members = {id} /\ Disciplined(g) /\ InUse(g)
    BY <1>2, <1>3 DEF Single, Group, Modes, Disciplined, InUse
  <2>2. IsFiniteSet(s.running \union {id}) /\ Cardinality(s.running \union {id}) <= Cap
    <3>1. /\ IsFiniteSet(s.running \union {id})
          /\ \/ Cardinality(s.running \union {id}) = Cardinality(s.running)
             \/ Cardinality(s.running \union {id}) = Cardinality(s.running) + 1
      BY <1>1, FS_AddElement
    <3> QED
      BY <1>1, <1>4, <3>1
  <2> HIDE DEF g
  <2>3. Sound(u)
    BY <1>1, <2>1, <2>2, AppendedSound
  <2>4. LineMoves(u)
    BY DEF LineMoves
  <2> QED
    BY <1>4, <2>3, <2>4 DEF AdmitRequest, g
<1>5. CASE ~admit /\ Len(s.queue) < QueueCap
  <2> DEFINE g == Single({}, <<id>>)
             q == Append(s.queue, id)
             u == [running |-> s.running, queue |-> q, groups |-> Append(s.groups, g)]
  <2>1. /\ g \in Group /\ g.members = {} /\ g.pending = <<id>>
        /\ Disciplined(g) /\ InUse(g)
    BY <1>2, <1>3 DEF Single, Group, Modes, Disciplined, InUse
  <2>2. q \in Seq(Delegations) /\ Elements(q) = Elements(s.queue) \union {id}
    BY <1>1, ElementsAppend
  <2>3. s.running \union {} = s.running /\ Cardinality(s.running) <= Cap
    BY DEF Sound
  <2> HIDE DEF g, q
  <2>4. Sound(u)
    BY <1>1, <1>2, <2>1, <2>2, <2>3, AppendedSound
  <2>5. s.running # {}
    <3>1. CASE WaitingHeadBlocked(s)
      BY <3>1, BlockedMeansBusy
    <3>2. CASE ~(Cardinality(s.running) < Cap)
      <4>1. Cardinality(s.running) # 0
        BY <1>1, <3>2
      <4> QED
        BY <1>3, <4>1
    <3> QED
      BY <1>5, <3>1, <3>2
  <2>6. LineMoves(u)
    BY <2>5 DEF LineMoves
  <2> QED
    BY <1>5, <2>4, <2>6 DEF AdmitRequest, g, q
<1>6. CASE ~admit /\ ~(Len(s.queue) < QueueCap)
  BY <1>6 DEF AdmitRequest
<1> QED
  BY <1>4, <1>5, <1>6

\* The state that enqueueGroup drains or keeps.
LEMMA EnqueuedSound ==
  ASSUME NEW s, Sound(s), NEW mode \in Modes, NEW ids \in Seq(Delegations),
         ~(ids = << >> \/ (mode = "parallel" /\ Len(ids) > Cap))
  PROVE  Sound([running |-> s.running, queue |-> s.queue \o ids,
                groups |-> Append(s.groups, [mode |-> mode, members |-> {}, pending |-> ids])])
<1> USE CapsAssumption
<1> DEFINE g == [mode |-> mode, members |-> {}, pending |-> ids]
           q == s.queue \o ids
<1>1. /\ s.queue \in Seq(Delegations) /\ s.groups \in Seq(Group)
      /\ IsFiniteSet(s.running) /\ Cardinality(s.running) <= Cap
  BY DEF Sound, AdmissionState
<1>2. Cardinality({}) = 0 /\ Len(ids) \in Nat
  BY FS_EmptySet, LenProperties
<1>3. /\ g \in Group /\ g.members = {} /\ g.pending = ids
      /\ Disciplined(g) /\ InUse(g)
  BY <1>2 DEF Group, Modes, Disciplined, InUse
<1>4. q \in Seq(Delegations) /\ Elements(q) \subseteq Elements(s.queue) \union Elements(ids)
  <2> DEFINE r == s.queue
  <2>1. r \in Seq(Delegations)
    BY <1>1
  <2> HIDE DEF r
  <2>2. r \o ids \in Seq(Delegations)
    BY <2>1
  <2>3. Elements(r \o ids) \subseteq Elements(r) \union Elements(ids)
    BY <2>1, ConcatElements
  <2> QED
    BY <2>2, <2>3 DEF r
<1> HIDE DEF g, q
<1>5. s.running \union {} = s.running
  OBVIOUS
<1>6. Sound([running |-> s.running, queue |-> q, groups |-> Append(s.groups, g)])
  BY <1>1, <1>3, <1>4, <1>5, AppendedSound
<1> QED
  BY <1>6 DEF g, q

LEMMA EnqueueSound ==
  ASSUME NEW s, Sound(s), LineMoves(s), NEW mode \in Modes, NEW ids \in Seq(Delegations)
  PROVE  /\ Sound(EnqueueGroup(s, mode, ids).state)
         /\ LineMoves(EnqueueGroup(s, mode, ids).state)
<1> USE CapsAssumption
<1> DEFINE g == [mode |-> mode, members |-> {}, pending |-> ids]
           u == [running |-> s.running, queue |-> s.queue \o ids,
                 groups |-> Append(s.groups, g)]
           bad == ids = << >> \/ (mode = "parallel" /\ Len(ids) > Cap)
           result == EnqueueGroup(s, mode, ids).state
<1>1. /\ s.queue \in Seq(Delegations) /\ s.groups \in Seq(Group)
      /\ IsFiniteSet(s.running) /\ Cardinality(s.running) <= Cap
  BY DEF Sound, AdmissionState
<1>2. /\ bad => result = s
      /\ \/ result = s
         \/ s.groups = << >> /\ result = DrainAdmission(u).state
         \/ s.groups # << >> /\ result = u
  BY Zenon DEF EnqueueGroup
<1> HIDE DEF result
<1>3. CASE bad
  BY <1>2, <1>3 DEF result
<1>4. CASE ~bad
  <2>1. Sound(u)
    BY <1>4, EnqueuedSound
  <2> HIDE DEF g
  <2>2. CASE s.groups = << >> /\ result = DrainAdmission(u).state
    <3> HIDE DEF u
    <3> QED
      BY <2>1, <2>2, DrainSound DEF result
  <2>3. CASE s.groups # << >> /\ result = u
    <3>1. s.running # {}
      <4>1. PICK h \in Elements(s.groups) : InUse(h)
        <5>1. Elements(s.groups) # {}
          <6> DEFINE gs == s.groups
          <6>1. gs \in Seq(Group) /\ gs # << >>
            BY <1>1, <2>3
          <6> HIDE DEF gs
          <6>2. Elements(gs) # {}
            BY <6>1, ElementsOf
          <6> QED
            BY <6>2 DEF gs
        <5> QED
          BY <5>1 DEF Sound
      <4>2. CASE h.members # {}
        BY <4>2 DEF Sound, Busy
      <4>3. CASE h.pending # << >>
        BY <4>3 DEF LineMoves, WaitingGroups, Elements
      <4> QED
        BY <4>1, <4>2, <4>3 DEF InUse
    <3>2. LineMoves(u)
      BY <3>1 DEF LineMoves
    <3> HIDE DEF u
    <3> QED
      BY <2>1, <2>3, <3>2 DEF result
  <2> QED
    BY <1>2, <2>2, <2>3 DEF result
<1> QED
  BY <1>3, <1>4

-----------------------------------------------------------------------------
(***************************************************************************)
(* Orderly states: every delegation is in one place, and the flat queue is *)
(* the line of the groups.                                                 *)
(***************************************************************************)

Orderly(s) ==
  /\ s.queue = FlatPending(s.groups)
  /\ Distinct(s.queue)
  /\ s.running \intersect Elements(s.queue) = {}
  /\ \A i, j \in DOMAIN s.groups :
       i # j => s.groups[i].members \intersect s.groups[j].members = {}

\* The result r of an operation on s that takes `gone` out of the running
\* set and `left` out of the line, and then drains once.
Promotes(s, r, gone, left) ==
  /\ Sound(r.state) /\ LineMoves(r.state) /\ Orderly(r.state)
  /\ r.admitted \in Seq(Delegations) /\ Distinct(r.admitted)
  /\ Elements(r.admitted) \subseteq Elements(s.queue) \ left
  /\ r.state.running = (s.running \ gone) \union Elements(r.admitted)
  /\ Elements(r.state.queue) = (Elements(s.queue) \ left) \ Elements(r.admitted)
  /\ Len(r.state.queue) <= Len(s.queue)
  /\ \A x, y : Before(s.queue, x, y) /\ y \in Elements(r.admitted) => x \notin Elements(r.state.queue)

LEMMA FirstOfLine ==
  ASSUME NEW gs \in Seq(Group), WaitingGroups(gs) # {}
  PROVE  \A i \in 1 .. Len(gs) : i < HeadIndex(gs) => gs[i].pending = << >>
<1>1. WaitingGroups(gs) \in SUBSET Nat
  BY LenProperties DEF WaitingGroups
<1>2. \E i \in WaitingGroups(gs) : \A j \in WaitingGroups(gs) : i <= j
  BY <1>1, NatMinimum
<1>3. HeadIndex(gs) \in WaitingGroups(gs) /\ \A j \in WaitingGroups(gs) : HeadIndex(gs) <= j
  BY <1>2, Zenon DEF HeadIndex
<1> HIDE DEF HeadIndex
<1> SUFFICES ASSUME NEW i \in 1 .. Len(gs), i < HeadIndex(gs), gs[i].pending # << >> PROVE FALSE
  OBVIOUS
<1>4. i \in WaitingGroups(gs)
  BY LenProperties DEF WaitingGroups
<1> QED
  BY <1>1, <1>3, <1>4

\* Leaving the batch out of the head's line leaves what Admitted keeps.
LEMMA BatchIsPrefix ==
  ASSUME NEW g \in Group, g.pending # << >>, Distinct(g.pending)
  PROVE  /\ Admitted(g).pending = Filter(g.pending, Delegations \ Elements(Batch(g)))
         /\ Distinct(Batch(g))
         /\ StartsWith(g.pending, Batch(g))
<1> DEFINE p == g.pending  h == Head(p)  t == Tail(p)
<1>1. g.mode \in Modes /\ p \in Seq(Delegations)
  BY DEF Group
<1>2. CASE g.mode = "serial"
  <2>1. Batch(g) = <<h>> /\ Admitted(g).pending = t
    BY <1>2 DEF Batch, Admitted
  <2>2. h \in Delegations /\ t \in Seq(Delegations) /\ Elements(<<h>>) = {h}
    BY <1>1, HeadTailElements
  <2>3. p = <<h>> \o t
    BY <1>1, HeadTailProperties
  <2> DEFINE e == <<h>>  keep == Delegations \ {h}
  <2>4. e \in Seq(Delegations) /\ p = e \o t /\ Elements(e) = {h} /\ Batch(g) = e
    BY <2>1, <2>2, <2>3
  <2> HIDE DEF p, h, t, e
  <2>5. Distinct(e) /\ Distinct(t) /\ {h} \intersect Elements(t) = {}
    <3>1. Distinct(e \o t)
      BY <2>4 DEF p
    <3> QED
      BY <2>2, <2>4, <3>1, DistinctConcat
  <2>6. Elements(t) \subseteq keep /\ Elements(e) \intersect keep = {}
    BY <2>2, <2>4, <2>5, ElementsOf
  <2> HIDE DEF keep
  <2>7. Filter(e, keep) = << >> /\ Filter(t, keep) = t
    BY <2>2, <2>4, <2>6, FilterNothing, FilterAll
  <2>8. Filter(e \o t, keep) = Filter(e, keep) \o Filter(t, keep)
    BY <2>2, <2>4, FilterConcat
  <2>9. << >> \o t = t
    BY <2>2, ConcatEmptySeq
  <2>10. StartsWith(p, e)
    BY <2>2, <2>4 DEF StartsWith
  <2>11. Filter(p, keep) = t
    BY <2>4, <2>7, <2>8, <2>9
  <2> QED
    BY <2>1, <2>4, <2>5, <2>10, <2>11 DEF p, keep
<1>3. CASE g.mode = "parallel"
  <2>1. Batch(g) = p /\ Admitted(g).pending = << >>
    BY <1>3 DEF Batch, Admitted
  <2> HIDE DEF p
  <2>2. Filter(p, Delegations \ Elements(p)) = << >>
    BY <1>1, FilterNothing
  <2>3. p \o << >> = p /\ << >> \in Seq(Delegations)
    BY <1>1, ConcatEmptySeq
  <2>4. StartsWith(p, p)
    BY <2>3 DEF StartsWith
  <2> QED
    BY <2>1, <2>2, <2>4 DEF p
<1> QED
  BY <1>1, <1>2, <1>3 DEF Modes

\* The elements of the batch are the first of the line.
LEMMA PrefixOfLine ==
  ASSUME NEW p \in Seq(Delegations), NEW s \in Seq(Delegations), StartsWith(s, p), Distinct(s),
         NEW x, NEW y \in Elements(p), Before(s, x, y)
  PROVE  x \in Elements(p)
<1>1. PICK rest \in Seq(Delegations) : s = p \o rest
  BY DEF StartsWith
<1> QED
  BY <1>1, BeforePrefix

LEMMA StartsTransitive ==
  ASSUME NEW p \in Seq(Delegations), NEW q \in Seq(Delegations), NEW s, StartsWith(s, p), StartsWith(p, q)
  PROVE  StartsWith(s, q)
<1>1. PICK rest \in Seq(Delegations) : s = p \o rest
  BY DEF StartsWith
<1>2. StartsWith(p \o rest, q)
  BY <1>1, StartsLonger
<1> QED
  BY <1>1, <1>2

LEMMA AdmitHeadOrderly ==
  ASSUME NEW s, Sound(s), Orderly(s), WaitingGroups(s.groups) # {}, ~WaitingHeadBlocked(s)
  PROVE  LET r == AdmitHead(s, HeadIndex(s.groups))
         IN  /\ Orderly(r.state)
             /\ r.admitted \in Seq(Delegations) /\ Distinct(r.admitted)
             /\ Elements(r.admitted) \subseteq Elements(s.queue)
             /\ r.state.running = s.running \union Elements(r.admitted)
             /\ Elements(r.state.queue) = Elements(s.queue) \ Elements(r.admitted)
             /\ Len(r.state.queue) <= Len(s.queue)
             /\ \A x, y : Before(s.queue, x, y) /\ y \in Elements(r.admitted) => x \in Elements(r.admitted)
<1> DEFINE k     == HeadIndex(s.groups)
           gs    == s.groups
           g     == gs[k]
           batch == Batch(g)
           keep  == Delegations \ Elements(batch)
           r     == AdmitHead(s, k)
           t     == r.state
           q     == s.queue
<1>1. /\ gs \in Seq(Group) /\ s.running \subseteq Delegations /\ IsFiniteSet(s.running)
      /\ q \in Seq(Delegations) /\ s.running = Busy(gs)
  BY DEF Sound, AdmissionState
<1>2. /\ k \in 1 .. Len(gs) /\ g \in Group /\ g \in Elements(gs) /\ g.pending # << >>
      /\ \A i \in 1 .. Len(gs) : i < k => gs[i].pending = << >>
  BY <1>1, HeadOfLine, FirstOfLine
<1>3. ~Stuck(g, s.running)
  BY <1>2 DEF WaitingHeadBlocked
<1>4. /\ q = FlatPending(gs) /\ Distinct(q) /\ s.running \intersect Elements(q) = {}
      /\ \A i, j \in 1 .. Len(gs) : i # j => gs[i].members \intersect gs[j].members = {}
  BY <1>1, LenProperties DEF Orderly
<1>5. /\ r.admitted = batch
      /\ t.running = s.running \union Elements(batch)
      /\ t.queue = Filter(q, keep)
      /\ t.groups = [gs EXCEPT ![k] = Admitted(g)]
  BY DEF AdmitHead
<1> HIDE DEF r, k, q
<1>6. /\ g.pending \in Seq(Delegations) /\ Distinct(g.pending)
      /\ \A i \in 1 .. Len(gs) : i # k => Elements(gs[i].pending) \intersect Elements(g.pending) = {}
      /\ \A i \in 1 .. Len(gs) : gs[i] \in Group
  <2>1. \A i, j \in 1 .. Len(gs) :
           /\ Distinct(gs[i].pending)
           /\ i # j => Elements(gs[i].pending) \intersect Elements(gs[j].pending) = {}
    BY <1>1, <1>4, FlatDistinct
  <2> QED
    BY <1>1, <1>2, <2>1, ElementOfSeq DEF Group
<1> HIDE DEF g
<1>7. /\ batch \in Seq(Delegations) /\ Elements(batch) \subseteq Elements(g.pending)
      /\ Admitted(g).pending = Filter(g.pending, keep)
      /\ Distinct(batch) /\ StartsWith(g.pending, batch)
  BY <1>1, <1>2, <1>3, <1>6, BatchFits, BatchIsPrefix
<1>8. Admitted(g) \in Group /\ Admitted(g).members = g.members \union Elements(batch)
  <2>1. Elements(batch) \subseteq Delegations
    BY <1>7, ElementsOf
  <2>2. /\ Admitted(g).pending \in Seq(Delegations)
    BY <1>6, <1>7, FilterType
  <2>3. /\ g.mode \in Modes /\ g.members \subseteq Delegations
    BY <1>2 DEF Group
  <2>4. Admitted(g) = [mode |-> g.mode, members |-> g.members \union Elements(batch),
                       pending |-> Admitted(g).pending]
    BY DEF Admitted
  <2> QED
    BY <2>1, <2>2, <2>3, <2>4 DEF Group
<1> HIDE DEF batch
<1>9. /\ t.groups \in Seq(Group) /\ Len(t.groups) = Len(gs)
      /\ \A j \in 1 .. Len(gs) : t.groups[j] = IF j = k THEN Admitted(g) ELSE gs[j]
  BY <1>1, <1>2, <1>5, <1>8, ExceptSeq
<1>10. Elements(g.pending) \subseteq Elements(q) /\ StartsWith(q, g.pending)
  <2>1. StartsWith(q, g.pending)
    BY <1>1, <1>2, <1>4, FlatHead DEF g
  <2>2. PICK rest \in Seq(Delegations) : q = g.pending \o rest
    BY <2>1 DEF StartsWith
  <2> QED
    BY <1>6, <2>1, <2>2, ConcatElements
<1>11. t.queue = FlatPending(t.groups)
  <2>1. \A i \in 1 .. Len(gs) : t.groups[i].pending = Filter(gs[i].pending, keep)
    <3> SUFFICES ASSUME NEW i \in 1 .. Len(gs) PROVE t.groups[i].pending = Filter(gs[i].pending, keep)
      OBVIOUS
    <3>1. CASE i = k
      BY <1>7, <1>9, <3>1 DEF g
    <3>2. CASE i # k
      <4>1. t.groups[i] = gs[i] /\ gs[i].pending \in Seq(Delegations)
        BY <1>6, <1>9, <3>2 DEF Group
      <4>2. Elements(gs[i].pending) \subseteq keep
        BY <1>6, <1>7, <3>2, <4>1, ElementsOf
      <4> HIDE DEF keep
      <4> QED
        BY <4>1, <4>2, FilterAll
    <3> QED
      BY <3>1, <3>2
  <2> DEFINE hs == t.groups
  <2>2. hs \in Seq(Group) /\ Len(hs) = Len(gs) /\ t.queue = Filter(FlatPending(gs), keep)
    BY <1>4, <1>5, <1>9
  <2> HIDE DEF hs, keep
  <2>3. FlatPending(hs) = Filter(FlatPending(gs), keep)
    BY <1>1, <2>1, <2>2, FlatFilter DEF hs
  <2> QED
    BY <2>2, <2>3 DEF hs
<1>12. /\ t.queue \in Seq(Delegations) /\ Len(t.queue) <= Len(q) /\ Distinct(t.queue)
       /\ Elements(t.queue) = Elements(q) \ Elements(batch)
  <2>1. /\ t.queue \in Seq(Delegations) /\ Len(t.queue) <= Len(q)
        /\ Elements(t.queue) = Elements(q) \intersect keep
    BY <1>1, <1>5, FilterProperties
  <2>2. Distinct(t.queue)
    BY <1>1, <1>4, <1>5, FilterDistinct
  <2>3. Elements(q) \subseteq Delegations
    BY <1>1, ElementsOf
  <2> QED
    BY <2>1, <2>2, <2>3
<1>14. t.running \intersect Elements(t.queue) = {}
  BY <1>4, <1>5, <1>12
<1>15. ASSUME NEW i \in 1 .. Len(gs), NEW j \in 1 .. Len(gs), i # j
       PROVE  t.groups[i].members \intersect t.groups[j].members = {}
  <2>1. \A n \in 1 .. Len(gs) : gs[n].members \subseteq s.running
    BY <1>1, ElementsOf DEF Busy
  <2>2. \A n \in 1 .. Len(gs) : gs[n].members \intersect Elements(batch) = {}
    BY <1>4, <1>7, <1>10, <2>1
  <2>3. gs[i].members \intersect gs[j].members = {}
    BY <1>4, <1>15
  <2>4. CASE i = k
    BY <1>8, <1>9, <1>15, <2>2, <2>3, <2>4 DEF g
  <2>5. CASE j = k
    BY <1>8, <1>9, <1>15, <2>2, <2>3, <2>5 DEF g
  <2>6. CASE i # k /\ j # k
    BY <1>9, <2>3, <2>6
  <2> QED
    BY <2>4, <2>5, <2>6
<1>16. Orderly(t)
  <2>1. DOMAIN t.groups = 1 .. Len(gs)
    BY <1>9, LenProperties
  <2> QED
    BY <1>11, <1>12, <1>14, <1>15, <2>1, Zenon DEF Orderly
<1>17. ASSUME NEW x, NEW y, Before(q, x, y), y \in Elements(batch) PROVE x \in Elements(batch)
  BY <1>1, <1>4, <1>6, <1>7, <1>10, <1>17, StartsTransitive, PrefixOfLine
<1> QED
  BY <1>5, <1>7, <1>10, <1>12, <1>16, <1>17 DEF r, k, q

LEMMA DrainPromotes ==
  ASSUME NEW s, Sound(s), Orderly(s)
  PROVE  Promotes(s, DrainAdmission(s), {}, {})
<1> DEFINE r == DrainAdmission(s)
<1>1. Sound(r.state) /\ LineMoves(r.state)
  BY DrainSound
<1>2. CASE WaitingGroups(s.groups) = {} \/ WaitingHeadBlocked(s)
  <2>1. r.admitted = << >> /\ r.state = s
    BY <1>2 DEF DrainAdmission
  <2>2. << >> \in Seq(Delegations) /\ Elements(<< >>) = {} /\ Distinct(<< >>)
    BY DEF Elements, Distinct
  <2>3. Len(s.queue) <= Len(s.queue)
    BY LenProperties DEF Sound, AdmissionState
  <2> HIDE DEF r
  <2> QED
    BY <1>1, <2>1, <2>2, <2>3 DEF Promotes, r
<1>3. CASE WaitingGroups(s.groups) # {} /\ ~WaitingHeadBlocked(s)
  <2>1. r = AdmitHead(s, HeadIndex(s.groups))
    BY <1>3 DEF DrainAdmission
  <2> HIDE DEF r
  <2>2. /\ Orderly(r.state)
        /\ r.admitted \in Seq(Delegations) /\ Distinct(r.admitted)
        /\ Elements(r.admitted) \subseteq Elements(s.queue)
        /\ r.state.running = s.running \union Elements(r.admitted)
        /\ Elements(r.state.queue) = Elements(s.queue) \ Elements(r.admitted)
        /\ Len(r.state.queue) <= Len(s.queue)
        /\ \A x, y : Before(s.queue, x, y) /\ y \in Elements(r.admitted) => x \in Elements(r.admitted)
    BY <1>3, <2>1, AdmitHeadOrderly
  <2>3. /\ s.running \ {} = s.running
        /\ Elements(s.queue) \ {} = Elements(s.queue)
    OBVIOUS
  <2>4. ASSUME NEW x, NEW y, Before(s.queue, x, y), y \in Elements(r.admitted) PROVE x \notin Elements(r.state.queue)
    BY <2>2, <2>4
  <2>5. /\ r.state.running = (s.running \ {}) \union Elements(r.admitted)
        /\ Elements(r.state.queue) = (Elements(s.queue) \ {}) \ Elements(r.admitted)
        /\ Elements(r.admitted) \subseteq Elements(s.queue) \ {}
    BY <2>2, <2>3
  <2>6. Promotes(s, r, {}, {})
    BY <1>1, <2>2, <2>4, <2>5 DEF Promotes
  <2> QED
    BY <2>6 DEF r
<1> QED
  BY <1>2, <1>3

\* The groups gs1 are those of s without the members `out`, and with no one
\* waiting but those of `keep`.
Pruning(s, gs1, out, keep) ==
  /\ gs1 \in Seq(Group) /\ Len(gs1) = Len(s.groups)
  /\ \A i \in 1 .. Len(s.groups) :
       gs1[i] = [mode    |-> s.groups[i].mode,
                 members |-> s.groups[i].members \ out,
                 pending |-> Filter(s.groups[i].pending, keep)]

\* The state that a release or a cancellation drains is orderly.
LEMMA PrunedOrderly ==
  ASSUME NEW s, Sound(s), Orderly(s), NEW out, NEW keep, NEW gs1, Pruning(s, gs1, out, keep),
         NEW u, u.groups = Occupied(gs1), u.running = s.running \ out,
         u.queue = Filter(s.queue, keep) \/ u.queue = FlatPending(u.groups)
  PROVE  Orderly(u) /\ u.queue = Filter(s.queue, keep)
<1> DEFINE gs == s.groups  occ == Occupied(gs1)  used == {g \in Elements(gs1) : InUse(g)}  q == s.queue
<1>0. ASSUME NEW i \in 1 .. Len(gs)
      PROVE  gs1[i].pending = Filter(gs[i].pending, keep) /\ gs1[i].members = gs[i].members \ out
  <2>1. gs1[i] = [mode    |-> s.groups[i].mode,
                  members |-> s.groups[i].members \ out,
                  pending |-> Filter(s.groups[i].pending, keep)]
    BY DEF Pruning
  <2> QED
    BY <2>1
<1>1. /\ gs \in Seq(Group) /\ q \in Seq(Delegations)
      /\ gs1 \in Seq(Group) /\ Len(gs1) = Len(gs)
  BY DEF Sound, AdmissionState, Pruning
<1>2. /\ q = FlatPending(gs) /\ Distinct(q) /\ s.running \intersect Elements(q) = {}
      /\ \A i, j \in 1 .. Len(gs) : i # j => gs[i].members \intersect gs[j].members = {}
  BY <1>1, LenProperties DEF Orderly
<1>3. occ = Filter(gs1, used) /\ u.groups = occ
  BY DEF Occupied, InUse
<1> HIDE DEF occ, q
<1>4. FlatPending(occ) = Filter(q, keep)
  <2>1. FlatPending(gs1) = Filter(FlatPending(gs), keep)
    <3>1. \A i \in 1 .. Len(gs) : gs1[i].pending = Filter(gs[i].pending, keep)
      BY <1>0
    <3>2. gs \in Seq(Group) /\ gs1 \in Seq(Group) /\ Len(gs1) = Len(gs)
      BY <1>1
    <3> HIDE DEF gs
    <3> QED
      BY <3>1, <3>2, FlatFilter
  <2>2. \A g \in Elements(gs1) : g \in used \/ g.pending = << >>
    BY DEF InUse
  <2> HIDE DEF used
  <2>3. FlatPending(Filter(gs1, used)) = FlatPending(gs1)
    BY <1>1, <2>2, FlatOfFilter
  <2> QED
    BY <1>2, <1>3, <2>1, <2>3
<1>5. u.queue = Filter(q, keep) /\ u.queue = FlatPending(u.groups)
  BY <1>3, <1>4 DEF q
<1>6. /\ u.queue \in Seq(Delegations) /\ Len(u.queue) <= Len(q)
      /\ Elements(u.queue) = Elements(q) \intersect keep /\ Distinct(u.queue)
  <2> DEFINE f == Filter(q, keep)
  <2>3. /\ f \in Seq(Delegations) /\ Len(f) <= Len(q)
        /\ Elements(f) = Elements(q) \intersect keep
    BY <1>1, FilterProperties
  <2> HIDE DEF f
  <2>1. /\ u.queue \in Seq(Delegations) /\ Len(u.queue) <= Len(q)
        /\ Elements(u.queue) = Elements(q) \intersect keep
    BY <1>5, <2>3 DEF f
  <2>2. Distinct(u.queue)
    BY <1>1, <1>2, <1>5, FilterDistinct
  <2> QED
    BY <2>1, <2>2
<1>8. u.running \intersect Elements(u.queue) = {}
  BY <1>2, <1>6
<1>9. \A x, y : Before(gs1, x, y) => x.members \intersect y.members = {}
  <2> SUFFICES ASSUME NEW x, NEW y, Before(gs1, x, y) PROVE x.members \intersect y.members = {}
    OBVIOUS
  <2>1. PICK i \in 1 .. Len(gs), j \in 1 .. Len(gs) : i < j /\ gs1[i] = x /\ gs1[j] = y
    BY <1>1, LenProperties DEF Before
  <2>2. i # j /\ Len(gs) \in Nat
    BY <1>1, <2>1, LenProperties
  <2>3. x.members = gs[i].members \ out /\ y.members = gs[j].members \ out
    BY <1>0, <2>1
  <2> QED
    BY <1>2, <2>2, <2>3
<1>10. ASSUME NEW i \in DOMAIN occ, NEW j \in DOMAIN occ, i # j
       PROVE  occ[i].members \intersect occ[j].members = {}
  <2>1. occ \in Seq(Group) /\ DOMAIN occ = 1 .. Len(occ) /\ Len(occ) \in Nat
    BY <1>1, <1>3, FilterType, LenProperties
  <2>2. CASE i < j
    <3>1. Before(occ, occ[i], occ[j])
      BY <2>2 DEF Before
    <3>2. Before(gs1, occ[i], occ[j])
      BY <1>1, <1>3, <3>1, FilterOrder
    <3> QED
      BY <1>9, <3>2
  <2>3. CASE j < i
    <3>1. Before(occ, occ[j], occ[i])
      BY <2>3 DEF Before
    <3>2. Before(gs1, occ[j], occ[i])
      BY <1>1, <1>3, <3>1, FilterOrder
    <3> QED
      BY <1>9, <3>2
  <2> QED
    BY <1>10, <2>1, <2>2, <2>3
<1> QED
  BY <1>3, <1>5, <1>6, <1>8, <1>10 DEF Orderly, q

\* What draining a pruned state does, as seen from the state before.
LEMMA PrunedPromotes ==
  ASSUME NEW s, Sound(s), Orderly(s), NEW gone, NEW left, NEW u, Sound(u), Orderly(u),
         u.queue = Filter(s.queue, Delegations \ left), u.running = s.running \ gone
  PROVE  Promotes(s, DrainAdmission(u), gone, left)
<1> DEFINE r == DrainAdmission(u)  keep == Delegations \ left
<1>1. Promotes(u, r, {}, {})
  BY DrainPromotes
<1>2. s.queue \in Seq(Delegations) /\ Elements(s.queue) \subseteq Delegations
  BY ElementsOf DEF Sound, AdmissionState
<1>3. /\ Elements(u.queue) = Elements(s.queue) \ left
      /\ u.queue \in Seq(Delegations) /\ Len(u.queue) <= Len(s.queue)
  <2>1. /\ Elements(u.queue) = Elements(s.queue) \intersect keep
        /\ u.queue \in Seq(Delegations) /\ Len(u.queue) <= Len(s.queue)
    BY <1>2, FilterProperties
  <2> QED
    BY <1>2, <2>1
<1> HIDE DEF r
<1>5. Len(r.state.queue) <= Len(s.queue)
  <2>1. r.state.queue \in Seq(Delegations) /\ Len(r.state.queue) <= Len(u.queue)
    BY <1>1 DEF Promotes, Sound, AdmissionState
  <2>2. Len(r.state.queue) \in Nat /\ Len(s.queue) \in Nat /\ Len(u.queue) \in Nat
    BY <1>2, <1>3, <2>1, LenProperties
  <2> QED
    BY <1>3, <2>1, <2>2
<1>4. ASSUME NEW x, NEW y, Before(s.queue, x, y), y \in Elements(r.admitted) PROVE x \notin Elements(r.state.queue)
  <2>1. CASE x \in left
    BY <1>1, <1>3, <2>1 DEF Promotes
  <2>2. CASE x \notin left
    <3>1. x \in Elements(s.queue)
      BY <1>4 DEF Before, Elements
    <3>2. x \in keep /\ y \in keep
      BY <1>1, <1>2, <1>3, <1>4, <2>2, <3>1 DEF Promotes
    <3>3. Before(u.queue, x, y)
      BY <1>2, <1>4, <3>2, FilterOrder
    <3> QED
      BY <1>1, <1>4, <3>3 DEF Promotes
  <2> QED
    BY <2>1, <2>2
<1> QED
  BY <1>1, <1>3, <1>4, <1>5 DEF Promotes, r

LEMMA ReleasedGroup ==
  ASSUME NEW gs \in Seq(Group), NEW id
  PROVE  \A i \in 1 .. Len(gs) : Released(gs[i], id) \in Group
<1> SUFFICES ASSUME NEW g \in Group PROVE Released(g, id) \in Group
  BY ElementOfSeq
<1>1. g.mode \in Modes /\ g.members \subseteq Delegations /\ g.pending \in Seq(Delegations)
  BY DEF Group
<1>2. Filter(g.pending, Delegations \ {id}) \in Seq(Delegations)
  BY <1>1, FilterType
<1> QED
  BY <1>1, <1>2 DEF Released, Group

LEMMA RemovedGroup ==
  ASSUME NEW gs \in Seq(Group), NEW ids
  PROVE  \A i \in 1 .. Len(gs) : Removed(gs[i], ids) \in Group
<1> SUFFICES ASSUME NEW g \in Group PROVE Removed(g, ids) \in Group
  BY ElementOfSeq
<1>1. g.mode \in Modes /\ g.members \subseteq Delegations /\ g.pending \in Seq(Delegations)
  BY DEF Group
<1>2. Filter(g.pending, Delegations \ ids) \in Seq(Delegations)
  BY <1>1, FilterType
<1> QED
  BY <1>1, <1>2 DEF Removed, Group

\* onSettle's releaseRun: the run leaves, at most one batch is promoted.
LEMMA ReleasePromotes ==
  ASSUME NEW s, Sound(s), Orderly(s), NEW id
  PROVE  Promotes(s, ReleaseRun(s, id), {id}, {id})
<1> DEFINE keep == Delegations \ {id}
           gs1  == [i \in 1 .. Len(s.groups) |-> Released(s.groups[i], id)]
           occ  == Occupied(gs1)
           u    == [running |-> s.running \ {id}, queue |-> FlatPending(occ), groups |-> occ]
<1>1. s.groups \in Seq(Group) /\ s.queue \in Seq(Delegations) /\ s.running \subseteq Delegations
  BY DEF Sound, AdmissionState
<1>2. \A i \in 1 .. Len(s.groups) : gs1[i] \in Group
  BY <1>1, ReleasedGroup
<1>3. gs1 \in Seq(Group) /\ Len(gs1) = Len(s.groups)
  <2>1. Len(s.groups) \in Nat
    BY <1>1, LenProperties
  <2>2. gs1 \in [1 .. Len(s.groups) -> Group]
    BY <1>2
  <2> HIDE DEF gs1
  <2> QED
    BY <2>1, <2>2, FunctionIsSequence
<1>4. \A i \in 1 .. Len(s.groups) :
         gs1[i] = [mode    |-> s.groups[i].mode,
                   members |-> s.groups[i].members \ {id},
                   pending |-> Filter(s.groups[i].pending, keep)]
  BY DEF Released
<1>5. occ \in Seq(Group)
  BY <1>3, OccupiedProperties
<1> HIDE DEF gs1, occ, keep
<1>6. u.groups = occ /\ u.running = s.running \ {id} /\ u.queue = FlatPending(u.groups)
  OBVIOUS
<1>7. ReleaseRun(s, id) = DrainAdmission(u)
  BY DEF ReleaseRun, occ, gs1
<1> HIDE DEF u
<1>8. Orderly(u) /\ u.queue = Filter(s.queue, keep)
  <2>1. u.queue = Filter(s.queue, keep) \/ u.queue = FlatPending(u.groups)
    BY <1>6
  <2>2. u.groups = Occupied(gs1) /\ u.running = s.running \ {id}
    BY <1>6 DEF occ
  <2>3. Pruning(s, gs1, {id}, keep)
    BY <1>3, <1>4 DEF Pruning
  <2> QED
    BY <2>1, <2>2, <2>3, PrunedOrderly
<1>9. Sound(u)
  <2>1. u.queue \in Seq(Delegations)
    BY <1>1, <1>8, FilterType
  <2>2. Elements(u.queue) \subseteq Elements(s.queue) \intersect keep
    BY <1>1, <1>8, FilterProperties
  <2>3. u \in AdmissionState
    BY <1>1, <1>5, <2>1 DEF AdmissionState, u
  <2> QED
    BY <1>3, <1>4, <1>6, <2>2, <2>3, PrunedSound DEF occ
<1> QED
  BY <1>6, <1>7, <1>8, <1>9, PrunedPromotes DEF keep

\* removePending, and abortMany's edit of a whole selection.
LEMMA RemovePromotes ==
  ASSUME NEW s, Sound(s), Orderly(s), NEW ids
  PROVE  Promotes(s, RemovePending(s, ids), {}, ids)
<1> DEFINE keep == Delegations \ ids
           gs1  == [i \in 1 .. Len(s.groups) |-> Removed(s.groups[i], ids)]
           occ  == Occupied(gs1)
           u    == [running |-> s.running, queue |-> Filter(s.queue, keep), groups |-> occ]
<1>1. s.groups \in Seq(Group) /\ s.queue \in Seq(Delegations) /\ s.running \subseteq Delegations
  BY DEF Sound, AdmissionState
<1>2. \A i \in 1 .. Len(s.groups) : gs1[i] \in Group
  BY <1>1, RemovedGroup
<1>3. gs1 \in Seq(Group) /\ Len(gs1) = Len(s.groups)
  <2>1. Len(s.groups) \in Nat
    BY <1>1, LenProperties
  <2>2. gs1 \in [1 .. Len(s.groups) -> Group]
    BY <1>2
  <2> HIDE DEF gs1
  <2> QED
    BY <2>1, <2>2, FunctionIsSequence
<1>4. \A i \in 1 .. Len(s.groups) :
         gs1[i] = [mode    |-> s.groups[i].mode,
                   members |-> s.groups[i].members \ {},
                   pending |-> Filter(s.groups[i].pending, keep)]
  <2>1. \A S : S \ {} = S
    OBVIOUS
  <2> QED
    BY <2>1 DEF Removed
<1>5. occ \in Seq(Group)
  BY <1>3, OccupiedProperties
<1> HIDE DEF gs1, occ, keep
<1>6. u.groups = occ /\ u.running = s.running \ {} /\ u.queue = Filter(s.queue, keep)
  OBVIOUS
<1>7. RemovePending(s, ids) = DrainAdmission(u)
  BY DEF RemovePending, occ, gs1, keep
<1> HIDE DEF u
<1>8. Orderly(u)
  <2>1. u.queue = Filter(s.queue, keep) \/ u.queue = FlatPending(u.groups)
    BY <1>6
  <2>2. u.groups = Occupied(gs1) /\ u.running = s.running \ {}
    BY <1>6 DEF occ
  <2>3. Pruning(s, gs1, {}, keep)
    BY <1>3, <1>4 DEF Pruning
  <2> QED
    BY <2>1, <2>2, <2>3, PrunedOrderly
<1>9. Sound(u)
  <2>1. u.queue \in Seq(Delegations)
    BY <1>1, <1>6, FilterType
  <2>2. Elements(u.queue) \subseteq Elements(s.queue) \intersect keep
    BY <1>1, <1>6, FilterProperties
  <2>3. u \in AdmissionState
    BY <1>1, <1>5, <2>1 DEF AdmissionState, u
  <2> QED
    BY <1>3, <1>4, <1>6, <2>2, <2>3, PrunedSound DEF occ
<1> QED
  BY <1>6, <1>7, <1>8, <1>9, PrunedPromotes DEF keep

\* The flat queue without repetitions is as long as it has elements.
LEMMA DistinctCardinality ==
  ASSUME NEW T, NEW s \in Seq(T), Distinct(s)
  PROVE  Cardinality(Elements(s)) = Len(s)
<1>1. Len(s) \in Nat /\ s \in [1 .. Len(s) -> T] /\ DOMAIN s = 1 .. Len(s)
  BY LenProperties
<1>2. s \in Surjection(1 .. Len(s), Elements(s))
  BY <1>1 DEF Elements, Surjection
<1>3. s \in Injection(1 .. Len(s), Elements(s))
  <2>1. \A i, j \in 1 .. Len(s) : s[i] = s[j] => i = j
    BY <1>1 DEF Distinct
  <2> QED
    BY <1>2, <2>1, Zenon DEF Surjection, Injection, IsInjective
<1>4. IsFiniteSet(1 .. Len(s)) /\ Cardinality(1 .. Len(s)) = Len(s)
  BY <1>1, FS_Interval
<1> QED
  BY <1>2, <1>3, <1>4, FS_Surjection

\* A group of new delegations joins the end of the line.
LEMMA AppendedOrderly ==
  ASSUME NEW s, Sound(s), Orderly(s), NEW g \in Group, Distinct(g.pending),
         g.members \intersect Live(s) = {}, Elements(g.pending) \intersect Live(s) = {},
         g.members \intersect Elements(g.pending) = {},
         NEW u, u.running = s.running \union g.members, u.queue = s.queue \o g.pending,
         u.groups = Append(s.groups, g)
  PROVE  Orderly(u)
<1> DEFINE gs == s.groups  q == s.queue  p == g.pending
<1>1. gs \in Seq(Group) /\ q \in Seq(Delegations) /\ p \in Seq(Delegations)
  BY DEF Sound, AdmissionState, Group
<1>2. /\ q = FlatPending(gs) /\ Distinct(q) /\ s.running \intersect Elements(q) = {}
      /\ \A i, j \in 1 .. Len(gs) : i # j => gs[i].members \intersect gs[j].members = {}
  BY <1>1, LenProperties DEF Orderly
<1>3. u.groups = Append(gs, g) /\ u.queue = q \o p
  OBVIOUS
<1>4. \A i \in 1 .. Len(gs) : gs[i].members \subseteq s.running
  BY <1>1, ElementsOf DEF Sound, Busy
<1> HIDE DEF gs, q, p
<1>5. u.queue = FlatPending(u.groups)
  <2>1. FlatPending(Append(gs, g)) = FlatPending(gs) \o g.pending
    BY <1>1, FlatAppend
  <2> QED
    BY <1>2, <1>3, <2>1 DEF p
<1>6. Elements(u.queue) = Elements(q) \union Elements(p)
  <2>1. Elements(q \o p) = Elements(q) \union Elements(p)
    BY <1>1, ConcatElements
  <2> QED
    BY <1>3, <2>1
<1>7. Distinct(u.queue)
  <2>1. Elements(q) \intersect Elements(p) = {}
    BY DEF Live, q, p
  <2>2. Distinct(q \o p)
    BY <1>1, <1>2, <2>1, DistinctConcat DEF p
  <2> QED
    BY <1>3, <2>2
<1>8. u.running \intersect Elements(u.queue) = {}
  BY <1>2, <1>6 DEF Live, q, p
<1>9. /\ Len(gs) \in Nat /\ DOMAIN Append(gs, g) = 1 .. (Len(gs) + 1)
      /\ \A i \in 1 .. Len(gs) : Append(gs, g)[i] = gs[i]
      /\ Append(gs, g)[Len(gs) + 1] = g
  BY <1>1, LenProperties, AppendProperties
<1>10. ASSUME NEW i \in DOMAIN u.groups, NEW j \in DOMAIN u.groups, i # j
       PROVE  u.groups[i].members \intersect u.groups[j].members = {}
  <2>1. /\ i \in 1 .. Len(gs) \/ i = Len(gs) + 1
        /\ j \in 1 .. Len(gs) \/ j = Len(gs) + 1
    BY <1>3, <1>9, <1>10
  <2>2. \A n \in 1 .. Len(gs) : gs[n].members \intersect g.members = {}
    BY <1>4 DEF Live
  <2>3. CASE i \in 1 .. Len(gs) /\ j \in 1 .. Len(gs)
    BY <1>2, <1>3, <1>9, <1>10, <2>3
  <2>4. CASE i \in 1 .. Len(gs) /\ j = Len(gs) + 1
    BY <1>3, <1>9, <2>2, <2>4
  <2>5. CASE i = Len(gs) + 1 /\ j \in 1 .. Len(gs)
    BY <1>3, <1>9, <2>2, <2>5
  <2> QED
    BY <1>10, <2>1, <2>3, <2>4, <2>5
<1> QED
  BY <1>5, <1>7, <1>8, <1>10 DEF Orderly

\* start: a request takes nobody out of the line.
LEMMA RequestOrderly ==
  ASSUME NEW s, Sound(s), Orderly(s), NEW id \in Delegations \ Live(s)
  PROVE  LET t == AdmitRequest(s, id).state
         IN  /\ Orderly(t)
             /\ t.running \subseteq s.running \union {id}
             /\ Len(s.queue) <= QueueCap => Len(t.queue) <= QueueCap
<1> DEFINE q == s.queue  admit == Cardinality(s.running) < Cap /\ ~WaitingHeadBlocked(s)
<1>1. q \in Seq(Delegations) /\ Len(q) \in Nat
  BY LenProperties DEF Sound, AdmissionState
<1>2. /\ Elements(<< >>) = {} /\ Elements(<<id>>) = {id}
      /\ << >> \in Seq(Delegations) /\ <<id>> \in Seq(Delegations)
      /\ Distinct(<< >>) /\ Distinct(<<id>>)
  BY DEF Elements, Distinct
<1>3. CASE admit
  <2> DEFINE g == Single({id}, << >>)
             u == [running |-> s.running \union {id}, queue |-> s.queue,
                   groups |-> Append(s.groups, g)]
  <2>1. g \in Group /\ g.members = {id} /\ g.pending = << >>
    BY <1>2 DEF Single, Group, Modes
  <2>2. q \o << >> = q
    BY <1>1, ConcatEmptySeq
  <2>3. u.queue = s.queue /\ u.running = s.running \union {id} /\ u.groups = Append(s.groups, g)
    OBVIOUS
  <2>4. AdmitRequest(s, id).state = u
    BY <1>3 DEF AdmitRequest
  <2> HIDE DEF g, u
  <2>5. {id} \intersect Live(s) = {}
    OBVIOUS
  <2>6. /\ Distinct(g.pending) /\ g.members \intersect Live(s) = {}
        /\ Elements(g.pending) \intersect Live(s) = {}
        /\ g.members \intersect Elements(g.pending) = {}
    BY <1>2, <2>1, <2>5
  <2>7. u.running = s.running \union g.members /\ u.queue = s.queue \o g.pending
    BY <2>1, <2>2, <2>3
  <2>8. Orderly(u)
    BY <2>1, <2>3, <2>6, <2>7, AppendedOrderly
  <2> QED
    BY <2>3, <2>4, <2>8
<1>4. CASE ~admit /\ Len(s.queue) < QueueCap
  <2> DEFINE g == Single({}, <<id>>)
             u == [running |-> s.running, queue |-> Append(s.queue, id),
                   groups |-> Append(s.groups, g)]
  <2>1. g \in Group /\ g.members = {} /\ g.pending = <<id>>
    BY <1>2 DEF Single, Group, Modes
  <2>2. q \o <<id>> = Append(q, id) /\ Len(Append(q, id)) = Len(q) + 1
    BY <1>1, AppendIsConcat, AppendProperties
  <2>3. u.queue = Append(q, id) /\ u.running = s.running /\ u.groups = Append(s.groups, g)
    OBVIOUS
  <2>4. AdmitRequest(s, id).state = u
    BY <1>4 DEF AdmitRequest
  <2> HIDE DEF g, u
  <2>5. {id} \intersect Live(s) = {}
    OBVIOUS
  <2>6. /\ Distinct(g.pending) /\ g.members \intersect Live(s) = {}
        /\ Elements(g.pending) \intersect Live(s) = {}
        /\ g.members \intersect Elements(g.pending) = {}
    BY <1>2, <2>1, <2>5
  <2>7. u.running = s.running \union g.members /\ u.queue = s.queue \o g.pending
    BY <2>1, <2>2, <2>3
  <2>8. Orderly(u)
    BY <2>1, <2>3, <2>6, <2>7, AppendedOrderly
  <2>9. Len(u.queue) <= QueueCap
    BY <1>1, <1>4, <2>2, <2>3, CapsAssumption
  <2> QED
    BY <2>3, <2>4, <2>8, <2>9
<1>5. CASE ~admit /\ ~(Len(s.queue) < QueueCap)
  BY <1>5 DEF AdmitRequest
<1> QED
  BY <1>3, <1>4, <1>5

\* enqueueGroup: only an idle system admits, and it has no line.
LEMMA EnqueueOrderly ==
  ASSUME NEW s, Sound(s), Orderly(s), NEW mode \in Modes, NEW ids \in Seq(Delegations),
         Distinct(ids), Elements(ids) \intersect Live(s) = {}
  PROVE  LET t == EnqueueGroup(s, mode, ids).state
         IN  /\ Orderly(t)
             /\ t = s \/ ~(Len(t.queue) > QueueCap)
             /\ s.queue = << >> \/ t.running = s.running
<1> DEFINE g == [mode |-> mode, members |-> {}, pending |-> ids]
           u == [running |-> s.running, queue |-> s.queue \o ids,
                 groups |-> Append(s.groups, g)]
           bad == ids = << >> \/ (mode = "parallel" /\ Len(ids) > Cap)
           result == EnqueueGroup(s, mode, ids).state
<1>1. /\ \/ result = s
         \/ ~bad /\ s.groups = << >> /\ result = DrainAdmission(u).state
         \/ s.groups # << >> /\ result = u
      /\ result = s \/ ~(Len(result.queue) > QueueCap)
  BY Zenon DEF EnqueueGroup
<1>2. /\ g \in Group /\ g.members = {} /\ g.pending = ids
  BY DEF Group, Modes
<1> HIDE DEF result, g
<1>3. Orderly(u)
  <2>1. /\ u.running = s.running \union g.members /\ u.queue = s.queue \o g.pending
        /\ u.groups = Append(s.groups, g)
    BY <1>2
  <2> HIDE DEF u
  <2>2. /\ Distinct(g.pending) /\ g.members \intersect Live(s) = {}
        /\ Elements(g.pending) \intersect Live(s) = {}
        /\ g.members \intersect Elements(g.pending) = {}
    BY <1>2
  <2> QED
    BY <1>2, <2>1, <2>2, AppendedOrderly
<1>4. CASE result = s
  BY <1>4 DEF result
<1>5. CASE s.groups # << >> /\ result = u
  BY <1>1, <1>3, <1>5 DEF result
<1>6. CASE ~bad /\ s.groups = << >> /\ result = DrainAdmission(u).state
  <2>1. Sound(u)
    BY <1>6, EnqueuedSound DEF g
  <2>2. s.queue = << >>
    BY <1>6, FlatNone DEF Orderly
  <2> HIDE DEF u
  <2>3. Promotes(u, DrainAdmission(u), {}, {})
    BY <1>3, <2>1, DrainPromotes
  <2>4. Orderly(result)
    BY <1>6, <2>3 DEF Promotes
  <2> QED
    BY <1>1, <2>2, <2>4 DEF result
<1> QED
  BY <1>1, <1>4, <1>5, <1>6 DEF result

\* Draining changes groups, never their number.
LEMMA DrainKeepsGroups ==
  ASSUME NEW s, Sound(s)
  PROVE  Len(DrainAdmission(s).state.groups) = Len(s.groups)
<1>1. CASE WaitingGroups(s.groups) = {} \/ WaitingHeadBlocked(s)
  BY <1>1 DEF DrainAdmission
<1>2. CASE WaitingGroups(s.groups) # {} /\ ~WaitingHeadBlocked(s)
  <2> DEFINE k == HeadIndex(s.groups)  gs == s.groups  h == Admitted(gs[k])
  <2>1. DrainAdmission(s).state.groups = [gs EXCEPT ![k] = h]
    BY <1>2 DEF DrainAdmission, AdmitHead
  <2>2. gs \in Seq(Group)
    BY DEF Sound, AdmissionState
  <2> HIDE DEF k, gs, h
  <2>3. Len([gs EXCEPT ![k] = h]) = Len(gs)
    BY <2>2, LenProperties
  <2> QED
    BY <2>1, <2>3 DEF gs
<1> QED
  BY <1>1, <1>2

\* enqueueGroup tells the caller which members have a slot; the others wait.
LEMMA EnqueueEffect ==
  ASSUME NEW s, Sound(s), Orderly(s), NEW mode \in Modes, NEW ids \in Seq(Delegations),
         Distinct(ids), Elements(ids) \intersect Live(s) = {},
         EnqueueGroup(s, mode, ids).action # "reject"
  PROVE  LET step == EnqueueGroup(s, mode, ids)
             now  == Elements(step.admittedNow)
         IN  /\ step.admittedNow \in Seq(Delegations) /\ Distinct(step.admittedNow)
             /\ now \subseteq Elements(ids)
             /\ step.state.running = s.running \union now
             /\ Elements(step.state.queue) = Elements(s.queue) \union (Elements(ids) \ now)
<1> DEFINE g == [mode |-> mode, members |-> {}, pending |-> ids]
           u == [running |-> s.running, queue |-> s.queue \o ids,
                 groups |-> Append(s.groups, g)]
           bad == ids = << >> \/ (mode = "parallel" /\ Len(ids) > Cap)
           step == EnqueueGroup(s, mode, ids)
           t == step.state
           gs == t.groups
           keep == Delegations \ Elements(gs[Len(gs)].pending)
<1>1. /\ ~bad
      /\ \/ s.groups = << >> /\ t = DrainAdmission(u).state
         \/ s.groups # << >> /\ t = u
      /\ step.admittedNow = Filter(ids, keep)
  BY Zenon DEF EnqueueGroup
<1>2. g \in Group /\ g.members = {} /\ g.pending = ids
  BY DEF Group, Modes
<1>3. /\ u.running = s.running /\ u.queue = s.queue \o ids /\ u.groups = Append(s.groups, g)
  OBVIOUS
<1>4. Sound(u)
  BY <1>1, EnqueuedSound
<1> HIDE DEF step, bad, g, u
<1>5. s.queue \in Seq(Delegations) /\ s.groups \in Seq(Group)
  BY DEF Sound, AdmissionState
<1>6. Orderly(u)
  <2>1. /\ u.running = s.running \union g.members /\ u.queue = s.queue \o g.pending
    BY <1>2, <1>3
  <2>2. /\ Distinct(g.pending) /\ g.members \intersect Live(s) = {}
        /\ Elements(g.pending) \intersect Live(s) = {}
        /\ g.members \intersect Elements(g.pending) = {}
    BY <1>2
  <2> QED
    BY <1>2, <1>3, <2>1, <2>2, AppendedOrderly
<1>7. Elements(u.queue) = Elements(s.queue) \union Elements(ids)
  <2> DEFINE q == s.queue
  <2>1. q \in Seq(Delegations) /\ u.queue = q \o ids
    BY <1>3, <1>5
  <2> HIDE DEF q
  <2>2. Elements(q \o ids) = Elements(q) \union Elements(ids)
    BY <2>1, ConcatElements
  <2> QED
    BY <2>1, <2>2 DEF q
<1>8. /\ step.admittedNow \in Seq(Delegations) /\ Distinct(step.admittedNow)
      /\ Elements(step.admittedNow) = Elements(ids) \ Elements(gs[Len(gs)].pending)
  <2>1. Elements(ids) \subseteq Delegations
    BY ElementsOf
  <2> HIDE DEF keep
  <2> DEFINE f == Filter(ids, keep)
  <2>2. f \in Seq(Delegations) /\ Elements(f) = Elements(ids) \intersect keep
    BY FilterProperties
  <2>3. Distinct(f)
    BY FilterDistinct
  <2> HIDE DEF f
  <2>4. step.admittedNow = f
    BY <1>1 DEF f
  <2> QED
    BY <2>1, <2>2, <2>3, <2>4 DEF keep
<1>9. CASE s.groups # << >> /\ t = u
  <2>1. gs[Len(gs)] = g
    <3>1. gs = Append(s.groups, g)
      BY <1>3, <1>9
    <3>2. /\ Len(Append(s.groups, g)) = Len(s.groups) + 1
          /\ Append(s.groups, g)[Len(s.groups) + 1] = g
      BY <1>2, <1>5, AppendProperties
    <3> QED
      BY <3>1, <3>2
  <2>2. Elements(step.admittedNow) = {}
    BY <1>2, <1>8, <2>1
  <2> QED
    BY <1>3, <1>7, <1>8, <1>9, <2>2 DEF step
<1>10. CASE s.groups = << >> /\ t = DrainAdmission(u).state
  <2> DEFINE a == Elements(DrainAdmission(u).admitted)
  <2>1. /\ Sound(t) /\ Orderly(t) /\ t.running = s.running \union a
        /\ Elements(t.queue) = Elements(u.queue) \ a /\ a \subseteq Elements(u.queue)
    <3>1. Promotes(u, DrainAdmission(u), {}, {})
      BY <1>4, <1>6, DrainPromotes
    <3>2. u.running \ {} = u.running /\ Elements(u.queue) \ {} = Elements(u.queue)
      OBVIOUS
    <3> QED
      BY <1>3, <1>10, <3>1, <3>2 DEF Promotes
  <2>2. gs \in Seq(Group) /\ Len(gs) = 1
    <3>1. Len(Append(s.groups, g)) = 1
      BY <1>2, <1>10, AppendProperties
    <3>2. Len(gs) = Len(u.groups)
      BY <1>4, <1>10, DrainKeepsGroups
    <3> QED
      BY <1>3, <2>1, <3>1, <3>2 DEF Sound, AdmissionState
  <2>3. Elements(t.queue) = Elements(gs[Len(gs)].pending)
    <3> DEFINE hs == gs
    <3>1. t.queue = FlatPending(hs) /\ hs \in Seq(Group) /\ Len(hs) = 1
      BY <2>1, <2>2 DEF Orderly
    <3> HIDE DEF hs
    <3>2. DOMAIN hs = {1}
      BY <3>1, LenProperties
    <3>3. Elements(FlatPending(hs)) = UNION {Elements(hs[i].pending) : i \in DOMAIN hs}
      BY <3>1, FlatPendingProperties
    <3>4. Elements(t.queue) = Elements(hs[Len(hs)].pending)
      BY <3>1, <3>2, <3>3
    <3> QED
      BY <3>4 DEF hs
  <2>4. Elements(s.queue) = {}
    BY <1>10, FlatNone DEF Orderly, Elements
  <2> HIDE DEF a, gs, keep, t
  <2>5. Elements(step.admittedNow) = a
    BY <1>7, <1>8, <2>1, <2>3, <2>4
  <2> QED
    BY <1>7, <1>8, <2>1, <2>4, <2>5 DEF step, t
<1> QED
  BY <1>1, <1>9, <1>10
=============================================================================
