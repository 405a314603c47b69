--------------------------- MODULE DeliveryProofs ---------------------------
(***************************************************************************)
(* The notes of NoteDelivery: each is handed to pi once, in the order of   *)
(* arrival, in a card that carries its result, for any number of notes,    *)
(* any batch size and any ring that is at least as large as a batch.       *)
(***************************************************************************)
EXTENDS NoteDelivery, SequenceTheorems, WellFoundedInduction, TLAPS

-----------------------------------------------------------------------------
(***************************************************************************)
(* Runs of consecutive notes.                                              *)
(***************************************************************************)

\* The k notes that arrived after the n-th
After(n, k) == [i \in 1 .. k |-> n + i]

LEMMA AfterIsSequence ==
  ASSUME NEW n \in Nat, NEW k \in Nat
  PROVE  /\ After(n, k) \in Seq(Nat)
         /\ Len(After(n, k)) = k
         /\ DOMAIN After(n, k) = 1 .. k
         /\ \A i \in 1 .. k : After(n, k)[i] = n + i
BY DEF After

LEMMA AfterIsNumbers ==
  ASSUME NEW n \in Nat, NEW k \in Nat, NEW m \in Nat, n + k <= m
  PROVE  After(n, k) \in Seq(1 .. m)
<1>1. \A i \in 1 .. k : n + i \in 1 .. m
  OBVIOUS
<1> QED
  BY <1>1 DEF After

LEMMA AfterNone == ASSUME NEW n \in Nat PROVE After(n, 0) = << >>
<1>1. After(n, 0) \in Seq(Nat) /\ Len(After(n, 0)) = 0
  BY AfterIsSequence
<1> QED
  BY <1>1, EmptySeq

LEMMA AfterOne == ASSUME NEW n \in Nat PROVE After(n, 1) = <<n + 1>>
BY DEF After

LEMMA AfterAppend ==
  ASSUME NEW n \in Nat, NEW k \in Nat
  PROVE  Append(After(n, k), n + k + 1) = After(n, k + 1)
<1> DEFINE s == After(n, k)  t == After(n, k + 1)  e == n + k + 1
<1>1. /\ s \in Seq(Nat) /\ Len(s) = k /\ \A i \in 1 .. k : s[i] = n + i
  BY AfterIsSequence
<1>2. /\ t \in Seq(Nat) /\ Len(t) = k + 1 /\ \A i \in 1 .. k + 1 : t[i] = n + i
  <2>1. k + 1 \in Nat
    OBVIOUS
  <2> QED
    BY <2>1, AfterIsSequence
<1>3. e \in Nat /\ e = n + (k + 1)
  OBVIOUS
<1> HIDE DEF s, t, e
<1>4. /\ Append(s, e) \in Seq(Nat) /\ Len(Append(s, e)) = k + 1
      /\ \A i \in 1 .. k : Append(s, e)[i] = s[i]
      /\ Append(s, e)[k + 1] = e
  BY <1>1, <1>3, AppendProperties
<1>5. ASSUME NEW i \in 1 .. k + 1 PROVE Append(s, e)[i] = t[i]
  <2>1. CASE i \in 1 .. k
    BY <1>1, <1>2, <1>4, <2>1
  <2>2. CASE i = k + 1
    BY <1>2, <1>3, <1>4, <2>2
  <2>3. i \in 1 .. k \/ i = k + 1
    OBVIOUS
  <2> QED
    BY <2>1, <2>2, <2>3
<1>6. Append(s, e) = t
  BY <1>2, <1>4, <1>5, SeqEqual
<1> QED
  BY <1>6 DEF s, t, e

LEMMA AfterTail ==
  ASSUME NEW n \in Nat, NEW k \in Nat
  PROVE  Tail(After(n, k + 1)) = After(n + 1, k)
<1> DEFINE s == After(n, k + 1)
<1>1. /\ s \in Seq(Nat) /\ Len(s) = k + 1
      /\ \A i \in 1 .. k + 1 : s[i] = n + i
  BY AfterIsSequence
<1>2. /\ After(n + 1, k) \in Seq(Nat) /\ Len(After(n + 1, k)) = k
      /\ \A i \in 1 .. k : After(n + 1, k)[i] = n + 1 + i
  BY AfterIsSequence
<1> HIDE DEF s
<1>3. s # << >>
  BY <1>1
<1>4. /\ Tail(s) \in Seq(Nat) /\ Len(Tail(s)) = k
      /\ \A i \in 1 .. k : Tail(s)[i] = s[i + 1]
  BY <1>1, <1>3, HeadTailProperties
<1>5. \A i \in 1 .. k : Tail(s)[i] = After(n + 1, k)[i]
  BY <1>1, <1>2, <1>4
<1> QED
  BY <1>2, <1>4, <1>5, SeqEqual DEF s

LEMMA AfterConcat ==
  ASSUME NEW n \in Nat, NEW k \in Nat
  PROVE  After(0, n) \o After(n, k) = After(0, n + k)
<1> DEFINE s == After(0, n)  t == After(n, k)  u == After(0, n + k)
<1>1. /\ s \in Seq(Nat) /\ Len(s) = n /\ \A i \in 1 .. n : s[i] = 0 + i
  BY AfterIsSequence
<1>2. /\ t \in Seq(Nat) /\ Len(t) = k /\ \A i \in 1 .. k : t[i] = n + i
  BY AfterIsSequence
<1>3. /\ u \in Seq(Nat) /\ Len(u) = n + k /\ \A i \in 1 .. n + k : u[i] = 0 + i
  <2>1. 0 \in Nat /\ n + k \in Nat
    OBVIOUS
  <2> QED
    BY <2>1, AfterIsSequence
<1> HIDE DEF s, t, u
<1>4. /\ s \o t \in Seq(Nat) /\ Len(s \o t) = n + k
      /\ \A i \in 1 .. n + k : (s \o t)[i] = IF i <= n THEN s[i] ELSE t[i - n]
  <2>1. /\ s \o t \in Seq(Nat) /\ Len(s \o t) = Len(s) + Len(t)
        /\ \A i \in 1 .. Len(s) + Len(t) : (s \o t)[i] = IF i <= Len(s) THEN s[i] ELSE t[i - Len(s)]
    BY <1>1, <1>2, ConcatProperties
  <2> QED
    BY <1>1, <1>2, <2>1
<1>5. \A i \in 1 .. n + k : (s \o t)[i] = u[i]
  BY <1>1, <1>2, <1>3, <1>4
<1>6. s \o t = u
  BY <1>3, <1>4, <1>5, SeqEqual
<1> QED
  BY <1>6 DEF s, t, u

-----------------------------------------------------------------------------
(***************************************************************************)
(* The notes of the messages.  SentNotes is a recursive function; its      *)
(* value after one more message is found by a minimal counterexample.      *)
(***************************************************************************)

Message == [cards : Seq([note : Numbers, result : BOOLEAN]), taken : BOOLEAN]

NotesOf(message) == [i \in DOMAIN message.cards |-> message.cards[i].note]

\* g satisfies the recursive definition inside SentNotes, for the messages s.
Collects(s, L, g) ==
  g = [n \in 0 .. L |-> IF n = 0 THEN << >> ELSE g[n - 1] \o NotesOf(s[n])]

Collected(s) == (CHOOSE g : Collects(s, Len(s), g))[Len(s)]

LEMMA SentIsCollected == SentNotes = Collected(sent) /\ SentNotes' = Collected(sent')
BY Zenon DEF SentNotes, Collected, Collects, NotesOf

\* A nonempty set of naturals has a least element.
LEMMA LeastNatural ==
  ASSUME NEW T \in SUBSET Nat, T # {}
  PROVE  \E n \in T : \A m \in T : n <= m
<1> DEFINE less == OpToRel(<, Nat)
<1>1. \A m, n \in Nat : m < n => <<m, n>> \in less
  BY SMT DEF OpToRel
<1>2. IsWellFoundedOn(less, Nat)
  BY NatLessThanWellFounded
<1> HIDE DEF less
<1>3. PICK n \in T : \A m \in T : <<m, n>> \notin less
  BY <1>2, WFMin
<1>4. \A m \in T : m \in Nat /\ n \in Nat /\ ~ (m < n)
  BY <1>1, <1>3, Zenon
<1> QED
  BY <1>3, <1>4, SMT

LEMMA CollectsOne ==
  ASSUME NEW s, NEW L \in Nat, NEW g, NEW h, Collects(s, L, g), Collects(s, L, h)
  PROVE  g = h
<1> DEFINE Bad == {n \in 0 .. L : g[n] # h[n]}
<1>1. \A n \in 0 .. L : /\ g[n] = IF n = 0 THEN << >> ELSE g[n - 1] \o NotesOf(s[n])
                        /\ h[n] = IF n = 0 THEN << >> ELSE h[n - 1] \o NotesOf(s[n])
  BY Zenon DEF Collects
<1>2. ASSUME Bad # {} PROVE FALSE
  <2>1. PICK n \in Bad : \A m \in Bad : n <= m
    <3>1. Bad \in SUBSET Nat
      OBVIOUS
    <3> HIDE DEF Bad
    <3> QED
      BY <1>2, <3>1, LeastNatural
  <2>2. n \in 0 .. L /\ n # 0 /\ n - 1 \in 0 .. L
    BY <1>1, <2>1
  <2>3. g[n - 1] = h[n - 1]
    BY <2>1, <2>2
  <2> QED
    BY <1>1, <2>1, <2>2, <2>3
<1>3. g = [n \in 0 .. L |-> g[n]] /\ h = [n \in 0 .. L |-> h[n]]
  <2>1. DOMAIN g = 0 .. L /\ DOMAIN h = 0 .. L
    BY Zenon DEF Collects
  <2>2. \E e : g = [n \in 0 .. L |-> e[n]]
    <3> DEFINE e == [n \in 0 .. L |-> IF n = 0 THEN << >> ELSE g[n - 1] \o NotesOf(s[n])]
    <3>1. g = e
      BY Zenon DEF Collects
    <3>2. e = [n \in 0 .. L |-> e[n]]
      OBVIOUS
    <3> QED
      BY <3>1, <3>2, Zenon
  <2>3. \E e : h = [n \in 0 .. L |-> e[n]]
    <3> DEFINE e == [n \in 0 .. L |-> IF n = 0 THEN << >> ELSE h[n - 1] \o NotesOf(s[n])]
    <3>1. h = e
      BY Zenon DEF Collects
    <3>2. e = [n \in 0 .. L |-> e[n]]
      OBVIOUS
    <3> QED
      BY <3>1, <3>2, Zenon
  <2> QED
    BY <2>2, <2>3
<1> QED
  BY <1>2, <1>3

\* A function that collects L messages extends to one more.
LEMMA CollectsMore ==
  ASSUME NEW s, NEW t, NEW L \in Nat, NEW g, Collects(s, L, g),
         \A n \in 1 .. L : t[n] = s[n]
  PROVE  \E h : Collects(t, L + 1, h) /\ h[L + 1] = g[L] \o NotesOf(t[L + 1])
<1> DEFINE last == g[L] \o NotesOf(t[L + 1])
           h    == [n \in 0 .. L + 1 |-> IF n <= L THEN g[n] ELSE last]
<1>1. \A n \in 0 .. L : g[n] = IF n = 0 THEN << >> ELSE g[n - 1] \o NotesOf(s[n])
  BY Zenon DEF Collects
<1>2. ASSUME NEW n \in 0 .. L + 1
      PROVE  h[n] = IF n = 0 THEN << >> ELSE h[n - 1] \o NotesOf(t[n])
  <2> HIDE DEF last
  <2>1. CASE n = L + 1
    <3>1. h[n] = last /\ h[n - 1] = g[L] /\ n # 0
      BY <2>1
    <3> QED
      BY <2>1, <3>1 DEF last
  <2>2. CASE n \in 0 .. L
    <3>1. h[n] = g[n] /\ (n # 0 => h[n - 1] = g[n - 1] /\ t[n] = s[n])
      BY <2>2
    <3> HIDE DEF h
    <3> QED
      BY <1>1, <2>2, <3>1
  <2> QED
    BY <2>1, <2>2
<1>3. h[L + 1] = last
  <2> HIDE DEF last
  <2>1. L + 1 \in 0 .. L + 1 /\ ~ (L + 1 <= L)
    OBVIOUS
  <2> QED
    BY <2>1
<1>4. h = [n \in 0 .. L + 1 |-> h[n]]
  OBVIOUS
<1> HIDE DEF h, last
<1>5. Collects(t, L + 1, h)
  BY <1>2, <1>4, Zenon DEF Collects
<1> QED
  BY <1>3, <1>5 DEF last

LEMMA CollectsExists ==
  ASSUME NEW s
  PROVE  \A L \in Nat : \E g : Collects(s, L, g)
<1> DEFINE Bad == {L \in Nat : ~ \E g : Collects(s, L, g)}
<1> SUFFICES ASSUME Bad # {} PROVE FALSE
  OBVIOUS
<1>1. PICK L \in Bad : \A m \in Bad : L <= m
  <2>1. Bad \in SUBSET Nat
    OBVIOUS
  <2> HIDE DEF Bad
  <2> QED
    BY <2>1, LeastNatural
<1>2. L # 0
  <2> DEFINE g == [n \in 0 .. 0 |-> << >>]
  <2>1. Collects(s, 0, g)
    BY DEF Collects
  <2> QED
    BY <1>1, <2>1
<1>3. L \in Nat /\ L - 1 \in Nat /\ L - 1 \notin Bad /\ (L - 1) + 1 = L
  BY <1>1, <1>2
<1>4. PICK g : Collects(s, L - 1, g)
  BY <1>3
<1>5. \E h : Collects(s, (L - 1) + 1, h)
  BY <1>3, <1>4, CollectsMore
<1> QED
  BY <1>1, <1>3, <1>5

\* One more message adds its notes to those that went out.
LEMMA CollectedAppend ==
  ASSUME NEW s \in Seq(Message), NEW message \in Message
  PROVE  Collected(Append(s, message)) = Collected(s) \o NotesOf(message)
<1> DEFINE t == Append(s, message)
           L == Len(s)
           g == CHOOSE g : Collects(s, L, g)
           k == CHOOSE k : Collects(t, L + 1, k)
<1>1. L \in Nat /\ Len(t) = L + 1 /\ t[L + 1] = message /\ \A n \in 1 .. L : t[n] = s[n]
  BY AppendProperties, LenProperties
<1> HIDE DEF t, L
<1>2. Collects(s, L, g) /\ Collects(t, L + 1, k)
  <2>1. L + 1 \in Nat
    BY <1>1
  <2> QED
    BY <1>1, <2>1, CollectsExists
<1>3. Collected(t) = k[L + 1] /\ Collected(s) = g[L]
  BY <1>1, Zenon DEF Collected, L
<1> HIDE DEF g, k
<1>4. PICK h : Collects(t, L + 1, h) /\ h[L + 1] = g[L] \o NotesOf(t[L + 1])
  BY <1>1, <1>2, CollectsMore
<1>5. h = k
  <2>1. L + 1 \in Nat
    BY <1>1
  <2> QED
    BY <1>2, <1>4, <2>1, CollectsOne
<1> QED
  BY <1>1, <1>3, <1>4, <1>5 DEF t

LEMMA CollectedNone == Collected(<< >>) = << >>
<1> DEFINE g == CHOOSE g : Collects(<< >>, 0, g)
<1>1. Collects(<< >>, 0, g)
  <2>1. 0 \in Nat
    OBVIOUS
  <2> QED
    BY <2>1, CollectsExists
<1>2. Len(<< >>) = 0 /\ 0 \in 0 .. 0
  OBVIOUS
<1>3. Collected(<< >>) = g[0]
  BY <1>2, Zenon DEF Collected
<1> HIDE DEF g
<1>4. g[0] = << >>
  BY <1>1, <1>2, Zenon DEF Collects
<1> QED
  BY <1>3, <1>4

-----------------------------------------------------------------------------
(***************************************************************************)
(* The inductive invariant: what went out, what is held and what the ring  *)
(* keeps are three runs of arrivals, and the last two end with the newest. *)
(***************************************************************************)

HeldAreNewest ==
  /\ Len(held) <= arrived /\ Len(held) < MaxCards
  /\ held = After(arrived - Len(held), Len(held))
  /\ ~window => held = << >>

\* The results that the ring has kept when n notes have arrived
Newest(results, n) ==
  /\ Len(results) = IF n <= RingSize THEN n ELSE RingSize
  /\ results = After(n - Len(results), Len(results))

Carried(messages) ==
  \A i \in DOMAIN messages : \A j \in DOMAIN messages[i].cards : messages[i].cards[j].result

Sized(messages) == \A i \in DOMAIN messages : Len(messages[i].cards) \in 1 .. MaxCards

IInv ==
  /\ TypeOK
  /\ HeldAreNewest
  /\ Newest(ring, arrived)
  /\ SentNotes = After(0, arrived - Len(held))
  /\ Sized(sent) /\ Carried(sent)

-----------------------------------------------------------------------------
(***************************************************************************)
(* The ring.                                                               *)
(***************************************************************************)

LEMMA RingHasNewest ==
  ASSUME NEW n \in Nat, NEW results, Newest(results, n), NEW note \in 1 .. n, n < note + MaxCards
  PROVE  Cached(note, results)
<1> DEFINE k == Len(results)
<1>1. k \in Nat /\ n - k \in Nat /\ note - (n - k) \in 1 .. k
  BY DeliveryAssumption DEF Newest
<1>2. DOMAIN results = 1 .. k /\ \A i \in 1 .. k : results[i] = (n - k) + i
  <2>1. results = After(n - k, k)
    BY DEF Newest
  <2> HIDE DEF k
  <2> QED
    BY <1>1, <2>1, AfterIsSequence
<1> HIDE DEF k
<1>3. results[note - (n - k)] = note
  BY <1>1, <1>2
<1> QED
  BY <1>1, <1>2, <1>3 DEF Cached

LEMMA RingKeepsNewest ==
  ASSUME arrived \in Nat, Newest(ring, arrived), arrived' = arrived + 1, Put(arrived')
  PROVE  Newest(ring', arrived')
<1> DEFINE n == arrived  k == Len(ring)  grown == Append(ring, arrived')
<1>1. k \in Nat /\ n \in Nat /\ n - k \in Nat /\ k <= RingSize /\ RingSize \in Nat \ {0}
  BY DeliveryAssumption DEF Newest
<1>2. ring = After(n - k, k)
  BY DEF Newest
<1> HIDE DEF k
<1>3. grown = After(n - k, k + 1)
  <2>1. arrived' = (n - k) + k + 1
    BY <1>1
  <2> QED
    BY <1>1, <1>2, <2>1, AfterAppend
<1>4. Len(grown) = k + 1
  <2>1. k + 1 \in Nat
    BY <1>1
  <2> HIDE DEF grown
  <2> QED
    BY <1>1, <1>3, <2>1, AfterIsSequence
<1>5. ring' = IF k + 1 > RingSize THEN Tail(grown) ELSE grown
  BY <1>4 DEF Put
<1> HIDE DEF grown
<1>6. CASE k + 1 > RingSize
  <2>1. ring' = After(n - k + 1, k)
    BY <1>1, <1>3, <1>5, <1>6, AfterTail
  <2>2. Len(ring') = k
    BY <1>1, <2>1, AfterIsSequence
  <2>3. k = RingSize /\ n >= RingSize /\ arrived' - k = n - k + 1
    BY <1>1, <1>6 DEF Newest, k
  <2> QED
    BY <1>1, <2>1, <2>2, <2>3 DEF Newest
<1>7. CASE ~(k + 1 > RingSize)
  <2>1. k = n
    BY <1>1, <1>7 DEF Newest, k
  <2>2. arrived' - (k + 1) = n - k
    BY <1>1
  <2> QED
    BY <1>1, <1>3, <1>4, <1>5, <1>7, <2>1, <2>2 DEF Newest
<1> QED
  BY <1>6, <1>7

-----------------------------------------------------------------------------
(***************************************************************************)
(* Sending.                                                                *)
(***************************************************************************)

\* The k notes after the n-th are sent, when all n before them have been and
\* the ring has all k.
LEMMA SendsNext ==
  ASSUME NEW n \in Nat, NEW k \in 0 .. MaxCards, n + k <= Notes, NEW taken \in BOOLEAN,
         SendCards(After(n, k), taken),
         \A note \in n + 1 .. n + k : Cached(note, ring'),
         sent \in Seq(Message), SentNotes = After(0, n), Sized(sent), Carried(sent)
  PROVE  sent' \in Seq(Message) /\ SentNotes' = After(0, n + k) /\ Sized(sent') /\ Carried(sent')
<1> DEFINE notes == After(n, k)
<1>1. /\ k \in Nat /\ notes \in Seq(Nat) /\ Len(notes) = k /\ DOMAIN notes = 1 .. k
      /\ \A i \in 1 .. k : notes[i] = n + i
  BY DeliveryAssumption, AfterIsSequence
<1>2. CASE k = 0
  <2>1. notes = << >>
    BY <1>2, AfterNone
  <2>2. sent' = sent
    BY <2>1 DEF SendCards
  <2> QED
    BY <1>2, <2>2, SentIsCollected
<1>3. CASE k # 0
  <2> DEFINE cards == [i \in DOMAIN notes |-> [note |-> notes[i], result |-> Cached(notes[i], ring')]]
             message == [cards |-> cards, taken |-> taken]
  <2>1. notes # << >>
    BY <1>1, <1>3
  <2>2. sent' = Append(sent, message)
    BY <2>1 DEF SendCards
  <2> HIDE DEF notes
  <2>3. \A i \in 1 .. k : notes[i] \in Numbers /\ Cached(notes[i], ring') = TRUE
    <3>1. ASSUME NEW i \in 1 .. k PROVE notes[i] \in Numbers /\ Cached(notes[i], ring')
      <4>1. n + i \in n + 1 .. n + k /\ n + i \in 1 .. Notes
        BY <1>1, DeliveryAssumption
      <4> QED
        BY <1>1, <4>1 DEF Numbers
    <3> QED
      BY <3>1
  <2>4. cards = [i \in 1 .. k |-> [note |-> notes[i], result |-> TRUE]]
    BY <1>1, <2>3
  <2> HIDE DEF cards
  <2>5. /\ cards \in Seq([note : Numbers, result : BOOLEAN]) /\ Len(cards) = k
        /\ DOMAIN cards = 1 .. k
        /\ \A i \in 1 .. k : cards[i].note = notes[i] /\ cards[i].result
    BY <1>1, <2>3, <2>4
  <2>6. message \in Message /\ message.cards = cards
    BY <2>5 DEF Message
  <2> HIDE DEF message
  <2>7. NotesOf(message) = notes
    <3>1. NotesOf(message) = [i \in 1 .. k |-> notes[i]]
      BY <2>5, <2>6 DEF NotesOf
    <3> QED
      BY <1>1, <3>1
  <2>8. /\ Len(sent) \in Nat /\ DOMAIN sent = 1 .. Len(sent)
        /\ sent' \in Seq(Message) /\ DOMAIN sent' = 1 .. Len(sent) + 1
        /\ \A i \in 1 .. Len(sent) : sent'[i] = sent[i]
        /\ sent'[Len(sent) + 1] = message
    BY <2>2, <2>6, AppendProperties, LenProperties
  <2>9. SentNotes' = After(0, n + k)
    <3>1. Collected(sent') = After(0, n) \o notes
      BY <2>2, <2>6, <2>7, CollectedAppend, SentIsCollected
    <3> QED
      BY <1>1, <3>1, AfterConcat, SentIsCollected DEF notes
  <2>10. \A i \in DOMAIN sent' : (i \in DOMAIN sent /\ sent'[i] = sent[i]) \/ sent'[i] = message
    BY <2>8
  <2>11. Sized(sent')
    <3>1. Len(message.cards) \in 1 .. MaxCards
      BY <1>3, <2>5, <2>6
    <3> QED
      BY <2>10, <3>1 DEF Sized
  <2>12. Carried(sent')
    BY <2>5, <2>6, <2>10 DEF Carried
  <2> QED
    BY <2>8, <2>9, <2>11, <2>12
<1> QED
  BY <1>2, <1>3

-----------------------------------------------------------------------------
(***************************************************************************)
(* The invariant.                                                          *)
(***************************************************************************)

\* What an action has to show: where it leaves the held notes.
LEMMA Kept ==
  ASSUME window' \in BOOLEAN, ended' \in BOOLEAN, closed' \in BOOLEAN,
         NEW n \in 0 .. Notes, arrived' = n, Newest(ring', n),
         NEW k \in 0 .. n, k < MaxCards, held' = After(n - k, k), window' \/ k = 0,
         sent' \in Seq(Message), SentNotes' = After(0, n - k), Sized(sent'), Carried(sent')
  PROVE  IInv'
<1>1. k \in Nat /\ n - k \in Nat /\ n \in Nat /\ Notes \in Nat /\ n <= Notes /\ (n - k) + k = n
  BY DeliveryAssumption
<1>2. Len(held') = k /\ held' \in Seq(Numbers)
  BY <1>1, AfterIsSequence, AfterIsNumbers DEF Numbers
<1>3. ring' \in Seq(Numbers)
  <2> DEFINE l == Len(ring')
  <2>1. l \in Nat /\ n - l \in Nat /\ (n - l) + l <= Notes /\ ring' = After(n - l, l)
    BY <1>1, DeliveryAssumption DEF Newest
  <2> HIDE DEF l
  <2> QED
    BY <1>1, <2>1, AfterIsNumbers DEF Numbers
<1>4. TypeOK'
  BY <1>2, <1>3 DEF TypeOK, Message
<1>5. HeldAreNewest'
  <2>1. ~window' => held' = << >>
    BY <1>1, <1>2, AfterNone
  <2> QED
    BY <1>1, <1>2, <2>1 DEF HeldAreNewest
<1> QED
  BY <1>2, <1>4, <1>5 DEF IInv

LEMMA InitInv == Init => IInv
<1> SUFFICES ASSUME Init PROVE IInv
  OBVIOUS
<1>1. /\ arrived = 0 /\ held = << >> /\ ring = << >> /\ sent = << >> /\ Len(<< >>) = 0
      /\ After(0, 0) = << >> /\ DOMAIN << >> = {}
  BY AfterNone DEF Init
<1>2. SentNotes = << >>
  BY <1>1, SentIsCollected, CollectedNone
<1>3. TypeOK
  <2>1. 0 \in 0 .. Notes /\ \A T : << >> \in Seq(T)
    BY DeliveryAssumption
  <2> QED
    BY <1>1, <2>1, Zenon DEF Init, TypeOK
<1>4. HeldAreNewest /\ Newest(ring, arrived)
  BY <1>1, DeliveryAssumption DEF HeldAreNewest, Newest
<1>5. Sized(sent) /\ Carried(sent)
  BY <1>1 DEF Sized, Carried
<1> QED
  BY <1>1, <1>2, <1>3, <1>4, <1>5 DEF IInv

\* The facts about the state that each action's proof starts from
LEMMA Facts ==
  ASSUME IInv
  PROVE  /\ arrived \in 0 .. Notes /\ Notes \in Nat /\ MaxCards \in Nat
         /\ Len(held) \in 0 .. arrived /\ Len(held) < MaxCards
         /\ held = After(arrived - Len(held), Len(held))
         /\ window \in BOOLEAN /\ ended \in BOOLEAN /\ closed \in BOOLEAN
         /\ sent \in Seq(Message) /\ SentNotes = After(0, arrived - Len(held))
         /\ Sized(sent) /\ Carried(sent) /\ Newest(ring, arrived)
         /\ held \in Seq(Numbers)
<1>1. Len(held) \in Nat
  BY LenProperties DEF IInv, TypeOK
<1> QED
  BY <1>1, DeliveryAssumption DEF IInv, TypeOK, HeldAreNewest, Message

LEMMA LeadInv == ASSUME IInv, NEW taken \in BOOLEAN, DeliverLead(taken) PROVE IInv'
<1> USE Facts
<1>1. /\ arrived' = arrived + 1 /\ arrived' \in 1 .. Notes /\ Put(arrived')
      /\ window' \in BOOLEAN /\ ended' \in BOOLEAN /\ closed' \in BOOLEAN
      /\ SendCards(<<arrived'>>, taken) /\ held' = << >> /\ Len(held) = 0
  BY DEF DeliverLead, IInv, HeldAreNewest
<1>2. Newest(ring', arrived')
  BY <1>1, RingKeepsNewest
<1>3. Cached(arrived', ring')
  BY <1>1, <1>2, RingHasNewest, DeliveryAssumption
<1>4. <<arrived'>> = After(arrived, 1)
  BY <1>1, AfterOne
<1>5. /\ sent' \in Seq(Message) /\ SentNotes' = After(0, arrived')
      /\ Sized(sent') /\ Carried(sent')
  <2>1. SendCards(After(arrived, 1), taken)
    BY <1>1, <1>4
  <2>2. \A note \in arrived + 1 .. arrived + 1 : Cached(note, ring')
    BY <1>1, <1>3
  <2>3. SentNotes = After(0, arrived)
    BY <1>1
  <2>4. arrived \in Nat /\ 1 \in 0 .. MaxCards /\ arrived + 1 <= Notes
    BY <1>1, DeliveryAssumption
  <2> QED
    BY <1>1, <2>1, <2>2, <2>3, <2>4, SendsNext
<1>6. held' = After(arrived' - 0, 0) /\ arrived' - 0 = arrived'
  BY <1>1, AfterNone
<1>7. 0 \in 0 .. arrived' /\ 0 < MaxCards /\ arrived' \in 0 .. Notes
  BY <1>1, DeliveryAssumption
<1> QED
  BY <1>1, <1>2, <1>5, <1>6, <1>7, Kept

LEMMA HeldInv == ASSUME IInv, NEW taken \in BOOLEAN, DeliverHeld(taken) PROVE IInv'
<1> USE Facts
<1> DEFINE h == Len(held)  k == h + 1  n == arrived - h  holding == Append(held, arrived')
<1>1. /\ arrived' = arrived + 1 /\ arrived' \in 1 .. Notes /\ Put(arrived')
      /\ window /\ window' = window /\ ended' \in BOOLEAN /\ closed' \in BOOLEAN
      /\ \/ Len(holding) >= MaxCards /\ FlushHeldNotes(holding, taken)
         \/ Len(holding) < MaxCards /\ held' = holding /\ sent' = sent
  BY DEF DeliverHeld
<1>2. /\ k \in 1 .. MaxCards /\ n \in Nat /\ n + k = arrived' /\ arrived' = n + h + 1 /\ h \in Nat /\ k \in Nat
      /\ k \in 0 .. arrived' /\ n = arrived' - k /\ arrived' \in 0 .. Notes
  <2>1. /\ h \in Nat /\ h < MaxCards /\ h <= arrived /\ arrived \in Nat /\ MaxCards \in Nat /\ Notes \in Nat
        /\ arrived' = arrived + 1 /\ arrived' <= Notes
    BY <1>1, DeliveryAssumption
  <2> HIDE DEF h
  <2> QED
    BY <2>1
<1>3. holding = After(n, k) /\ Len(holding) = k
  <2>1. held = After(n, h)
    OBVIOUS
  <2> HIDE DEF n, h
  <2>2. Append(After(n, h), n + h + 1) = After(n, h + 1)
    BY <1>2, AfterAppend
  <2>3. holding = After(n, k)
    BY <1>2, <2>1, <2>2
  <2> HIDE DEF holding, k
  <2> QED
    BY <1>2, <2>3, AfterIsSequence
<1>4. Newest(ring', arrived')
  BY <1>1, RingKeepsNewest
<1>5. SentNotes = After(0, n)
  OBVIOUS
<1> HIDE DEF h, k, n, holding
<1>6. CASE Len(holding) >= MaxCards /\ FlushHeldNotes(holding, taken)
  <2>1. held' = << >> /\ SendCards(After(n, k), taken)
    BY <1>3, <1>6 DEF FlushHeldNotes
  <2>2. ASSUME NEW note \in n + 1 .. n + k PROVE Cached(note, ring')
    <3>1. note \in 1 .. arrived' /\ arrived' < note + MaxCards /\ arrived' \in Nat
      BY <1>2
    <3> QED
      BY <1>4, <3>1, RingHasNewest
  <2>3. k \in 0 .. MaxCards /\ n + k <= Notes
    BY <1>2
  <2>4. /\ sent' \in Seq(Message) /\ SentNotes' = After(0, n + k)
        /\ Sized(sent') /\ Carried(sent')
    BY <1>2, <1>5, <2>1, <2>2, <2>3, SendsNext
  <2>5. /\ held' = After(arrived' - 0, 0) /\ SentNotes' = After(0, arrived' - 0)
        /\ 0 \in 0 .. arrived' /\ 0 < MaxCards
    <3>1. arrived' - 0 = arrived' /\ arrived' \in Nat /\ After(arrived', 0) = << >>
      BY <1>2, AfterNone
    <3> QED
      BY <1>2, <2>1, <2>4, <3>1, DeliveryAssumption
  <2> QED
    BY <1>1, <1>2, <1>4, <2>4, <2>5, Kept
<1>7. CASE Len(holding) < MaxCards /\ held' = holding /\ sent' = sent
  <2>1. held' = After(arrived' - k, k) /\ k < MaxCards
    BY <1>2, <1>3, <1>7
  <2>2. SentNotes' = After(0, arrived' - k)
    BY <1>2, <1>5, <1>7, SentIsCollected
  <2>3. sent' \in Seq(Message) /\ Sized(sent') /\ Carried(sent')
    BY <1>7
  <2>4. window' \in BOOLEAN /\ window'
    BY <1>1
  <2> QED
    BY <1>1, <1>2, <1>4, <2>1, <2>2, <2>3, <2>4, Kept
<1> QED
  BY <1>1, <1>6, <1>7

\* The timer and the shutdown send what is held.
LEMMA FlushInv ==
  ASSUME IInv, NEW taken \in BOOLEAN, FlushHeldNotes(held, taken), arrived' = arrived, ring' = ring,
         window' = FALSE, ended' \in BOOLEAN, closed' \in BOOLEAN
  PROVE  IInv'
<1> USE Facts
<1> DEFINE k == Len(held)  n == arrived - Len(held)
<1>1. /\ k \in 0 .. MaxCards /\ n \in Nat /\ n + k = arrived /\ n + k <= Notes /\ arrived \in Nat
      /\ k < MaxCards
  OBVIOUS
<1>2. held' = << >> /\ SendCards(After(n, k), taken) /\ SentNotes = After(0, n)
  BY DEF FlushHeldNotes
<1> HIDE DEF k, n
<1>3. ASSUME NEW note \in n + 1 .. n + k PROVE Cached(note, ring')
  <2>1. note \in 1 .. arrived /\ arrived < note + MaxCards
    BY <1>1
  <2> QED
    BY <1>1, <2>1, RingHasNewest
<1>4. /\ sent' \in Seq(Message) /\ SentNotes' = After(0, n + k)
      /\ Sized(sent') /\ Carried(sent')
  BY <1>1, <1>2, <1>3, SendsNext
<1>5. /\ held' = After(arrived' - 0, 0) /\ SentNotes' = After(0, arrived' - 0)
      /\ 0 \in 0 .. arrived' /\ 0 < MaxCards /\ arrived' \in 0 .. Notes /\ window' \in BOOLEAN
  <2>1. arrived' - 0 = arrived' /\ arrived' = arrived /\ After(arrived, 0) = << >>
    BY <1>1, AfterNone
  <2>2. held' = After(arrived' - 0, 0)
    BY <1>2, <2>1
  <2>3. SentNotes' = After(0, arrived' - 0)
    BY <1>1, <1>4, <2>1
  <2>4. 0 \in 0 .. arrived' /\ 0 < MaxCards /\ arrived' \in 0 .. Notes
    BY <1>1, <2>1
  <2>5. window' \in BOOLEAN
    OBVIOUS
  <2> QED
    BY <2>2, <2>3, <2>4, <2>5, Zenon
<1> QED
  BY <1>4, <1>5, Kept

LEMMA DeliveryInvariant == Spec => []IInv
<1>1. IInv /\ [Next]_vars => IInv'
  <2> SUFFICES ASSUME IInv, [Next]_vars PROVE IInv'
    OBVIOUS
  <2>1. ASSUME NEW taken \in BOOLEAN, WindowExpires(taken) PROVE IInv'
    BY <2>1, FlushInv, Facts DEF WindowExpires
  <2>2. ASSUME NEW taken \in BOOLEAN, SessionShutdown(taken) PROVE IInv'
    BY <2>2, FlushInv, Facts DEF SessionShutdown
  <2>3. CASE UNCHANGED vars
    <3>1. SentNotes' = SentNotes
      BY <2>3, SentIsCollected DEF vars
    <3> QED
      BY <2>3, <3>1 DEF vars, IInv, TypeOK, HeldAreNewest
  <2> QED
    BY <2>1, <2>2, <2>3, LeadInv, HeldInv DEF Next
<1> QED
  BY <1>1, InitInv, PTL DEF Spec

-----------------------------------------------------------------------------
(***************************************************************************)
(* The theorems.                                                           *)
(***************************************************************************)

\* Every value the delivery keeps has its type; no result is filed for a note
\* that has not arrived.
THEOREM DeliveryTyped == Spec => []TypeOK
<1>1. IInv => TypeOK
  BY DEF IInv
<1> QED
  BY <1>1, DeliveryInvariant, PTL

\* T97, for any number of notes and any batch size: each note goes out once,
\* in the order of arrival, or is still held; no message is empty or too
\* large, and no full batch waits.
THEOREM EachNoteGoesOutOnce == Spec => []EachNoteOnceInOrder
<1>1. IInv => EachNoteOnceInOrder
  <2> SUFFICES ASSUME IInv PROVE EachNoteOnceInOrder
    OBVIOUS
  <2>1. SentNotes \o held = After(0, arrived)
    <3> DEFINE k == Len(held)  n == arrived - Len(held)
    <3>1. n \in Nat /\ k \in Nat /\ n + k = arrived /\ held = After(n, k) /\ SentNotes = After(0, n)
      BY Facts
    <3> HIDE DEF n, k
    <3> QED
      BY <3>1, AfterConcat
  <2>2. After(0, arrived) = [i \in 1 .. arrived |-> i]
    <3>1. \A i \in 1 .. arrived : 0 + i = i
      BY Facts
    <3> QED
      BY <3>1 DEF After
  <2> QED
    BY <2>1, <2>2, Facts DEF EachNoteOnceInOrder, Sized
<1> QED
  BY <1>1, DeliveryInvariant, PTL

\* The result of every card is in the ring when the card is sent, whatever
\* the sizes of the batch and of the ring, as long as a batch fits the ring.
THEOREM EveryCardHasItsResult == Spec => []CardsCarryResults
<1>1. IInv => CardsCarryResults
  BY DEF IInv, Carried, CardsCarryResults
<1> QED
  BY <1>1, DeliveryInvariant, PTL
=============================================================================
