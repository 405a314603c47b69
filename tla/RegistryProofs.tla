--------------------------- MODULE RegistryProofs ---------------------------
(***************************************************************************)
(* The safety properties of DelegationRegistry and its implementation of   *)
(* DelegationContract, for any set of delegations, any caps, any group     *)
(* size and any nesting of callbacks.                                      *)
(*                                                                         *)
(* The properties speak of the moments between callbacks; the invariant    *)
(* has to speak of every moment.  It says where each delegation is in its  *)
(* life, and a stage of a life includes the calls about the delegation     *)
(* that are still on the stack: a promotion is a slot, a queued record and *)
(* a "dequeue" to come, an end is a child that is over and a "settle" and  *)
(* a "note" to come.  The stack has a discipline: no call is on it twice,  *)
(* and what an entry has left to do lies below what its callbacks do, so   *)
(* that an entry's own call finds every delegation between stages.  The    *)
(* admission state is sound and orderly, by the lemmas on the admission    *)
(* policy.  When the stack is empty only the stages without calls are      *)
(* left, and those are what the properties say.                            *)
(*                                                                         *)
(* A second invariant, Watched, is about the pending waits; it needs the   *)
(* first one.                                                              *)
(***************************************************************************)
EXTENDS DelegationRegistry, AdmissionLemmas

-----------------------------------------------------------------------------
(***************************************************************************)
(* The call stack.                                                         *)
(***************************************************************************)

Frames == [op : Ops, id : Delegations] \union {Check, Wipe}

\* The calls a running callback makes.  The rest are an entry's own calls.
Top == {"spawn", "dequeue", "attach", "settle", "note"}

\* What an entry still has to do lies below what its callbacks have to do.
Nested(s) == \A x, y : Before(s, x, y) /\ y.op \in Top => x.op \in Top

Stacked(s) == s \in Seq(Frames) /\ Distinct(s) /\ Nested(s)

LEMMA CallEqual ==
  \A o, p, x, y : Call(o, x) = Call(p, y) <=> o = p /\ x = y
BY DEF Call

LEMMA CallOp == /\ \A o, x : Call(o, x).op = o
                /\ Check.op = "check" /\ Wipe.op = "wipe" /\ Check # Wipe
BY DEF Call, Check, Wipe

LEMMA CallFrame == \A o \in Ops, x \in Delegations : Call(o, x) \in Frames
BY DEF Call, Frames

LEMMA FramesOps == Check \in Frames /\ Wipe \in Frames /\ Top \subseteq Ops
BY DEF Frames, Top, Ops

LEMMA ConcatBefore ==
  ASSUME NEW T, NEW p \in Seq(T), NEW q \in Seq(T), NEW x, NEW y, Before(p \o q, x, y)
  PROVE  Before(p, x, y) \/ Before(q, x, y) \/ (x \in Elements(p) /\ y \in Elements(q))
<1> DEFINE s == p \o q  m == Len(p)  n == Len(q)
<1>1. /\ m \in Nat /\ n \in Nat /\ DOMAIN p = 1 .. m /\ DOMAIN q = 1 .. n /\ DOMAIN s = 1 .. m + n
      /\ \A i \in 1 .. m : s[i] = p[i]
      /\ \A i \in 1 .. m + n : i > m => i - m \in 1 .. n /\ s[i] = q[i - m]
  BY ConcatProperties, LenProperties
<1>2. PICK i \in DOMAIN s, j \in DOMAIN s : i < j /\ s[i] = x /\ s[j] = y
  BY DEF Before
<1> HIDE DEF s, m, n
<1>3. i \in 1 .. m + n /\ j \in 1 .. m + n
  BY <1>1
<1>4. CASE j <= m
  <2>1. i \in DOMAIN p /\ j \in DOMAIN p /\ p[i] = x /\ p[j] = y
    BY <1>1, <1>2, <1>3, <1>4
  <2> QED
    BY <1>2, <2>1 DEF Before
<1>5. CASE i > m
  <2>1. i - m \in DOMAIN q /\ j - m \in DOMAIN q /\ q[i - m] = x /\ q[j - m] = y /\ i - m < j - m
    BY <1>1, <1>2, <1>3, <1>5
  <2> QED
    BY <2>1 DEF Before
<1>6. CASE i <= m /\ j > m
  <2>1. i \in DOMAIN p /\ j - m \in DOMAIN q /\ p[i] = x /\ q[j - m] = y
    BY <1>1, <1>2, <1>3, <1>6
  <2> QED
    BY <2>1 DEF Elements
<1> QED
  BY <1>1, <1>3, <1>4, <1>5, <1>6

LEMMA TailBefore ==
  ASSUME NEW T, NEW s \in Seq(T), s # << >>
  PROVE  /\ \A x, y : Before(Tail(s), x, y) => Before(s, x, y)
         /\ \A y \in Elements(s) : y # Head(s) => Before(s, Head(s), y)
         /\ Head(s) \in Elements(s)
<1>1. /\ Len(s) \in Nat \ {0} /\ Len(Tail(s)) = Len(s) - 1 /\ Head(s) = s[1]
      /\ \A i \in 1 .. (Len(s) - 1) : Tail(s)[i] = s[i + 1]
      /\ DOMAIN s = 1 .. Len(s) /\ DOMAIN Tail(s) = 1 .. (Len(s) - 1)
  BY HeadTailProperties, LenProperties
<1>2. ASSUME NEW x, NEW y, Before(Tail(s), x, y) PROVE Before(s, x, y)
  <2>1. PICK i \in DOMAIN Tail(s), j \in DOMAIN Tail(s) : i < j /\ Tail(s)[i] = x /\ Tail(s)[j] = y
    BY <1>2 DEF Before
  <2>2. i + 1 \in DOMAIN s /\ j + 1 \in DOMAIN s /\ i + 1 < j + 1 /\ s[i + 1] = x /\ s[j + 1] = y
    BY <1>1, <2>1
  <2> QED
    BY <2>2 DEF Before
<1>3. ASSUME NEW y \in Elements(s), y # Head(s) PROVE Before(s, Head(s), y)
  <2>1. PICK j \in DOMAIN s : y = s[j]
    BY DEF Elements
  <2>2. 1 \in DOMAIN s /\ 1 < j
    BY <1>1, <1>3, <2>1
  <2> QED
    BY <1>1, <2>1, <2>2 DEF Before
<1>4. Head(s) \in Elements(s)
  BY <1>1 DEF Elements
<1> QED
  BY <1>2, <1>3, <1>4

\* A list on top of a list: nothing of an entry may lie on a callback's call.
LEMMA StackConcat ==
  ASSUME NEW p, Stacked(p), NEW q, Stacked(q), Elements(p) \intersect Elements(q) = {},
         (\A c \in Elements(p) : c.op \in Top) \/ (\A c \in Elements(q) : c.op \notin Top)
  PROVE  Stacked(p \o q) /\ Elements(p \o q) = Elements(p) \union Elements(q)
<1>1. p \in Seq(Frames) /\ q \in Seq(Frames) /\ Distinct(p) /\ Distinct(q)
  BY DEF Stacked
<1>2. p \o q \in Seq(Frames)
  BY <1>1
<1>3. Distinct(p \o q)
  BY <1>1, DistinctConcat
<1>4. Elements(p \o q) = Elements(p) \union Elements(q)
  BY <1>1, ConcatElements
<1>5. Nested(p \o q)
  <2> SUFFICES ASSUME NEW x, NEW y, Before(p \o q, x, y), y.op \in Top PROVE x.op \in Top
    BY DEF Nested
  <2>1. Before(p, x, y) \/ Before(q, x, y) \/ (x \in Elements(p) /\ y \in Elements(q))
    BY <1>1, ConcatBefore
  <2>2. CASE Before(p, x, y) \/ Before(q, x, y)
    BY <2>2 DEF Stacked, Nested
  <2>3. CASE x \in Elements(p) /\ y \in Elements(q)
    BY <2>3
  <2> QED
    BY <2>1, <2>2, <2>3
<1> HIDE DEF Frames
<1> QED
  BY <1>2, <1>3, <1>4, <1>5 DEF Stacked

LEMMA StackTail ==
  ASSUME NEW s, Stacked(s), s # << >>
  PROVE  Stacked(Tail(s)) /\ Elements(Tail(s)) = Elements(s) \ {Head(s)} /\ Head(s) \in Elements(s)
<1>1. s \in Seq(Frames) /\ Distinct(s)
  BY DEF Stacked
<1>2. /\ Len(s) \in Nat \ {0} /\ Len(Tail(s)) = Len(s) - 1 /\ Head(s) = s[1] /\ Tail(s) \in Seq(Frames)
      /\ \A i \in 1 .. (Len(s) - 1) : Tail(s)[i] = s[i + 1]
      /\ DOMAIN s = 1 .. Len(s) /\ DOMAIN Tail(s) = 1 .. (Len(s) - 1)
  BY <1>1, HeadTailProperties, LenProperties
<1>3. Elements(s) = Elements(Tail(s)) \union {Head(s)}
  BY <1>1, HeadTailElements
<1>4. Head(s) \notin Elements(Tail(s))
  BY <1>1, <1>2 DEF Distinct, Elements
<1>5. Distinct(Tail(s))
  <2> SUFFICES ASSUME NEW i \in 1 .. (Len(s) - 1), NEW j \in 1 .. (Len(s) - 1), Tail(s)[i] = Tail(s)[j] PROVE i = j
    BY <1>2 DEF Distinct
  <2>1. i + 1 \in DOMAIN s /\ j + 1 \in DOMAIN s /\ s[i + 1] = s[j + 1]
    BY <1>2
  <2>2. i + 1 = j + 1
    BY <1>1, <2>1 DEF Distinct
  <2> QED
    BY <1>2, <2>2
<1>6. Nested(Tail(s))
  <2>1. \A x, y : Before(Tail(s), x, y) => Before(s, x, y)
    BY <1>1, TailBefore
  <2> QED
    BY <2>1 DEF Nested, Stacked
<1> QED
  BY <1>2, <1>3, <1>4, <1>5, <1>6 DEF Stacked

\* Once an entry's own call is on top, no callback is under way.
LEMMA StackBottom ==
  ASSUME NEW s, Stacked(s), s # << >>, Head(s).op \notin Top
  PROVE  \A c \in Elements(s) : c.op \notin Top
<1>1. \A y \in Elements(s) : y # Head(s) => Before(s, Head(s), y)
  BY TailBefore DEF Stacked
<1> QED
  BY <1>1 DEF Stacked, Nested

LEMMA StackEmpty == Stacked(<< >>) /\ Elements(<< >>) = {}
BY DEF Stacked, Distinct, Nested, Before, Elements

LEMMA StackOne ==
  ASSUME NEW c \in Frames
  PROVE  Stacked(<<c>>) /\ Elements(<<c>>) = {c}
<1>1. <<c>> \in Seq(Frames) /\ DOMAIN <<c>> = {1} /\ <<c>>[1] = c
  OBVIOUS
<1> DEFINE s == <<c>>
<1>2. s \in Seq(Frames) /\ DOMAIN s = {1} /\ s[1] = c
  BY <1>1
<1> HIDE DEF s
<1>3. Stacked(s) /\ Elements(s) = {c}
  BY <1>2 DEF Stacked, Distinct, Nested, Before, Elements
<1> QED
  BY <1>3 DEF s

\* One call per delegation
LEMMA StackCalls ==
  ASSUME NEW o \in Ops, NEW ids \in Seq(Delegations), Distinct(ids)
  PROVE  /\ Stacked(Calls(o, ids))
         /\ Elements(Calls(o, ids)) = {Call(o, id) : id \in Elements(ids)}
<1> DEFINE s == Calls(o, ids)
<1>1. /\ Len(ids) \in Nat /\ DOMAIN ids = 1 .. Len(ids) /\ \A i \in 1 .. Len(ids) : ids[i] \in Delegations
  BY LenProperties, ElementOfSeq
<1>2. s \in [1 .. Len(ids) -> Frames] /\ \A i \in 1 .. Len(ids) : s[i] = Call(o, ids[i])
  BY <1>1, CallFrame DEF Calls
<1> HIDE DEF s
<1>3. s \in Seq(Frames) /\ DOMAIN s = 1 .. Len(ids)
  BY <1>1, <1>2, FunctionIsSequence
<1>4. Distinct(s)
  BY <1>1, <1>2, <1>3, CallEqual DEF Distinct
<1>5. Elements(s) = {Call(o, id) : id \in Elements(ids)}
  BY <1>1, <1>2, <1>3 DEF Elements
<1>6. Nested(s)
  <2>1. \A x, y : Before(s, x, y) => x.op = o /\ y.op = o
    BY <1>2, <1>3, CallOp DEF Before
  <2> QED
    BY <2>1 DEF Nested
<1> QED
  BY <1>3, <1>4, <1>5, <1>6 DEF Stacked, s

-----------------------------------------------------------------------------
(***************************************************************************)
(* The life of a delegation.  A registry that is not stopped has each one  *)
(* in one of eight stages, which say where its record, its request, its    *)
(* child, its receipt, its events, its note, its slot and its place in the *)
(* line stand, and which calls about it are still to be made.              *)
(***************************************************************************)

Pend(id) == {op \in Top : Call(op, id) \in Elements(calls)}

Slot(id) == id \in admission.running
Line(id) == id \in Elements(admission.queue)

None == << >>
Wq == <<"queued">>
Wr == <<"running">>
Wqr == <<"queued", "running">>
Wqo == <<"queued", "over">>
Alive == {None, Wq, Wr, Wqr}
Dead == {<<"over">>, Wqo, <<"running", "over">>, <<"queued", "running", "over">>}

New(id) ==
  /\ records[id] = "absent" /\ id \notin requests /\ child[id] = "unborn" /\ done[id] = "none"
  /\ wire[id] = None /\ notes[id] = 0 /\ ~Slot(id) /\ ~Line(id) /\ Pend(id) = {}

Waiting(id) ==
  /\ records[id] = "queued" /\ id \in requests /\ child[id] = "unborn" /\ done[id] = "pending"
  /\ wire[id] = Wq /\ notes[id] = 0 /\ ~Slot(id) /\ Line(id) /\ Pend(id) = {}

\* A release or a cancellation gave it a slot; its spawn is a call to come.
Promoted(id) ==
  /\ records[id] = "queued" /\ id \in requests /\ child[id] = "unborn" /\ done[id] = "pending"
  /\ wire[id] = Wq /\ notes[id] = 0 /\ Slot(id) /\ ~Line(id) /\ Pend(id) = {"dequeue"}

\* start or enqueueGroup gave it a slot at once.
Accepted(id) ==
  /\ records[id] = "absent" /\ id \notin requests /\ child[id] = "unborn" /\ done[id] = "pending"
  /\ wire[id] = None /\ notes[id] = 0 /\ Slot(id) /\ ~Line(id) /\ Pend(id) = {"spawn"}

\* The child is born and the handle not yet in the records.
Born(id) ==
  /\ records[id] \in {"absent", "queued"} /\ id \notin requests /\ child[id] = "running"
  /\ done[id] = "pending" /\ wire[id] \in {None, Wq} /\ notes[id] = 0
  /\ Slot(id) /\ ~Line(id) /\ Pend(id) = {"attach"}

Runs(id) ==
  /\ records[id] = "handle" /\ id \notin requests /\ child[id] = "running"
  /\ done[id] = "pending" /\ wire[id] \in {Wr, Wqr} /\ notes[id] = 0
  /\ Slot(id) /\ ~Line(id) /\ Pend(id) = {}

\* The child is over; what is still to be done for it is on the stack.
Ends(id) ==
  /\ id \notin requests /\ child[id] = "over" /\ ~Line(id) /\ Pend(id) \subseteq {"attach", "settle", "note"}
  /\ IF "attach" \in Pend(id) THEN records[id] \in {"absent", "queued"} ELSE records[id] = "handle"
  /\ IF "note" \in Pend(id) THEN notes[id] = 0 ELSE notes[id] = 1
  /\ IF "settle" \in Pend(id)
     THEN done[id] = "pending" /\ Slot(id) /\ wire[id] \in Alive
     ELSE done[id] = "resolved" /\ ~Slot(id) /\ wire[id] \in Dead

Cancelled(id) ==
  /\ records[id] = "aborted" /\ id \notin requests /\ child[id] = "unborn" /\ done[id] = "resolved"
  /\ wire[id] = Wqo /\ notes[id] = 1 /\ ~Slot(id) /\ ~Line(id) /\ Pend(id) = {}

Life(id) ==
  \/ New(id) \/ Waiting(id) \/ Promoted(id) \/ Accepted(id)
  \/ Born(id) \/ Runs(id) \/ Ends(id) \/ Cancelled(id)

\* What is on the stack of a registry that is stopped
Late == {"kill", "settle", "note", "check", "wipe"}

\* After shutdown events are no longer emitted, and no child is born.
Closing ==
  /\ \A c \in Elements(calls) : c.op \in Late
  /\ \A id \in Delegations : /\ wire[id] \in Alive \union Dead
                             /\ child[id] = "running" => Slot(id)

AdmissionInv == Sound(admission) /\ LineMoves(admission) /\ Orderly(admission)

IInv ==
  /\ TypeOK
  /\ AdmissionInv
  /\ Stacked(calls)
  /\ Wipe \in Elements(calls) => stopped
  /\ ~stopped => \A id \in Delegations : Life(id)
  /\ stopped => Closing

-----------------------------------------------------------------------------
LEMMA AppendIs ==
  ASSUME NEW T, NEW s \in Seq(T), NEW t \in Seq(T), NEW e \in T, Len(t) = Len(s) + 1,
         \A i \in 1 .. Len(s) : t[i] = s[i], t[Len(s) + 1] = e
  PROVE  Append(s, e) = t
<1>1. /\ Append(s, e) \in Seq(T) /\ Len(Append(s, e)) = Len(s) + 1
      /\ \A i \in 1 .. Len(s) : Append(s, e)[i] = s[i]
      /\ Append(s, e)[Len(s) + 1] = e
  BY AppendProperties
<1>2. Len(s) \in Nat
  BY LenProperties
<1> DEFINE a == Append(s, e)
<1> HIDE DEF a
<1>3. \A i \in 1 .. Len(t) : t[i] = a[i]
  BY <1>1, <1>2 DEF a
<1>4. a \in Seq(T) /\ Len(t) = Len(a)
  BY <1>1 DEF a
<1>5. t = a
  BY <1>3, <1>4, SeqEqual
<1> QED
  BY <1>5 DEF a

LEMMA Wires ==
  /\ Append(None, "queued") = Wq /\ Append(None, "running") = Wr
  /\ Append(Wq, "running") = Wqr /\ Append(Wq, "over") = Wqo
  /\ \A w \in Alive : Append(w, "over") \in Dead
<1>1. \A x : Append(<< >>, x) = <<x>>
  OBVIOUS
<1>2. \A x, y : Append(<<x>>, y) = <<x, y>>
  <2> SUFFICES ASSUME NEW x, NEW y PROVE Append(<<x>>, y) = <<x, y>>
    OBVIOUS
  <2> DEFINE T == {x, y}  s == <<x>>  t == <<x, y>>
  <2>1. s \in Seq(T) /\ t \in Seq(T) /\ y \in T /\ Len(t) = Len(s) + 1
    OBVIOUS
  <2>2. \A i \in 1 .. Len(s) : t[i] = s[i]
    OBVIOUS
  <2>3. t[Len(s) + 1] = y
    OBVIOUS
  <2> HIDE DEF T, s, t
  <2>4. Append(s, y) = t
    BY <2>1, <2>2, <2>3, AppendIs
  <2> QED
    BY <2>4 DEF s, t
<1>3. \A x, y, z : Append(<<x, y>>, z) = <<x, y, z>>
  <2> SUFFICES ASSUME NEW x, NEW y, NEW z PROVE Append(<<x, y>>, z) = <<x, y, z>>
    OBVIOUS
  <2> DEFINE T == {x, y, z}  s == <<x, y>>  t == <<x, y, z>>
  <2>1. s \in Seq(T) /\ t \in Seq(T) /\ z \in T /\ Len(t) = Len(s) + 1
    OBVIOUS
  <2>2. \A i \in 1 .. Len(s) : t[i] = s[i]
    OBVIOUS
  <2>3. t[Len(s) + 1] = z
    OBVIOUS
  <2> HIDE DEF T, s, t
  <2>4. Append(s, z) = t
    BY <2>1, <2>2, <2>3, AppendIs
  <2> QED
    BY <2>4 DEF s, t
<1>4. \A w \in Alive : w = << >> \/ w = <<"queued">> \/ w = <<"running">> \/ w = <<"queued", "running">>
  BY DEF None, Wq, Wr, Wqr, Alive
<1>5. ASSUME NEW w \in Alive PROVE Append(w, "over") \in Dead
  <2>1. CASE w = << >>
    <3>1. Append(w, "over") = <<"over">>
      BY <1>1, <2>1
    <3> QED
      BY <3>1, Zenon DEF Dead
  <2>2. CASE w = <<"queued">>
    <3>1. Append(w, "over") = <<"queued", "over">>
      BY <1>2, <2>2
    <3> QED
      BY <3>1, Zenon DEF Dead, Wqo
  <2>3. CASE w = <<"running">>
    <3>1. Append(w, "over") = <<"running", "over">>
      BY <1>2, <2>3
    <3> QED
      BY <3>1, Zenon DEF Dead
  <2>4. CASE w = <<"queued", "running">>
    <3>1. Append(w, "over") = <<"queued", "running", "over">>
      BY <1>3, <2>4
    <3> QED
      BY <3>1, Zenon DEF Dead
  <2> QED
    BY <1>4, <2>1, <2>2, <2>3, <2>4
<1> QED
  BY <1>1, <1>2, <1>5, Zenon DEF None, Wq, Wr, Wqr, Wqo

\* The delegation id is left alone.
Same(id) ==
  /\ records'[id] = records[id] /\ (id \in requests' <=> id \in requests)
  /\ child'[id] = child[id] /\ done'[id] = done[id] /\ wire'[id] = wire[id] /\ notes'[id] = notes[id]
  /\ Slot(id)' = Slot(id) /\ Line(id)' = Line(id) /\ Pend(id)' = Pend(id)

LEMMA Bystander ==
  ASSUME NEW id, Life(id), Same(id)
  PROVE  Life(id)'
<1> DEFINE P == Pend(id)
<1>1. Same(id)
  OBVIOUS
<1>2. ASSUME New(id) PROVE New(id)'
  BY <1>1, <1>2 DEF Same, New
<1>3. ASSUME Waiting(id) PROVE Waiting(id)'
  BY <1>1, <1>3 DEF Same, Waiting
<1>4. ASSUME Promoted(id) PROVE Promoted(id)'
  BY <1>1, <1>4 DEF Same, Promoted
<1>5. ASSUME Accepted(id) PROVE Accepted(id)'
  BY <1>1, <1>5 DEF Same, Accepted
<1>6. ASSUME Born(id) PROVE Born(id)'
  BY <1>1, <1>6 DEF Same, Born
<1>7. ASSUME Runs(id) PROVE Runs(id)'
  BY <1>1, <1>7 DEF Same, Runs
<1>8. ASSUME Ends(id) PROVE Ends(id)'
  BY <1>1, <1>8 DEF Same, Ends
<1>9. ASSUME Cancelled(id) PROVE Cancelled(id)'
  BY <1>1, <1>9 DEF Same, Cancelled
<1> QED
  BY <1>2, <1>3, <1>4, <1>5, <1>6, <1>7, <1>8, <1>9 DEF Life

\* The call on top is taken off and the calls `made` are put on.
LEMMA Returned ==
  ASSUME Stacked(calls), calls # << >>, NEW made, Stacked(made),
         \A c \in Elements(made) : c.op \in Top /\ c \notin Elements(calls), Return(made)
  PROVE  /\ Stacked(calls')
         /\ Elements(calls') = Elements(made) \union (Elements(calls) \ {Head(calls)})
<1>1. Stacked(Tail(calls)) /\ Elements(Tail(calls)) = Elements(calls) \ {Head(calls)}
  BY StackTail
<1>2. calls' = made \o Tail(calls)
  BY DEF Return
<1> DEFINE rest == Tail(calls)
<1> HIDE DEF rest
<1>3. Elements(made) \intersect Elements(rest) = {}
  BY <1>1 DEF rest
<1>4. Stacked(made \o rest) /\ Elements(made \o rest) = Elements(made) \union Elements(rest)
  BY <1>1, <1>3, StackConcat DEF rest
<1> QED
  BY <1>1, <1>2, <1>4 DEF rest

\* What a step of the stack does to the pending calls of a delegation
LEMMA PendingCalls ==
  ASSUME NEW made, NEW o, NEW x, NEW id,
         Elements(calls') = made \union (Elements(calls) \ {Call(o, x)})
  PROVE  Pend(id)' = {op \in Top : Call(op, id) \in made}
                        \union (IF id = x THEN Pend(id) \ {o} ELSE Pend(id))
<1>1. \A op : Call(op, id) \in Elements(calls')
                <=> Call(op, id) \in made \/ (Call(op, id) \in Elements(calls) /\ ~(op = o /\ id = x))
  BY CallEqual
<1> QED
  BY <1>1 DEF Pend

LEMMA EmittedIs ==
  ASSUME TypeOK, NEW ids, NEW state \in {"queued", "running", "over"}
  PROVE  /\ Emitted(ids, state) \in [Delegations -> Seq({"queued", "running", "over"})]
         /\ \A x \in Delegations :
              Emitted(ids, state)[x] = IF x \in ids /\ ~stopped' THEN Append(wire[x], state) ELSE wire[x]
<1> DEFINE States == {"queued", "running", "over"}
<1>1. wire \in [Delegations -> Seq(States)]
  BY DEF TypeOK
<1> HIDE DEF States
<1>2. ASSUME NEW x \in Delegations, state \in States PROVE Append(wire[x], state) \in Seq(States) /\ wire[x] \in Seq(States)
  BY <1>1, <1>2
<1>3. state \in States
  BY DEF States
<1>4. Emitted(ids, state) \in [Delegations -> Seq(States)]
  BY <1>2, <1>3 DEF Emitted
<1> QED
  BY <1>4 DEF Emitted, States

LEMMA NotifiedIs ==
  ASSUME TypeOK, NEW ids
  PROVE  /\ Notified(ids) \in [Delegations -> Nat]
         /\ \A x \in Delegations : Notified(ids)[x] = IF x \in ids /\ ~stopped' THEN notes[x] + 1 ELSE notes[x]
<1>1. \A x \in Delegations : notes[x] \in Nat
  BY DEF TypeOK
<1> QED
  BY <1>1 DEF Notified

LEMMA StackTwo ==
  ASSUME NEW x \in Delegations
  PROVE  LET s == <<Call("settle", x), Call("note", x)>>
         IN  Stacked(s) /\ Elements(s) = {Call("settle", x), Call("note", x)}
<1> DEFINE a == Call("settle", x)  b == Call("note", x)  s == <<a, b>>
<1>1. a \in Frames /\ b \in Frames /\ a # b /\ a.op \in Top /\ b.op \in Top
  BY CallFrame, CallOp, CallEqual DEF Ops, Top
<1> HIDE DEF a, b
<1>2. s \in Seq(Frames) /\ DOMAIN s = {1, 2} /\ s[1] = a /\ s[2] = b
  BY <1>1
<1> HIDE DEF s
<1>3. Distinct(s)
  BY <1>1, <1>2 DEF Distinct
<1>4. Elements(s) = {a, b}
  BY <1>2 DEF Elements
<1>5. Nested(s)
  BY <1>1, <1>2 DEF Nested, Before
<1> QED
  BY <1>2, <1>3, <1>4, <1>5 DEF Stacked, s, a, b

LEMMA StackThree ==
  ASSUME NEW x \in Delegations
  PROVE  LET s == <<Call("settle", x), Call("note", x), Call("attach", x)>>
         IN  Stacked(s) /\ Elements(s) = {Call("settle", x), Call("note", x), Call("attach", x)}
<1> DEFINE a == Call("settle", x)  b == Call("note", x)  c == Call("attach", x)  s == <<a, b, c>>
<1>1. /\ a \in Frames /\ b \in Frames /\ c \in Frames /\ a # b /\ a # c /\ b # c
      /\ a.op \in Top /\ b.op \in Top /\ c.op \in Top
  BY CallFrame, CallOp, CallEqual DEF Ops, Top
<1> HIDE DEF a, b, c
<1>2. s \in Seq(Frames) /\ DOMAIN s = {1, 2, 3} /\ s[1] = a /\ s[2] = b /\ s[3] = c
  BY <1>1
<1> HIDE DEF s
<1>3. Distinct(s)
  BY <1>1, <1>2 DEF Distinct
<1>4. Elements(s) = {a, b, c}
  BY <1>2 DEF Elements
<1>5. Nested(s)
  BY <1>1, <1>2 DEF Nested, Before
<1> QED
  BY <1>2, <1>3, <1>4, <1>5 DEF Stacked, s, a, b, c

\* Which stage a delegation is in
LEMMA Stages ==
  ASSUME NEW id, Life(id)
  PROVE  /\ done[id] = "none" => New(id)
         /\ Line(id) => Waiting(id)
         /\ "spawn" \in Pend(id) => Accepted(id)
         /\ "dequeue" \in Pend(id) => Promoted(id)
         /\ "attach" \in Pend(id) => Born(id) \/ Ends(id)
         /\ "settle" \in Pend(id) \/ "note" \in Pend(id) => Ends(id)
         /\ records[id] = "queued" /\ Pend(id) = {} => Waiting(id)
         /\ child[id] = "running" => Slot(id) /\ (Born(id) \/ Runs(id))
         /\ child[id] = "running" /\ Pend(id) = {} => Runs(id)
         /\ wire[id] \in Alive \union Dead
<1> DEFINE P == Pend(id)
<1>1. wire[id] \in Alive \union Dead
  BY DEF Life, New, Waiting, Promoted, Accepted, Born, Runs, Ends, Cancelled, Alive, Dead
<1>2. done[id] = "none" => New(id)
  BY DEF Life, New, Waiting, Promoted, Accepted, Born, Runs, Ends, Cancelled
<1>3. Line(id) => Waiting(id)
  BY DEF Life, New, Waiting, Promoted, Accepted, Born, Runs, Ends, Cancelled
<1>4. "spawn" \in Pend(id) => Accepted(id)
  BY DEF Life, New, Waiting, Promoted, Accepted, Born, Runs, Ends, Cancelled
<1>5. "dequeue" \in Pend(id) => Promoted(id)
  BY DEF Life, New, Waiting, Promoted, Accepted, Born, Runs, Ends, Cancelled
<1>6. "attach" \in Pend(id) => Born(id) \/ Ends(id)
  BY DEF Life, New, Waiting, Promoted, Accepted, Born, Runs, Ends, Cancelled
<1>7. "settle" \in Pend(id) \/ "note" \in Pend(id) => Ends(id)
  BY DEF Life, New, Waiting, Promoted, Accepted, Born, Runs, Ends, Cancelled
<1>8. records[id] = "queued" /\ Pend(id) = {} => Waiting(id)
  BY DEF Life, New, Waiting, Promoted, Accepted, Born, Runs, Ends, Cancelled
<1>9. child[id] = "running" => Slot(id) /\ (Born(id) \/ Runs(id))
  BY DEF Life, New, Waiting, Promoted, Accepted, Born, Runs, Ends, Cancelled
<1>10. child[id] = "running" /\ Pend(id) = {} => Runs(id)
  BY DEF Life, New, Waiting, Promoted, Accepted, Born, Runs, Ends, Cancelled
<1> QED
  BY <1>1, <1>2, <1>3, <1>4, <1>5, <1>6, <1>7, <1>8, <1>9, <1>10

\* A step of a callback: the call on top is made and replaced by `made`.
LEMMA CallbackStep ==
  ASSUME IInv, NEW x \in Delegations, NEW o \in Top, Run(o, x), NEW made, Stacked(made),
         \A c \in Elements(made) : c.op \in Top /\ c \notin Elements(calls), Return(made), stopped' = stopped
  PROVE  /\ Stacked(calls')
         /\ Elements(calls') = Elements(made) \union (Elements(calls) \ {Call(o, x)})
         /\ Wipe \in Elements(calls') => stopped'
         /\ o \in Pend(x)
         /\ \A id : Pend(id)' = {op \in Top : Call(op, id) \in Elements(made)}
                                   \union (IF id = x THEN Pend(id) \ {o} ELSE Pend(id))
<1>1. calls # << >> /\ Head(calls) = Call(o, x) /\ Stacked(calls)
  BY DEF Run, IInv
<1>2. /\ Stacked(calls')
      /\ Elements(calls') = Elements(made) \union (Elements(calls) \ {Call(o, x)})
  BY <1>1, Returned
<1>3. Wipe \notin Elements(made)
  BY CallOp DEF Top
<1>4. Wipe \in Elements(calls') => stopped'
  BY <1>2, <1>3 DEF IInv
<1>5. o \in Pend(x)
  BY <1>1, StackTail DEF Pend
<1>6. \A id : Pend(id)' = {op \in Top : Call(op, id) \in Elements(made)}
                            \union (IF id = x THEN Pend(id) \ {o} ELSE Pend(id))
  BY <1>2, PendingCalls
<1> QED
  BY <1>2, <1>4, <1>5, <1>6

\* A step of an entry: no callback is under way.
LEMMA EntryStep ==
  ASSUME IInv, calls # << >>, Head(calls).op \notin Top, NEW made, Stacked(made),
         \A c \in Elements(made) : c.op \in Top, Return(made), stopped' = stopped
  PROVE  /\ Stacked(calls')
         /\ Elements(calls') = Elements(made) \union (Elements(calls) \ {Head(calls)})
         /\ Wipe \in Elements(calls') => stopped'
         /\ \A id : Pend(id) = {} /\ Pend(id)' = {op \in Top : Call(op, id) \in Elements(made)}
<1>1. \A c \in Elements(calls) : c.op \notin Top
  BY StackBottom DEF IInv
<1>2. /\ Stacked(calls')
      /\ Elements(calls') = Elements(made) \union (Elements(calls) \ {Head(calls)})
  BY <1>1, Returned DEF IInv
<1>3. Wipe \in Elements(calls') => stopped'
  BY <1>2, CallOp DEF IInv, Top
<1>4. \A id : Pend(id) = {}
  BY <1>1, CallOp DEF Pend
<1>5. \A id : Pend(id)' = {op \in Top : Call(op, id) \in Elements(made)}
  BY <1>1, <1>2, CallOp DEF Pend
<1> QED
  BY <1>2, <1>3, <1>4, <1>5

\* An entry: the stack was empty.
LEMMA EntryPending ==
  ASSUME calls = << >>
  PROVE  \A id : Pend(id) = {}
BY StackEmpty DEF Pend

LEMMA NotStopped ==
  ASSUME IInv, calls # << >>, Head(calls).op \notin Late
  PROVE  ~stopped
BY StackTail DEF IInv, Closing

\* The parts of the type invariant that a step changes
LEMMA TypeStep ==
  ASSUME TypeOK, Sound(admission'), Stacked(calls'),
         records' \in [Delegations -> {"absent", "queued", "aborted", "handle"}],
         requests' \subseteq Delegations,
         child' \in [Delegations -> {"unborn", "running", "over"}],
         done' \in [Delegations -> {"none", "pending", "resolved"}],
         wire' \in [Delegations -> Seq({"queued", "running", "over"})],
         notes' \in [Delegations -> Nat],
         waits' \subseteq [ids : WaitSets, timed : BOOLEAN],
         stopped' \in BOOLEAN
  PROVE  TypeOK'
BY DEF TypeOK, Sound, Stacked, Frames

-----------------------------------------------------------------------------
(***************************************************************************)
(* The calls.                                                              *)
(***************************************************************************)

LEMMA SpawnNowKeeps ==
  ASSUME IInv, NEW x \in Delegations, NEW o \in {"spawn", "dequeue"}, Run(o, x), SpawnNow(x),
         requests' = requests \ {x},
         UNCHANGED <<admission, records, done, wire, notes, waits, stopped>>
  PROVE  IInv'
<1>1. ~stopped
  BY NotStopped, CallOp DEF Run, Late
<1>2. o \in Top /\ (\A id \in Delegations : Life(id)) /\ TypeOK /\ AdmissionInv
  BY <1>1 DEF IInv, Top
<1>3. o \in Pend(x)
  BY StackTail DEF Run, IInv, Pend, Top
<1>4. /\ records[x] \in {"absent", "queued"} /\ child[x] = "unborn" /\ done[x] = "pending"
      /\ wire[x] \in {None, Wq} /\ notes[x] = 0 /\ Slot(x) /\ ~Line(x) /\ Pend(x) = {o}
  <2>1. Accepted(x) \/ Promoted(x)
    BY <1>2, <1>3, Stages
  <2> QED
    BY <1>3, <2>1 DEF Accepted, Promoted
<1>5. /\ AdmissionInv' /\ Slot(x)' = Slot(x) /\ Line(x)' = Line(x)
      /\ \A id : Slot(id)' = Slot(id) /\ Line(id)' = Line(id)
  BY <1>2 DEF AdmissionInv, Slot, Line
<1>6. \A op \in Top : op # o => Call(op, x) \notin Elements(calls)
  BY <1>4 DEF Pend
<1>7. CASE child' = [child EXCEPT ![x] = "running"] /\ Return(<<Call("attach", x)>>)
  <2> DEFINE made == <<Call("attach", x)>>
  <2>1. Stacked(made) /\ Elements(made) = {Call("attach", x)}
    BY StackOne, CallFrame DEF Ops
  <2>2. \A c \in Elements(made) : c.op \in Top /\ c \notin Elements(calls)
    BY <1>6, <2>1, CallOp DEF Top
  <2>3. Return(made)
    BY <1>7
  <2> HIDE DEF made
  <2>4. /\ Stacked(calls') /\ (Wipe \in Elements(calls') => stopped')
        /\ \A id : Pend(id)' = {op \in Top : Call(op, id) \in Elements(made)}
                                 \union (IF id = x THEN Pend(id) \ {o} ELSE Pend(id))
    BY <1>2, <2>1, <2>2, <2>3, CallbackStep
  <2>5. \A id : {op \in Top : Call(op, id) \in Elements(made)} = IF id = x THEN {"attach"} ELSE {}
    BY <2>1, CallEqual DEF Top
  <2>6. \A id : Pend(id)' = IF id = x THEN {"attach"} ELSE Pend(id)
    BY <1>4, <2>4, <2>5
  <2>7. child'[x] = "running" /\ \A id \in Delegations : id # x => child'[id] = child[id]
    BY <1>2, <1>7 DEF TypeOK
  <2>8. Life(x)'
    <3>1. Born(x)'
      BY <1>4, <1>5, <2>6, <2>7 DEF Born
    <3> QED
      BY <3>1 DEF Life
  <2>9. ASSUME NEW id \in Delegations, id # x PROVE Life(id)'
    <3>1. Same(id)
      BY <1>5, <2>6, <2>7, <2>9 DEF Same
    <3> QED
      BY <1>2, <3>1, Bystander
  <2>10. TypeOK'
    <3>1. child' \in [Delegations -> {"unborn", "running", "over"}]
      BY <1>2, <1>7 DEF TypeOK
    <3> QED
      BY <1>2, <1>5, <2>4, <3>1, TypeStep DEF TypeOK, AdmissionInv
  <2> QED
    BY <1>1, <1>5, <2>4, <2>8, <2>9, <2>10 DEF IInv
<1>8. CASE /\ child' = [child EXCEPT ![x] = "over"]
           /\ Return(<<Call("settle", x), Call("note", x), Call("attach", x)>>)
  <2> DEFINE made == <<Call("settle", x), Call("note", x), Call("attach", x)>>
  <2>1. Stacked(made) /\ Elements(made) = {Call("settle", x), Call("note", x), Call("attach", x)}
    BY StackThree
  <2>2. \A c \in Elements(made) : c.op \in Top /\ c \notin Elements(calls)
    BY <1>6, <2>1, CallOp DEF Top
  <2>3. Return(made)
    BY <1>8
  <2> HIDE DEF made
  <2>4. /\ Stacked(calls') /\ (Wipe \in Elements(calls') => stopped')
        /\ \A id : Pend(id)' = {op \in Top : Call(op, id) \in Elements(made)}
                                 \union (IF id = x THEN Pend(id) \ {o} ELSE Pend(id))
    BY <1>2, <2>1, <2>2, <2>3, CallbackStep
  <2>5. \A id : {op \in Top : Call(op, id) \in Elements(made)} = IF id = x THEN {"attach", "settle", "note"} ELSE {}
    BY <2>1, CallEqual DEF Top
  <2>6. \A id : Pend(id)' = IF id = x THEN {"attach", "settle", "note"} ELSE Pend(id)
    BY <1>4, <2>4, <2>5
  <2>7. child'[x] = "over" /\ \A id \in Delegations : id # x => child'[id] = child[id]
    BY <1>2, <1>8 DEF TypeOK
  <2>8. Life(x)'
    <3>1. wire[x] \in Alive
      BY <1>4 DEF Alive
    <3>2. Ends(x)'
      BY <1>4, <1>5, <2>6, <2>7, <3>1 DEF Ends
    <3> QED
      BY <3>2 DEF Life
  <2>9. ASSUME NEW id \in Delegations, id # x PROVE Life(id)'
    <3>1. Same(id)
      BY <1>5, <2>6, <2>7, <2>9 DEF Same
    <3> QED
      BY <1>2, <3>1, Bystander
  <2>10. TypeOK'
    <3>1. child' \in [Delegations -> {"unborn", "running", "over"}]
      BY <1>2, <1>8 DEF TypeOK
    <3> QED
      BY <1>2, <1>5, <2>4, <3>1, TypeStep DEF TypeOK, AdmissionInv
  <2> QED
    BY <1>1, <1>5, <2>4, <2>8, <2>9, <2>10 DEF IInv
<1> QED
  BY <1>7, <1>8 DEF SpawnNow

LEMMA SpawnKeeps ==
  ASSUME IInv, NEW x \in Delegations, Spawn(x)
  PROVE  IInv'
<1>1. ~stopped
  BY NotStopped, CallOp DEF Spawn, Run, Late
<1>2. "spawn" \in Pend(x)
  BY StackTail DEF Spawn, Run, IInv, Pend, Top
<1>3. Accepted(x)
  BY <1>1, <1>2, Stages DEF IInv
<1>4. requests' = requests \ {x}
  BY <1>3 DEF Spawn, Accepted
<1> QED
  BY <1>4, SpawnNowKeeps DEF Spawn

LEMMA SpawnQueuedKeeps ==
  ASSUME IInv, NEW x \in Delegations, SpawnQueued(x)
  PROVE  IInv'
<1>1. ~stopped
  BY NotStopped, CallOp DEF SpawnQueued, Run, Late
<1>2. "dequeue" \in Pend(x)
  BY StackTail DEF SpawnQueued, Run, IInv, Pend, Top
<1>3. Promoted(x)
  BY <1>1, <1>2, Stages DEF IInv
<1>4. requests' = requests \ {x} /\ SpawnNow(x)
  BY <1>3 DEF SpawnQueued, Promoted
<1> QED
  BY <1>4, SpawnNowKeeps DEF SpawnQueued

LEMMA AttachKeeps ==
  ASSUME IInv, NEW x \in Delegations, Attach(x)
  PROVE  IInv'
<1>1. ~stopped
  BY NotStopped, CallOp DEF Attach, Run, Late
<1>2. (\A id \in Delegations : Life(id)) /\ TypeOK /\ AdmissionInv
  BY <1>1 DEF IInv
<1>3. /\ Stacked(calls') /\ (Wipe \in Elements(calls') => stopped') /\ "attach" \in Pend(x)
      /\ \A id : Pend(id)' = IF id = x THEN Pend(id) \ {"attach"} ELSE Pend(id)
  <2> DEFINE made == << >>
  <2>1. Return(made) /\ Stacked(made) /\ Elements(made) = {}
    BY StackEmpty DEF Attach
  <2>2. Run("attach", x) /\ stopped' = stopped /\ "attach" \in Top
    BY DEF Attach, Top
  <2> HIDE DEF made
  <2>3. \A c \in Elements(made) : c.op \in Top /\ c \notin Elements(calls)
    BY <2>1
  <2>4. /\ Stacked(calls') /\ (Wipe \in Elements(calls') => stopped') /\ "attach" \in Pend(x)
        /\ \A id : Pend(id)' = {op \in Top : Call(op, id) \in Elements(made)}
                                 \union (IF id = x THEN Pend(id) \ {"attach"} ELSE Pend(id))
    BY <2>1, <2>2, <2>3, CallbackStep
  <2> QED
    BY <2>1, <2>4
<1>4. AdmissionInv' /\ \A id : Slot(id)' = Slot(id) /\ Line(id)' = Line(id)
  BY <1>2 DEF AdmissionInv, Slot, Line, Attach
<1>5. records' \in [Delegations -> {"absent", "queued", "aborted", "handle"}]
      /\ records'[x] = "handle" /\ \A id \in Delegations : id # x => records'[id] = records[id]
  BY <1>2 DEF TypeOK, Attach
<1>6. Born(x) \/ Ends(x)
  BY <1>2, <1>3, Stages
<1>7. UNCHANGED <<admission, requests, child, done, notes, waits, stopped>>
  BY DEF Attach
<1>8. /\ wire' \in [Delegations -> Seq({"queued", "running", "over"})]
      /\ \A id \in Delegations : wire'[id] = IF id = x /\ child[x] = "running" THEN Append(wire[x], "running") ELSE wire[id]
  <2>1. CASE child[x] = "running"
    <3>1. wire' = Emitted({x}, "running") /\ ~stopped'
      BY <1>1, <1>7, <2>1 DEF Attach
    <3> QED
      BY <1>2, <2>1, <3>1, EmittedIs
  <2>2. CASE child[x] # "running"
    BY <1>2, <2>2 DEF Attach, TypeOK
  <2> QED
    BY <2>1, <2>2
<1>9. Life(x)'
  <2>1. CASE Born(x)
    <3>1. wire'[x] \in {Wr, Wqr}
      BY <1>8, <2>1, Wires DEF Born
    <3>2. Runs(x)'
      BY <1>3, <1>4, <1>5, <1>7, <2>1, <3>1 DEF Born, Runs
    <3> QED
      BY <3>2 DEF Life
  <2>2. CASE Ends(x)
    <3>1. wire'[x] = wire[x]
      BY <1>8, <2>2 DEF Ends
    <3>2. Ends(x)'
      BY <1>3, <1>4, <1>5, <1>7, <2>2, <3>1 DEF Ends
    <3> QED
      BY <3>2 DEF Life
  <2> QED
    BY <1>6, <2>1, <2>2
<1>10. ASSUME NEW id \in Delegations, id # x PROVE Life(id)'
  <2>1. Same(id)
    BY <1>3, <1>4, <1>5, <1>7, <1>8, <1>10 DEF Same
  <2> QED
    BY <1>2, <2>1, Bystander
<1>11. TypeOK'
  BY <1>2, <1>3, <1>4, <1>5, <1>7, <1>8, TypeStep DEF TypeOK, AdmissionInv
<1> QED
  BY <1>1, <1>3, <1>4, <1>7, <1>9, <1>10, <1>11 DEF IInv

LEMMA WaitsType ==
  ASSUME TypeOK, NEW recs, NEW kids
  PROVE  StillWaiting(recs, kids) \subseteq [ids : WaitSets, timed : BOOLEAN]
BY DEF TypeOK, StillWaiting

\* A drain moves the delegations A from the line into slots and leaves the
\* others alone.
LEMMA PromotedLife ==
  ASSUME NEW id, Life(id), NEW A, id \in A => Line(id),
         records'[id] = records[id], id \in requests' <=> id \in requests,
         child'[id] = child[id], done'[id] = done[id], wire'[id] = wire[id], notes'[id] = notes[id],
         Slot(id)' <=> Slot(id) \/ id \in A, Line(id)' <=> Line(id) /\ id \notin A,
         Pend(id)' = IF id \in A THEN {"dequeue"} ELSE Pend(id)
  PROVE  Life(id)'
<1>1. CASE id \in A
  <2>1. Waiting(id)
    BY <1>1, Stages
  <2>2. Promoted(id)'
    BY <1>1, <2>1 DEF Waiting, Promoted
  <2> QED
    BY <2>2 DEF Life
<1>2. CASE id \notin A
  <2>1. Slot(id)' = Slot(id) /\ Line(id)' = Line(id)
    BY <1>2 DEF Slot, Line
  <2>2. Same(id)
    BY <1>2, <2>1 DEF Same
  <2> QED
    BY <2>2, Bystander
<1> QED
  BY <1>1, <1>2

\* The calls a callback makes, one per delegation
LEMMA CallsOf ==
  ASSUME NEW o \in Top, NEW ids \in Seq(Delegations), Distinct(ids)
  PROVE  /\ Stacked(Calls(o, ids))
         /\ \A c \in Elements(Calls(o, ids)) : c.op \in Top
         /\ \A id : {op \in Top : Call(op, id) \in Elements(Calls(o, ids))}
                      = IF id \in Elements(ids) THEN {o} ELSE {}
<1>1. /\ Stacked(Calls(o, ids))
      /\ Elements(Calls(o, ids)) = {Call(o, id) : id \in Elements(ids)}
  BY StackCalls, FramesOps
<1> DEFINE E == Elements(Calls(o, ids))
<1> HIDE DEF E
<1>2. \A c \in E : c.op \in Top
  BY <1>1, CallOp DEF E
<1>3. \A id, op : Call(op, id) \in E <=> op = o /\ id \in Elements(ids)
  BY <1>1, CallEqual DEF E
<1>4. \A id : {op \in Top : Call(op, id) \in E} = IF id \in Elements(ids) THEN {o} ELSE {}
  BY <1>3
<1> QED
  BY <1>1, <1>2, <1>4 DEF E

LEMMA DequeueCalls ==
  ASSUME NEW ids \in Seq(Delegations), Distinct(ids)
  PROVE  /\ Stacked(Calls("dequeue", ids))
         /\ \A c \in Elements(Calls("dequeue", ids)) : c.op \in Top
         /\ \A id : {op \in Top : Call(op, id) \in Elements(Calls("dequeue", ids))}
                      = IF id \in Elements(ids) THEN {"dequeue"} ELSE {}
<1>1. "dequeue" \in Top
  BY DEF Top
<1> QED
  BY <1>1, CallsOf

LEMMA OnSettleKeeps ==
  ASSUME IInv, NEW x \in Delegations, OnSettle(x)
  PROVE  IInv'
<1> DEFINE r == ReleaseRun(admission, x)  A == Elements(r.admitted)
<1>1. /\ Run("settle", x) /\ UNCHANGED <<records, requests, child, notes, stopped>>
      /\ "settle" \in Top /\ TypeOK /\ AdmissionInv
  BY DEF OnSettle, Top, IInv
<1>2. CASE stopped
  <2>1. Return(<< >>) /\ UNCHANGED <<admission, done, wire, waits>>
    BY <1>2 DEF OnSettle
  <2>2. Stacked(<< >>) /\ \A c \in Elements(<< >>) : c.op \in Top /\ c \notin Elements(calls)
    BY StackEmpty
  <2>3. /\ Stacked(calls') /\ (Wipe \in Elements(calls') => stopped')
        /\ Elements(calls') = Elements(<< >>) \union (Elements(calls) \ {Call("settle", x)})
    BY <1>1, <2>1, <2>2, CallbackStep
  <2>4. Closing'
    BY <1>1, <1>2, <2>1, <2>3, StackEmpty DEF IInv, Closing, Slot
  <2>5. AdmissionInv'
    BY <1>1, <2>1 DEF AdmissionInv
  <2>6. TypeOK'
    BY <1>1, <2>1, <2>3, <2>5, TypeStep DEF TypeOK, AdmissionInv
  <2> QED
    BY <1>1, <1>2, <2>3, <2>4, <2>5, <2>6 DEF IInv
<1>3. CASE ~stopped
  <2>1. /\ wire' = Emitted({x}, "over") /\ admission' = r.state
        /\ done' = [done EXCEPT ![x] = "resolved"]
        /\ waits' = StillWaiting(records, child) /\ Return(Calls("dequeue", r.admitted))
    BY <1>3 DEF OnSettle
  <2>2. \A id \in Delegations : Life(id)
    BY <1>3 DEF IInv
  <2>3. Promotes(admission, r, {x}, {x})
    BY <1>1, ReleasePromotes DEF AdmissionInv
  <2>4. "settle" \in Pend(x)
    BY <1>1, StackTail DEF Run, IInv, Pend
  <2>5. Ends(x)
    BY <2>2, <2>4, Stages
  <2> HIDE DEF r
  <2>6. r.admitted \in Seq(Delegations) /\ Distinct(r.admitted)
    BY <2>3 DEF Promotes
  <2>7. AdmissionInv'
    BY <2>1, <2>3 DEF Promotes, AdmissionInv
  <2>8. /\ \A id : id \in A => Line(id) /\ id # x
        /\ \A id : Slot(id)' <=> (Slot(id) /\ id # x) \/ id \in A
        /\ \A id : Line(id)' <=> Line(id) /\ id # x /\ id \notin A
    BY <2>1, <2>3 DEF Promotes, Slot, Line
  <2>9. A \subseteq Delegations
    BY <2>6, ElementsOf
  <2> DEFINE made == Calls("dequeue", r.admitted)
  <2>10. /\ Stacked(made) /\ \A c \in Elements(made) : c.op \in Top
    BY <2>6, DequeueCalls
  <2>11. \A id : {op \in Top : Call(op, id) \in Elements(made)} = IF id \in A THEN {"dequeue"} ELSE {}
    BY <2>6, DequeueCalls
  <2>12. \A id \in A : Waiting(id)
    BY <2>2, <2>8, <2>9, Stages
  <2>13. \A c \in Elements(made) : c \notin Elements(calls)
    <3>1. Elements(made) = {Call("dequeue", id) : id \in A}
      BY <2>6, StackCalls DEF Ops
    <3>2. \A id \in A : Call("dequeue", id) \notin Elements(calls)
      BY <2>12 DEF Waiting, Pend, Top
    <3> QED
      BY <3>1, <3>2
  <2>14. Return(made)
    BY <2>1
  <2> HIDE DEF A, made
  <2>15. /\ Stacked(calls') /\ (Wipe \in Elements(calls') => stopped')
         /\ \A id : Pend(id)' = {op \in Top : Call(op, id) \in Elements(made)}
                                  \union (IF id = x THEN Pend(id) \ {"settle"} ELSE Pend(id))
    BY <1>1, <2>10, <2>13, <2>14, CallbackStep
  <2>16. /\ done' \in [Delegations -> {"none", "pending", "resolved"}]
         /\ \A id \in Delegations : done'[id] = IF id = x THEN "resolved" ELSE done[id]
    BY <1>1, <2>1 DEF TypeOK
  <2>17. /\ wire' \in [Delegations -> Seq({"queued", "running", "over"})]
         /\ \A id \in Delegations : wire'[id] = IF id = x THEN Append(wire[id], "over") ELSE wire[id]
    BY <1>1, <1>3, <2>1, EmittedIs
  <2>18. Life(x)'
    <3>1. done[x] = "pending" /\ wire[x] \in Alive /\ Slot(x)
      BY <2>4, <2>5 DEF Ends
    <3>2. wire'[x] \in Dead
      BY <2>17, <3>1, Wires
    <3>3. x \notin A /\ Pend(x)' = Pend(x) \ {"settle"}
      BY <2>8, <2>11, <2>15
    <3>4. ~Slot(x)' /\ ~Line(x)'
      BY <2>8, <3>3
    <3>5. done'[x] = "resolved" /\ records'[x] = records[x] /\ notes'[x] = notes[x] /\ child'[x] = child[x] /\ requests' = requests
      BY <1>1, <2>16
    <3>6. Ends(x)'
      BY <2>5, <3>2, <3>3, <3>4, <3>5 DEF Ends
    <3> QED
      BY <3>6 DEF Life
  <2>19. ASSUME NEW id \in Delegations, id # x PROVE Life(id)'
    <3>1. Pend(id)' = IF id \in A THEN {"dequeue"} ELSE Pend(id)
      BY <2>11, <2>12, <2>15, <2>19 DEF Waiting
    <3>2. (id \in A => Line(id)) /\ (Slot(id)' <=> Slot(id) \/ id \in A) /\ (Line(id)' <=> Line(id) /\ id \notin A)
      BY <2>8, <2>19
    <3>3. /\ records'[id] = records[id] /\ (id \in requests' <=> id \in requests)
          /\ child'[id] = child[id] /\ done'[id] = done[id] /\ wire'[id] = wire[id] /\ notes'[id] = notes[id]
      BY <1>1, <2>16, <2>17, <2>19
    <3> QED
      BY <2>2, <3>1, <3>2, <3>3, PromotedLife
  <2>20. TypeOK'
    BY <1>1, <2>1, <2>7, <2>15, <2>16, <2>17, WaitsType, TypeStep DEF TypeOK, AdmissionInv
  <2> QED
    BY <1>1, <1>3, <2>7, <2>15, <2>18, <2>19, <2>20 DEF IInv
<1> QED
  BY <1>2, <1>3

LEMMA NotifyKeeps ==
  ASSUME IInv, NEW x \in Delegations, Notify(x)
  PROVE  IInv'
<1>1. /\ Run("note", x) /\ UNCHANGED <<admission, records, requests, child, done, wire, waits, stopped>>
      /\ notes' = Notified({x}) /\ Return(<< >>) /\ "note" \in Top /\ TypeOK /\ AdmissionInv
  BY DEF Notify, Top, IInv
<1>2. Stacked(<< >>) /\ \A c \in Elements(<< >>) : c.op \in Top /\ c \notin Elements(calls)
  BY StackEmpty
<1>3. /\ Stacked(calls') /\ (Wipe \in Elements(calls') => stopped') /\ "note" \in Pend(x)
      /\ Elements(calls') = Elements(<< >>) \union (Elements(calls) \ {Call("note", x)})
      /\ \A id : Pend(id)' = {op \in Top : Call(op, id) \in Elements(<< >>)}
                               \union (IF id = x THEN Pend(id) \ {"note"} ELSE Pend(id))
  BY <1>1, <1>2, CallbackStep
<1>4. AdmissionInv' /\ \A id : Slot(id)' = Slot(id) /\ Line(id)' = Line(id)
  BY <1>1 DEF AdmissionInv, Slot, Line
<1>5. /\ notes' \in [Delegations -> Nat]
      /\ \A id \in Delegations : notes'[id] = IF id = x /\ ~stopped THEN notes[id] + 1 ELSE notes[id]
  BY <1>1, NotifiedIs
<1>6. TypeOK'
  BY <1>1, <1>3, <1>4, <1>5, TypeStep DEF TypeOK, AdmissionInv
<1>7. CASE stopped
  <2>1. Closing'
    BY <1>1, <1>3, <1>7, StackEmpty DEF IInv, Closing, Slot
  <2> QED
    BY <1>1, <1>3, <1>4, <1>6, <1>7, <2>1 DEF IInv
<1>8. CASE ~stopped
  <2>1. \A id \in Delegations : Life(id)
    BY <1>8 DEF IInv
  <2>2. \A id : Pend(id)' = IF id = x THEN Pend(id) \ {"note"} ELSE Pend(id)
    BY <1>3, StackEmpty
  <2>3. Ends(x) /\ notes[x] = 0
    BY <1>3, <2>1, Stages DEF Ends
  <2>4. Ends(x)'
    <3>1. notes'[x] = 1
      BY <1>5, <1>8, <2>3
    <3>2. Pend(x)' = Pend(x) \ {"note"}
      BY <2>2
    <3>3. /\ records'[x] = records[x] /\ requests' = requests /\ child'[x] = child[x]
          /\ done'[x] = done[x] /\ wire'[x] = wire[x] /\ Slot(x)' = Slot(x) /\ Line(x)' = Line(x)
      BY <1>1, <1>4
    <3> QED
      BY <2>3, <3>1, <3>2, <3>3 DEF Ends
  <2>5. ASSUME NEW id \in Delegations, id # x PROVE Life(id)'
    <3>1. Same(id)
      BY <1>1, <1>4, <1>5, <2>2, <2>5 DEF Same
    <3> QED
      BY <2>1, <3>1, Bystander
  <2> QED
    BY <1>1, <1>3, <1>4, <1>6, <1>8, <2>4, <2>5 DEF IInv, Life
<1> QED
  BY <1>7, <1>8

\* Waiting delegations are cancelled, and the line drains.
LEMMA CancelledLife ==
  ASSUME TypeOK, ~stopped, ~stopped', \A id \in Delegations : Life(id) /\ Pend(id) = {},
         NEW ids, \A id \in ids : id \in Delegations /\ Waiting(id), SettleQueuedAborts(ids), child' = child,
         NEW drain, Promotes(admission, drain, {}, ids), admission' = drain.state,
         \A id : Pend(id)' = IF id \in Elements(drain.admitted) THEN {"dequeue"} ELSE {}
  PROVE  \A id \in Delegations : Life(id)'
<1> DEFINE A == Elements(drain.admitted)
<1>1. /\ \A id : id \in A => Line(id) /\ id \notin ids
      /\ \A id : Slot(id)' <=> Slot(id) \/ id \in A
      /\ \A id : Line(id)' <=> Line(id) /\ id \notin ids /\ id \notin A
  BY DEF Promotes, Slot, Line
<1> HIDE DEF A
<1>2. /\ \A id \in Delegations : records'[id] = IF id \in ids THEN "aborted" ELSE records[id]
      /\ \A id \in Delegations : done'[id] = IF id \in ids THEN "resolved" ELSE done[id]
      /\ \A id \in Delegations : wire'[id] = IF id \in ids THEN Append(wire[id], "over") ELSE wire[id]
      /\ \A id \in Delegations : notes'[id] = IF id \in ids THEN notes[id] + 1 ELSE notes[id]
      /\ requests' = requests \ ids
  BY EmittedIs, NotifiedIs DEF SettleQueuedAborts, Updated
<1>3. ASSUME NEW id \in Delegations, id \in ids PROVE Life(id)'
  <2>1. Waiting(id) /\ id \notin A
    BY <1>1, <1>3
  <2>2. wire'[id] = Wqo /\ notes'[id] = 1
    <3>1. wire[id] = Wq /\ notes[id] = 0
      BY <2>1 DEF Waiting
    <3>2. wire'[id] = Append(Wq, "over") /\ notes'[id] = 0 + 1
      BY <1>2, <1>3, <3>1
    <3> QED
      BY <3>2, Wires
  <2>3. ~Slot(id)' /\ ~Line(id)' /\ Pend(id)' = {}
    BY <1>1, <1>3, <2>1 DEF A, Waiting
  <2>4. Cancelled(id)'
    BY <1>2, <1>3, <2>1, <2>2, <2>3 DEF Waiting, Cancelled
  <2> QED
    BY <2>4 DEF Life
<1>4. ASSUME NEW id \in Delegations, id \notin ids PROVE Life(id)'
  <2>1. Pend(id)' = IF id \in A THEN {"dequeue"} ELSE Pend(id)
    BY DEF A
  <2>2. (id \in A => Line(id)) /\ (Slot(id)' <=> Slot(id) \/ id \in A) /\ (Line(id)' <=> Line(id) /\ id \notin A)
    BY <1>1, <1>4
  <2>3. /\ records'[id] = records[id] /\ (id \in requests' <=> id \in requests)
        /\ child'[id] = child[id] /\ done'[id] = done[id] /\ wire'[id] = wire[id] /\ notes'[id] = notes[id]
    BY <1>2, <1>4
  <2> QED
    BY <2>1, <2>2, <2>3, PromotedLife
<1> QED
  BY <1>3, <1>4

LEMMA CancelledType ==
  ASSUME TypeOK, NEW ids, ids \subseteq Delegations, SettleQueuedAborts(ids), child' = child, stopped' \in BOOLEAN,
         Sound(admission'), Stacked(calls')
  PROVE  TypeOK'
<1>1. /\ records' \in [Delegations -> {"absent", "queued", "aborted", "handle"}]
      /\ requests' \subseteq Delegations
      /\ done' \in [Delegations -> {"none", "pending", "resolved"}]
  BY DEF SettleQueuedAborts, TypeOK, Updated
<1>2. wire' \in [Delegations -> Seq({"queued", "running", "over"})]
  BY EmittedIs DEF SettleQueuedAborts
<1>3. notes' \in [Delegations -> Nat]
  BY NotifiedIs DEF SettleQueuedAborts
<1>4. waits' \subseteq [ids : WaitSets, timed : BOOLEAN]
  BY WaitsType DEF SettleQueuedAborts
<1> QED
  BY <1>1, <1>2, <1>3, <1>4, TypeStep DEF TypeOK

LEMMA AbortQueuedKeeps ==
  ASSUME IInv, NEW x \in Delegations, AbortQueued(x)
  PROVE  IInv'
<1> DEFINE r == RemovePending(admission, {x})
<1>1. /\ calls # << >> /\ Head(calls).op \notin Top /\ Head(calls).op \notin Late
      /\ UNCHANGED <<child, stopped>> /\ records[x] = "queued"
      /\ admission' = r.state /\ SettleQueuedAborts({x}) /\ TypeOK /\ AdmissionInv
  BY CallOp DEF AbortQueued, Run, Top, Late, IInv
<1>2. ~stopped
  BY <1>1, NotStopped
<1>3. Return(Calls("dequeue", r.admitted)) /\ \A id \in Delegations : Life(id)
  BY <1>2 DEF AbortQueued, IInv
<1>4. Promotes(admission, r, {}, {x})
  BY <1>1, RemovePromotes DEF AdmissionInv
<1> HIDE DEF r
<1>5. r.admitted \in Seq(Delegations) /\ Distinct(r.admitted) /\ AdmissionInv'
  BY <1>1, <1>4 DEF Promotes, AdmissionInv
<1> DEFINE made == Calls("dequeue", r.admitted)
<1>6. /\ Stacked(made) /\ \A c \in Elements(made) : c.op \in Top
  BY <1>5, DequeueCalls
<1>7. \A id : {op \in Top : Call(op, id) \in Elements(made)} = IF id \in Elements(r.admitted) THEN {"dequeue"} ELSE {}
  BY <1>5, DequeueCalls
<1>8. Return(made) /\ stopped' = stopped
  BY <1>1, <1>3
<1> HIDE DEF made
<1>9. /\ Stacked(calls') /\ (Wipe \in Elements(calls') => stopped')
      /\ \A id : Pend(id) = {} /\ Pend(id)' = {op \in Top : Call(op, id) \in Elements(made)}
  BY <1>1, <1>6, <1>8, EntryStep
<1>10. Waiting(x)
  BY <1>1, <1>3, <1>9, Stages
<1>11. \A id \in Delegations : Life(id)'
  <2>1. \A id : Pend(id)' = IF id \in Elements(r.admitted) THEN {"dequeue"} ELSE {}
    BY <1>7, <1>9
  <2>2. \A id \in {x} : id \in Delegations /\ Waiting(id)
    BY <1>10
  <2>3. ~stopped' /\ \A id \in Delegations : Life(id) /\ Pend(id) = {}
    BY <1>1, <1>2, <1>3, <1>9
  <2> QED
    BY <1>1, <1>2, <1>4, <2>1, <2>2, <2>3, CancelledLife
<1>12. TypeOK'
  <2>1. Sound(admission') /\ stopped' \in BOOLEAN /\ {x} \subseteq Delegations
    BY <1>1, <1>5 DEF AdmissionInv, TypeOK
  <2> QED
    BY <1>1, <1>9, <2>1, CancelledType
<1> QED
  BY <1>1, <1>2, <1>5, <1>9, <1>11, <1>12 DEF IInv

\* A child that runs becomes over, in an entry or by an entry's own call.
LEMMA EndLife ==
  ASSUME TypeOK, ~stopped, \A id \in Delegations : Life(id) /\ Pend(id) = {},
         NEW x \in Delegations, child[x] = "running", child' = [child EXCEPT ![x] = "over"],
         UNCHANGED <<admission, records, requests, done, wire, notes>>,
         \A id : Pend(id)' = IF id = x THEN {"settle", "note"} ELSE {}
  PROVE  \A id \in Delegations : Life(id)'
<1>1. child'[x] = "over" /\ \A id \in Delegations : id # x => child'[id] = child[id]
  BY DEF TypeOK
<1>2. \A id : Slot(id)' = Slot(id) /\ Line(id)' = Line(id)
  BY DEF Slot, Line
<1>3. Life(x)'
  <2>1. Runs(x)
    BY Stages
  <2>2. wire[x] \in Alive
    BY <2>1 DEF Runs, Alive
  <2>3. Ends(x)'
    BY <1>1, <1>2, <2>1, <2>2 DEF Runs, Ends
  <2> QED
    BY <2>3 DEF Life
<1>4. ASSUME NEW id \in Delegations, id # x PROVE Life(id)'
  <2>1. Same(id)
    BY <1>1, <1>2, <1>4 DEF Same
  <2> QED
    BY <2>1, Bystander
<1> QED
  BY <1>3, <1>4

LEMMA AbortRunningKeeps ==
  ASSUME IInv, NEW x \in Delegations, AbortRunning(x)
  PROVE  IInv'
<1>1. /\ calls # << >> /\ Head(calls).op \notin Top
      /\ child[x] = "running" /\ child' = [child EXCEPT ![x] = "over"]
      /\ UNCHANGED <<admission, records, requests, done, wire, notes, waits, stopped>>
      /\ TypeOK /\ AdmissionInv
  BY CallOp DEF AbortRunning, Run, Top, Running, IInv
<1> DEFINE made == <<Call("settle", x), Call("note", x)>>
<1>2. Stacked(made) /\ Elements(made) = {Call("settle", x), Call("note", x)}
  BY StackTwo
<1>3. Return(made)
  BY DEF AbortRunning
<1> HIDE DEF made
<1>4. \A c \in Elements(made) : c.op \in Top /\ c.op \in Late
  BY <1>2, CallOp DEF Top, Late
<1>5. /\ Stacked(calls') /\ (Wipe \in Elements(calls') => stopped')
      /\ Elements(calls') = Elements(made) \union (Elements(calls) \ {Head(calls)})
      /\ \A id : Pend(id) = {} /\ Pend(id)' = {op \in Top : Call(op, id) \in Elements(made)}
  BY <1>1, <1>2, <1>3, <1>4, EntryStep
<1>6. AdmissionInv' /\ child' \in [Delegations -> {"unborn", "running", "over"}]
  BY <1>1 DEF AdmissionInv, TypeOK
<1>7. TypeOK'
  BY <1>1, <1>5, <1>6, TypeStep DEF TypeOK, AdmissionInv
<1>8. CASE stopped
  <2>1. \A id \in Delegations : child'[id] = "running" => child[id] = "running"
    BY <1>1 DEF TypeOK
  <2>2. Closing'
    BY <1>1, <1>4, <1>5, <1>8, <2>1 DEF IInv, Closing, Slot
  <2> QED
    BY <1>1, <1>5, <1>6, <1>7, <1>8, <2>2 DEF IInv
<1>9. CASE ~stopped
  <2>1. \A id : {op \in Top : Call(op, id) \in Elements(made)} = IF id = x THEN {"settle", "note"} ELSE {}
    BY <1>2, CallEqual DEF Top
  <2>2. \A id : Pend(id)' = IF id = x THEN {"settle", "note"} ELSE {}
    BY <1>5, <2>1
  <2>3. \A id \in Delegations : Life(id) /\ Pend(id) = {}
    BY <1>5, <1>9 DEF IInv
  <2>4. \A id \in Delegations : Life(id)'
    BY <1>1, <1>9, <2>2, <2>3, EndLife
  <2> QED
    BY <1>1, <1>5, <1>6, <1>7, <1>9, <2>4 DEF IInv
<1> QED
  BY <1>8, <1>9

\* A call of an entry that only looks: nothing about the delegations changes.
LEMMA LookKeeps ==
  ASSUME IInv, calls # << >>, Head(calls).op \notin Top, Return(<< >>),
         waits' \subseteq [ids : WaitSets, timed : BOOLEAN],
         UNCHANGED <<admission, records, requests, child, done, wire, notes, stopped>>
  PROVE  IInv'
<1>1. Stacked(<< >>) /\ Elements(<< >>) = {} /\ TypeOK /\ AdmissionInv
  BY StackEmpty DEF IInv
<1>2. \A c \in Elements(<< >>) : c.op \in Top
  BY <1>1
<1>3. /\ Stacked(calls') /\ (Wipe \in Elements(calls') => stopped')
      /\ Elements(calls') = Elements(<< >>) \union (Elements(calls) \ {Head(calls)})
      /\ \A id : Pend(id) = {} /\ Pend(id)' = {op \in Top : Call(op, id) \in Elements(<< >>)}
  BY <1>1, <1>2, EntryStep
<1>4. \A id : Pend(id)' = Pend(id) /\ Slot(id)' = Slot(id) /\ Line(id)' = Line(id)
  BY <1>1, <1>3 DEF Slot, Line
<1>5. AdmissionInv'
  BY <1>1 DEF AdmissionInv
<1>6. TypeOK'
  BY <1>1, <1>3, <1>5, TypeStep DEF TypeOK, AdmissionInv
<1>7. ~stopped' => \A id \in Delegations : Life(id)'
  BY <1>4, Bystander DEF IInv, Same
<1>8. stopped' => Closing'
  BY <1>1, <1>3 DEF IInv, Closing, Slot
<1> QED
  BY <1>3, <1>5, <1>6, <1>7, <1>8 DEF IInv

LEMMA SpareKeeps ==
  ASSUME IInv, NEW x \in Delegations, Spare(x)
  PROVE  IInv'
<1>1. /\ calls # << >> /\ Head(calls).op \notin Top /\ Return(<< >>)
      /\ UNCHANGED <<admission, records, requests, child, done, wire, notes, waits, stopped>>
  BY CallOp DEF Spare, Run, Top
<1>2. waits' \subseteq [ids : WaitSets, timed : BOOLEAN]
  BY <1>1 DEF IInv, TypeOK
<1> QED
  BY <1>1, <1>2, LookKeeps

LEMMA CheckWaitersKeeps ==
  ASSUME IInv, CheckWaiters
  PROVE  IInv'
<1>1. /\ calls # << >> /\ Head(calls).op \notin Top /\ Return(<< >>)
      /\ UNCHANGED <<admission, records, requests, child, done, wire, notes, stopped>>
  BY CallOp DEF CheckWaiters, Top
<1>2. waits' \subseteq [ids : WaitSets, timed : BOOLEAN]
  BY WaitsType DEF CheckWaiters, IInv
<1> QED
  BY <1>1, <1>2, LookKeeps

LEMMA ClearKeeps ==
  ASSUME IInv, Clear
  PROVE  IInv'
<1>1. /\ calls # << >> /\ Head(calls) = Wipe /\ Head(calls).op \notin Top /\ Return(<< >>)
      /\ records' = [id \in Delegations |-> "absent"] /\ requests' = {}
      /\ UNCHANGED <<admission, child, done, wire, notes, stopped>> /\ TypeOK /\ AdmissionInv
  BY CallOp DEF Clear, Top, IInv
<1>2. stopped
  BY <1>1, StackTail DEF IInv
<1>3. Stacked(<< >>) /\ Elements(<< >>) = {} /\ \A c \in Elements(<< >>) : c.op \in Top
  BY StackEmpty
<1>4. /\ Stacked(calls') /\ (Wipe \in Elements(calls') => stopped')
      /\ Elements(calls') = Elements(<< >>) \union (Elements(calls) \ {Head(calls)})
  BY <1>1, <1>3, EntryStep
<1>5. AdmissionInv'
  BY <1>1 DEF AdmissionInv
<1>6. TypeOK'
  <2>1. waits' \subseteq [ids : WaitSets, timed : BOOLEAN]
    BY <1>1, WaitsType DEF Clear
  <2>2. records' \in [Delegations -> {"absent", "queued", "aborted", "handle"}] /\ requests' \subseteq Delegations
    BY <1>1
  <2> QED
    BY <1>1, <1>4, <1>5, <2>1, <2>2, TypeStep DEF TypeOK, AdmissionInv
<1>7. Closing'
  BY <1>1, <1>2, <1>3, <1>4 DEF IInv, Closing, Slot
<1> QED
  BY <1>1, <1>2, <1>4, <1>5, <1>6, <1>7 DEF IInv

-----------------------------------------------------------------------------
(***************************************************************************)
(* The entries.                                                            *)
(***************************************************************************)

LEMMA EntryIs ==
  ASSUME IInv, Entry
  PROVE  /\ \A id \in Delegations : Life(id) /\ Pend(id) = {}
         /\ TypeOK /\ AdmissionInv
BY EntryPending DEF IInv, Entry

\* New delegations get a slot (`now`) or a place in the line (`later`).
LEMMA AskedKeeps ==
  ASSUME IInv, Entry, NEW now \in Seq(Delegations), Distinct(now), NEW later,
         Elements(now) \intersect later = {},
         \A id \in Elements(now) \union later : id \in Unused,
         records' = Updated(records, later, "queued"), requests' = requests \union later,
         wire' = Emitted(later, "queued"), done' = Updated(done, Elements(now) \union later, "pending"),
         UNCHANGED <<child, notes, waits, stopped>>, calls' = Calls("spawn", now), AdmissionInv',
         admission'.running = admission.running \union Elements(now),
         Elements(admission'.queue) = Elements(admission.queue) \union later
  PROVE  IInv'
<1> DEFINE A == Elements(now)
<1>1. (\A id \in Delegations : Life(id) /\ Pend(id) = {}) /\ TypeOK /\ ~stopped
  BY EntryIs DEF Entry
<1>2. \A id \in A \union later : id \in Delegations /\ New(id)
  BY <1>1, Stages DEF Unused
<1>3. /\ Stacked(calls') /\ \A c \in Elements(calls') : c.op \in Top
      /\ \A id : Pend(id)' = IF id \in A THEN {"spawn"} ELSE {}
  <2>1. "spawn" \in Top
    BY DEF Top
  <2>2. /\ Stacked(calls') /\ (\A c \in Elements(calls') : c.op \in Top)
        /\ \A id : {op \in Top : Call(op, id) \in Elements(calls')} = IF id \in A THEN {"spawn"} ELSE {}
    BY <2>1, CallsOf
  <2> QED
    BY <2>2 DEF Pend
<1>4. Wipe \notin Elements(calls')
  BY <1>3, CallOp DEF Top
<1> HIDE DEF A
<1>5. /\ records' \in [Delegations -> {"absent", "queued", "aborted", "handle"}]
      /\ \A id \in Delegations : records'[id] = IF id \in later THEN "queued" ELSE records[id]
  BY <1>1 DEF TypeOK, Updated
<1>6. /\ done' \in [Delegations -> {"none", "pending", "resolved"}]
      /\ \A id \in Delegations : done'[id] = IF id \in A \union later THEN "pending" ELSE done[id]
  BY <1>1 DEF TypeOK, Updated, A
<1>7. /\ wire' \in [Delegations -> Seq({"queued", "running", "over"})]
      /\ \A id \in Delegations : wire'[id] = IF id \in later THEN Append(wire[id], "queued") ELSE wire[id]
  BY <1>1, EmittedIs
<1>8. \A id : (Slot(id)' <=> Slot(id) \/ id \in A) /\ (Line(id)' <=> Line(id) \/ id \in later)
  BY DEF Slot, Line, A
<1>9. A \intersect later = {}
  BY DEF A
<1>10. ASSUME NEW id \in Delegations PROVE Life(id)'
  <2>1. CASE id \in A
    <3>1. New(id) /\ id \notin later
      BY <1>2, <1>9, <2>1
    <3>2. Accepted(id)'
      BY <1>1, <1>3, <1>5, <1>6, <1>7, <1>8, <2>1, <3>1 DEF New, Accepted
    <3> QED
      BY <3>2 DEF Life
  <2>2. CASE id \in later
    <3>1. New(id) /\ id \notin A
      BY <1>2, <1>9, <2>2
    <3>2. wire'[id] = Wq
      BY <1>7, <2>2, <3>1, Wires DEF New
    <3>3. Waiting(id)'
      BY <1>1, <1>3, <1>5, <1>6, <1>8, <2>2, <3>1, <3>2 DEF New, Waiting
    <3> QED
      BY <3>3 DEF Life
  <2>3. CASE id \notin A /\ id \notin later
    <3>1. Slot(id)' = Slot(id) /\ Line(id)' = Line(id)
      BY <1>8, <2>3 DEF Slot, Line
    <3>2. Pend(id)' = Pend(id)
      BY <1>1, <1>3, <2>3
    <3>3. Same(id)
      BY <1>5, <1>6, <1>7, <2>3, <3>1, <3>2 DEF Same
    <3> QED
      BY <1>1, <3>3, Bystander
  <2> QED
    BY <2>1, <2>2, <2>3
<1>11. TypeOK'
  <2>1. requests' \subseteq Delegations
    BY <1>1, <1>2 DEF TypeOK
  <2> QED
    BY <1>1, <1>3, <1>5, <1>6, <1>7, <2>1, TypeStep DEF TypeOK, AdmissionInv
<1> QED
  BY <1>1, <1>3, <1>4, <1>10, <1>11 DEF IInv

\* start's answer decides what happens to the slots and the line.
LEMMA RequestEffect ==
  ASSUME NEW s, Sound(s), NEW id \in Delegations, NEW step, step = AdmitRequest(s, id), step.action # "reject"
  PROVE  \/ /\ step.action = "admit"
            /\ step.state.running = s.running \union {id} /\ Elements(step.state.queue) = Elements(s.queue)
         \/ /\ step.action = "queue"
            /\ step.state.running = s.running
            /\ Elements(step.state.queue) = Elements(s.queue) \union {id}
<1>1. s.queue \in Seq(Delegations)
  BY DEF Sound, AdmissionState
<1>2. Elements(Append(s.queue, id)) = Elements(s.queue) \union {id}
  BY <1>1, ElementsAppend
<1> HIDE DEF Elements
<1>3. CASE Cardinality(s.running) < Cap /\ ~WaitingHeadBlocked(s)
  BY <1>3 DEF AdmitRequest
<1>4. CASE ~(Cardinality(s.running) < Cap /\ ~WaitingHeadBlocked(s)) /\ Len(s.queue) < QueueCap
  BY <1>2, <1>4 DEF AdmitRequest
<1>5. CASE ~(Cardinality(s.running) < Cap /\ ~WaitingHeadBlocked(s)) /\ ~(Len(s.queue) < QueueCap)
  BY <1>5 DEF AdmitRequest
<1> QED
  BY <1>3, <1>4, <1>5

LEMMA OneCall ==
  ASSUME NEW x \in Delegations
  PROVE  <<x>> \in Seq(Delegations) /\ Elements(<<x>>) = {x} /\ Distinct(<<x>>)
BY DEF Elements, Distinct

LEMMA NoCall ==
  /\ << >> \in Seq(Delegations) /\ Elements(<< >>) = {} /\ Distinct(<< >>)
  /\ \A o : Calls(o, << >>) = << >>
<1>1. << >> \in Seq(Delegations) /\ Elements(<< >>) = {} /\ Distinct(<< >>)
  BY DEF Elements, Distinct
<1>2. \A o : Calls(o, << >>) = << >>
  BY DEF Calls
<1> QED
  BY <1>1, <1>2

LEMMA StartKeeps ==
  ASSUME IInv, NEW x \in Delegations, Start(x)
  PROVE  IInv'
<1> DEFINE step == AdmitRequest(admission, x)
<1>1. /\ Entry /\ x \in Unused /\ step.action # "reject" /\ UNCHANGED <<child, notes, waits, stopped>>
      /\ admission' = step.state /\ done' = [done EXCEPT ![x] = "pending"]
      /\ \/ /\ step.action = "queue" /\ records' = [records EXCEPT ![x] = "queued"]
            /\ requests' = requests \union {x} /\ wire' = Emitted({x}, "queued") /\ UNCHANGED calls
         \/ /\ step.action = "admit" /\ calls' = Calls("spawn", <<x>>) /\ UNCHANGED <<records, requests, wire>>
  BY DEF Start
<1>2. (\A id \in Delegations : Life(id) /\ Pend(id) = {}) /\ TypeOK /\ AdmissionInv /\ calls = << >> /\ ~stopped
  BY <1>1, EntryIs DEF Entry
<1>3. New(x)
  BY <1>1, <1>2, Stages DEF Unused
<1>4. x \in Delegations \ Live(admission)
  BY <1>3 DEF New, Slot, Line, Live
<1>5. AdmissionInv'
  <2>1. Sound(step.state) /\ LineMoves(step.state)
    BY <1>2, RequestSound DEF AdmissionInv
  <2>2. Orderly(step.state)
    BY <1>2, <1>4, RequestOrderly DEF AdmissionInv
  <2> HIDE DEF step
  <2> QED
    BY <1>1, <2>1, <2>2 DEF AdmissionInv
<1>6. step = AdmitRequest(admission, x) /\ Sound(admission)
  BY <1>2 DEF AdmissionInv
<1> HIDE DEF step
<1>7. \/ /\ step.action = "admit"
         /\ step.state.running = admission.running \union {x} /\ Elements(step.state.queue) = Elements(admission.queue)
      \/ /\ step.action = "queue"
         /\ step.state.running = admission.running
         /\ Elements(step.state.queue) = Elements(admission.queue) \union {x}
  BY <1>1, <1>6, RequestEffect
<1>8. done' = Updated(done, {x}, "pending")
  BY <1>1, <1>2 DEF TypeOK, Updated
<1>9. CASE step.action = "admit"
  <2> DEFINE now == <<x>>  later == {}
  <2>1. now \in Seq(Delegations) /\ Elements(now) = {x} /\ Distinct(now)
    BY OneCall
  <2>2. records' = Updated(records, later, "queued") /\ wire' = Emitted(later, "queued")
    BY <1>1, <1>2, <1>9 DEF TypeOK, Updated, Emitted
  <2>3. calls' = Calls("spawn", now) /\ requests' = requests \union later
    BY <1>1, <1>9
  <2>4. /\ admission'.running = admission.running \union {x}
        /\ Elements(admission'.queue) = Elements(admission.queue) \union later
    BY <1>1, <1>7, <1>9
  <2> HIDE DEF now
  <2>5. /\ \A id \in Elements(now) \union later : id \in Unused
        /\ Elements(now) \intersect later = {} /\ done' = Updated(done, Elements(now) \union later, "pending")
        /\ admission'.running = admission.running \union Elements(now)
    BY <1>1, <1>8, <2>1, <2>4
  <2> HIDE DEF later
  <2> QED
    BY <1>1, <1>5, <2>1, <2>2, <2>3, <2>4, <2>5, AskedKeeps
<1>10. CASE step.action = "queue"
  <2> DEFINE now == << >>  later == {x}
  <2>1. now \in Seq(Delegations) /\ Elements(now) = {} /\ Distinct(now) /\ calls' = Calls("spawn", now)
    BY <1>1, <1>2, <1>10, NoCall
  <2>2. records' = Updated(records, later, "queued") /\ wire' = Emitted(later, "queued")
    BY <1>1, <1>2, <1>10 DEF TypeOK, Updated
  <2>3. requests' = requests \union later
    BY <1>1, <1>10
  <2>4. /\ admission'.running = admission.running
        /\ Elements(admission'.queue) = Elements(admission.queue) \union later
    BY <1>1, <1>7, <1>10
  <2> HIDE DEF now
  <2>5. /\ \A id \in Elements(now) \union later : id \in Unused
        /\ Elements(now) \intersect later = {} /\ done' = Updated(done, Elements(now) \union later, "pending")
        /\ admission'.running = admission.running \union Elements(now)
    BY <1>1, <1>8, <2>1, <2>4
  <2> HIDE DEF later
  <2> QED
    BY <1>1, <1>5, <2>1, <2>2, <2>3, <2>4, <2>5, AskedKeeps
<1> QED
  BY <1>7, <1>9, <1>10

LEMMA MemberListIs ==
  ASSUME NEW ids \in MemberLists
  PROVE  ids \in Seq(Delegations) /\ Distinct(ids) /\ \A id \in Elements(ids) : id \in Unused
<1>1. PICK n \in 1 .. GroupSize : ids \in [1 .. n -> Unused]
  BY DEF MemberLists
<1>2. n \in Nat
  BY BoundsAssumption
<1>3. ids \in Seq(Unused) /\ Unused \subseteq Delegations
  BY <1>1, <1>2, FunctionIsSequence DEF Unused
<1>4. ids \in Seq(Delegations)
  <2>1. ids \in [1 .. n -> Delegations]
    BY <1>1, <1>3
  <2> QED
    BY <1>2, <2>1, FunctionIsSequence
<1>5. Distinct(ids)
  BY DEF MemberLists, Distinct
<1>6. \A id \in Elements(ids) : id \in Unused
  BY <1>1 DEF Elements
<1> QED
  BY <1>4, <1>5, <1>6

LEMMA StartGroupKeeps ==
  ASSUME IInv, NEW mode \in Modes, NEW ids \in MemberLists, StartGroup(mode, ids)
  PROVE  IInv'
<1> DEFINE step  == EnqueueGroup(admission, mode, ids)
           now   == step.admittedNow
           later == Elements(ids) \ Elements(now)
<1>1. /\ Entry /\ step.action # "reject" /\ UNCHANGED <<child, notes, waits, stopped>>
      /\ admission' = step.state /\ done' = Updated(done, Elements(ids), "pending")
      /\ records' = Updated(records, later, "queued") /\ requests' = requests \union later
      /\ wire' = Emitted(later, "queued") /\ calls' = Calls("spawn", now)
  BY DEF StartGroup
<1>2. (\A id \in Delegations : Life(id) /\ Pend(id) = {}) /\ TypeOK /\ AdmissionInv
  BY <1>1, EntryIs
<1>3. ids \in Seq(Delegations) /\ Distinct(ids) /\ \A id \in Elements(ids) : id \in Unused
  BY MemberListIs
<1>4. Elements(ids) \intersect Live(admission) = {}
  BY <1>2, <1>3, Stages DEF Unused, New, Slot, Line, Live
<1>5. Sound(admission) /\ LineMoves(admission) /\ Orderly(admission)
  BY <1>2 DEF AdmissionInv
<1>6. Sound(step.state) /\ LineMoves(step.state)
  BY <1>3, <1>5, EnqueueSound
<1>7. Orderly(step.state)
  BY <1>3, <1>4, <1>5, EnqueueOrderly
<1>8. /\ now \in Seq(Delegations) /\ Distinct(now) /\ Elements(now) \subseteq Elements(ids)
      /\ step.state.running = admission.running \union Elements(now)
      /\ Elements(step.state.queue) = Elements(admission.queue) \union later
  BY <1>1, <1>3, <1>4, <1>5, EnqueueEffect
<1> HIDE DEF step
<1>9. AdmissionInv'
  BY <1>1, <1>6, <1>7 DEF AdmissionInv
<1> HIDE DEF now
<1>10. /\ Elements(now) \intersect later = {} /\ Elements(now) \union later = Elements(ids)
  BY <1>8
<1> HIDE DEF later
<1> QED
  BY <1>1, <1>3, <1>8, <1>9, <1>10, AskedKeeps

LEMMA ChildEndsKeeps ==
  ASSUME IInv, NEW x \in Delegations, ChildEnds(x)
  PROVE  IInv'
<1>1. /\ calls = << >> /\ child[x] = "running" /\ child' = [child EXCEPT ![x] = "over"]
      /\ calls' = <<Call("settle", x), Call("note", x)>>
      /\ UNCHANGED <<admission, records, requests, done, wire, notes, waits, stopped>>
      /\ TypeOK /\ AdmissionInv /\ \A id : Pend(id) = {}
  BY EntryPending DEF ChildEnds, IInv
<1>2. Stacked(calls') /\ Elements(calls') = {Call("settle", x), Call("note", x)}
  BY <1>1, StackTwo
<1>3. \A c \in Elements(calls') : c.op \in Late /\ c.op \in Top
  BY <1>2, CallOp DEF Late, Top
<1>4. Wipe \notin Elements(calls')
  BY <1>3, CallOp DEF Top
<1>5. AdmissionInv' /\ child' \in [Delegations -> {"unborn", "running", "over"}]
  BY <1>1 DEF AdmissionInv, TypeOK
<1>6. TypeOK'
  BY <1>1, <1>2, <1>5, TypeStep DEF TypeOK, AdmissionInv
<1>7. CASE stopped
  <2>1. \A id \in Delegations : child'[id] = "running" => child[id] = "running"
    BY <1>1 DEF TypeOK
  <2>2. Closing'
    BY <1>1, <1>3, <1>7, <2>1 DEF IInv, Closing, Slot
  <2> QED
    BY <1>1, <1>2, <1>4, <1>5, <1>6, <1>7, <2>2 DEF IInv
<1>8. CASE ~stopped
  <2>1. \A id : Pend(id)' = IF id = x THEN {"settle", "note"} ELSE {}
    BY <1>2, CallEqual DEF Pend, Top
  <2>2. \A id \in Delegations : Life(id) /\ Pend(id) = {}
    BY <1>1, <1>8 DEF IInv
  <2>3. \A id \in Delegations : Life(id)'
    BY <1>1, <1>8, <2>1, <2>2, EndLife
  <2> QED
    BY <1>1, <1>2, <1>4, <1>5, <1>6, <1>8, <2>3 DEF IInv
<1> QED
  BY <1>7, <1>8

\* abort and clearQueue only put their calls on the stack.
LEMMA AbortEachKeeps ==
  ASSUME IInv, NEW o \in {"abort", "clear"}, NEW ids \in Seq(Delegations), Distinct(ids), AbortEach(o, ids)
  PROVE  IInv'
<1>1. /\ Entry /\ calls' = Calls(o, ids)
      /\ UNCHANGED <<admission, records, requests, child, done, wire, notes, waits, stopped>>
  BY DEF AbortEach
<1>2. (\A id \in Delegations : Life(id) /\ Pend(id) = {}) /\ TypeOK /\ AdmissionInv /\ ~stopped
  BY <1>1, EntryIs DEF Entry
<1>3. Stacked(calls') /\ Elements(calls') = {Call(o, id) : id \in Elements(ids)}
  BY <1>1, StackCalls DEF Ops
<1>4. \A c \in Elements(calls') : c.op = o
  BY <1>3, CallOp
<1>5. Wipe \notin Elements(calls') /\ \A id : Pend(id)' = {}
  BY <1>4, CallOp DEF Pend, Top
<1>6. AdmissionInv'
  BY <1>1, <1>2 DEF AdmissionInv
<1>7. TypeOK'
  BY <1>1, <1>2, <1>3, <1>6, TypeStep DEF TypeOK, AdmissionInv
<1>8. ASSUME NEW id \in Delegations PROVE Life(id)'
  <2>1. Same(id)
    BY <1>1, <1>2, <1>5 DEF Same, Slot, Line
  <2> QED
    BY <1>2, <2>1, Bystander
<1> QED
  BY <1>1, <1>2, <1>3, <1>5, <1>6, <1>7, <1>8 DEF IInv

LEMMA AbortKeeps ==
  ASSUME IInv, NEW x \in Delegations, Abort(x)
  PROVE  IInv'
<1> DEFINE ids == <<x>>
<1>1. ids \in Seq(Delegations) /\ Distinct(ids) /\ AbortEach("abort", ids)
  BY OneCall DEF Abort
<1> HIDE DEF ids
<1> QED
  BY <1>1, AbortEachKeeps

LEMMA ClearQueueKeeps ==
  ASSUME IInv, ClearQueue
  PROVE  IInv'
<1>1. admission.queue \in Seq(Delegations) /\ Distinct(admission.queue)
  BY DEF IInv, AdmissionInv, Sound, AdmissionState, Orderly
<1> QED
  BY <1>1, AbortEachKeeps DEF ClearQueue

LEMMA OrdersAre ==
  ASSUME NEW ids, ids \subseteq Delegations, IsFiniteSet(ids), NEW order \in Orders(ids)
  PROVE  order \in Seq(Delegations) /\ Distinct(order)
<1>1. Cardinality(ids) \in Nat
  BY FS_CardinalityType
<1>2. order \in [1 .. Cardinality(ids) -> ids]
  BY DEF Orders
<1>3. order \in [1 .. Cardinality(ids) -> Delegations]
  BY <1>2
<1> QED
  BY <1>1, <1>3, FunctionIsSequence DEF Orders, Distinct

\* abortMany: what the drain promotes lies on top of the kills, the check of
\* the waits and the rest of shutdown.
LEMMA AbortManyStack ==
  ASSUME NEW d, Stacked(d), \A c \in Elements(d) : c.op \in Top,
         NEW order \in Seq(Delegations), Distinct(order), NEW next, next = << >> \/ next = <<Wipe>>
  PROVE  LET s == d \o Calls("kill", order) \o <<Check>> \o next
         IN  /\ Stacked(s)
             /\ \A c \in Elements(s) : c.op \in Top <=> c \in Elements(d)
             /\ \A c \in Elements(s) : c \in Elements(d) \/ c.op \in Late
             /\ Elements(d) \subseteq Elements(s)
             /\ next = << >> => Wipe \notin Elements(s)
<1> DEFINE k == Calls("kill", order)  c1 == <<Check>>
<1>1. Stacked(k) /\ \A c \in Elements(k) : c.op = "kill"
  BY StackCalls, CallOp DEF Ops
<1>2. Stacked(c1) /\ Elements(c1) = {Check}
  BY StackOne, FramesOps
<1>3. Stacked(next) /\ (\A c \in Elements(next) : c.op = "wipe") /\ (next = << >> => Elements(next) = {})
  BY StackOne, StackEmpty, FramesOps, CallOp
<1>4. /\ "kill" \notin Top /\ "check" \notin Top /\ "wipe" \notin Top
      /\ "kill" \in Late /\ "check" \in Late /\ "wipe" \in Late
  BY DEF Top, Late
<1> HIDE DEF k, c1
<1> DEFINE s1 == d \o k
<1>5. Elements(d) \intersect Elements(k) = {}
  BY <1>1, <1>4
<1>6. Stacked(s1) /\ Elements(s1) = Elements(d) \union Elements(k)
  BY <1>1, <1>5, StackConcat
<1> HIDE DEF s1
<1> DEFINE s2 == s1 \o c1
<1>7. Elements(s1) \intersect Elements(c1) = {}
  BY <1>1, <1>2, <1>4, <1>6, CallOp
<1>8. \A c \in Elements(c1) : c.op \notin Top
  BY <1>2, <1>4, CallOp
<1>9. Stacked(s2) /\ Elements(s2) = Elements(s1) \union Elements(c1)
  BY <1>2, <1>6, <1>7, <1>8, StackConcat
<1> HIDE DEF s2
<1> DEFINE s3 == s2 \o next
<1>10. Elements(s2) \intersect Elements(next) = {}
  BY <1>1, <1>2, <1>3, <1>4, <1>6, <1>9, CallOp
<1>11. \A c \in Elements(next) : c.op \notin Top
  BY <1>3, <1>4
<1>12. Stacked(s3) /\ Elements(s3) = Elements(s2) \union Elements(next)
  BY <1>3, <1>9, <1>10, <1>11, StackConcat
<1> HIDE DEF s3
<1>13. \A c \in Elements(s3) : c \in Elements(d) \/ (c.op \in Late /\ c.op \notin Top)
  BY <1>1, <1>2, <1>3, <1>4, <1>6, <1>9, <1>12, CallOp
<1>14. Elements(d) \subseteq Elements(s3)
  BY <1>6, <1>9, <1>12
<1>15. next = << >> => Wipe \notin Elements(s3)
  BY <1>1, <1>2, <1>3, <1>4, <1>6, <1>9, <1>12, CallOp DEF Top
<1> QED
  BY <1>12, <1>13, <1>14, <1>15 DEF s1, s2, s3, c1, k

LEMMA AbortManyKeeps ==
  ASSUME IInv, Entry, NEW ids \in SUBSET Delegations, NEW next, AbortMany(ids, next),
         \/ stopped' = FALSE /\ next = << >>
         \/ stopped' = TRUE /\ next = <<Wipe>>
  PROVE  IInv'
<1> DEFINE queued == ids \intersect WithRecord("queued")
           drain  == RemovePending(admission, queued)
           d      == IF stopped' THEN << >> ELSE Calls("dequeue", drain.admitted)
<1>1. (\A id \in Delegations : Life(id) /\ Pend(id) = {}) /\ TypeOK /\ AdmissionInv /\ ~stopped
  BY EntryIs DEF Entry
<1>2. /\ admission' = drain.state /\ SettleQueuedAborts(queued) /\ child' = child
      /\ \E order \in Orders(ids \intersect Running) :
           calls' = d \o Calls("kill", order) \o <<Check>> \o next
  BY DEF AbortMany
<1>3. \A id \in queued : id \in Delegations /\ Waiting(id)
  BY <1>1, Stages DEF WithRecord
<1>4. Promotes(admission, drain, {}, queued)
  BY <1>1, RemovePromotes DEF AdmissionInv
<1>5. PICK order \in Orders(ids \intersect Running) : calls' = d \o Calls("kill", order) \o <<Check>> \o next
  BY <1>2
<1>6. order \in Seq(Delegations) /\ Distinct(order)
  <2>1. ids \intersect Running \subseteq admission.running
    BY <1>1, Stages DEF Running, WithRecord, Slot
  <2>2. IsFiniteSet(admission.running)
    BY <1>1 DEF AdmissionInv, Sound
  <2>3. IsFiniteSet(ids \intersect Running)
    BY <2>1, <2>2, FS_Subset
  <2> HIDE DEF queued, drain, d
  <2> QED
    BY <2>3, OrdersAre
<1> HIDE DEF queued, drain
<1>7. drain.admitted \in Seq(Delegations) /\ Distinct(drain.admitted) /\ AdmissionInv'
  BY <1>2, <1>4 DEF Promotes, AdmissionInv
<1>8. Stacked(d) /\ \A c \in Elements(d) : c.op \in Top
  BY <1>7, DequeueCalls, StackEmpty
<1>9. \A id : {op \in Top : Call(op, id) \in Elements(d)}
                = IF ~stopped' /\ id \in Elements(drain.admitted) THEN {"dequeue"} ELSE {}
  <2>1. CASE stopped'
    BY <2>1, StackEmpty
  <2>2. CASE ~stopped'
    BY <1>7, <2>2, DequeueCalls
  <2> QED
    BY <2>1, <2>2
<1>10. stopped' => Elements(d) = {}
  BY StackEmpty
<1> HIDE DEF d
<1>11. /\ Stacked(calls')
       /\ \A c \in Elements(calls') : c.op \in Top <=> c \in Elements(d)
       /\ \A c \in Elements(calls') : c \in Elements(d) \/ c.op \in Late
       /\ Elements(d) \subseteq Elements(calls')
       /\ next = << >> => Wipe \notin Elements(calls')
  BY <1>5, <1>6, <1>8, AbortManyStack
<1>12. \A id : Pend(id)' = {op \in Top : Call(op, id) \in Elements(d)}
  BY <1>11, CallOp DEF Pend
<1>13. TypeOK'
  BY <1>1, <1>2, <1>3, <1>7, <1>11, CancelledType DEF AdmissionInv
<1>14. CASE stopped' = FALSE
  <2>1. \A id : Pend(id)' = IF id \in Elements(drain.admitted) THEN {"dequeue"} ELSE {}
    BY <1>9, <1>12, <1>14
  <2>2. \A id \in Delegations : Life(id)'
    BY <1>1, <1>2, <1>3, <1>4, <1>14, <2>1, CancelledLife
  <2>3. Wipe \notin Elements(calls')
    BY <1>11, <1>14, StackOne
  <2> QED
    BY <1>7, <1>11, <1>13, <1>14, <2>2, <2>3 DEF IInv
<1>15. CASE stopped' = TRUE
  <2>1. \A c \in Elements(calls') : c.op \in Late
    BY <1>10, <1>11, <1>15
  <2>2. \A id \in Delegations : wire'[id] = wire[id]
    BY <1>1, <1>2, <1>15, EmittedIs DEF SettleQueuedAborts
  <2>3. \A id \in Delegations : wire[id] \in Alive \union Dead /\ (child[id] = "running" => Slot(id))
    BY <1>1, Stages
  <2>4. \A id : Slot(id) => Slot(id)'
    BY <1>2, <1>4 DEF Promotes, Slot
  <2>5. Closing'
    BY <1>2, <2>1, <2>2, <2>3, <2>4 DEF Closing
  <2> QED
    BY <1>7, <1>11, <1>13, <1>15, <2>5 DEF IInv
<1> QED
  BY <1>14, <1>15

LEMMA AbortSelectedKeeps ==
  ASSUME IInv, NEW ids \in SUBSET Delegations, AbortSelected(ids)
  PROVE  IInv'
<1> DEFINE next == << >>
<1>1. Entry /\ AbortMany(ids, next) /\ stopped' = FALSE /\ next = << >>
  BY DEF AbortSelected, Entry, IInv, TypeOK
<1> HIDE DEF next
<1> QED
  BY <1>1, AbortManyKeeps

LEMMA ShutdownKeeps ==
  ASSUME IInv, Shutdown
  PROVE  IInv'
<1> DEFINE next == <<Wipe>>
<1>1. Entry /\ AbortMany(Delegations, next) /\ stopped' = TRUE /\ next = <<Wipe>>
  BY DEF Shutdown
<1> HIDE DEF next
<1> QED
  BY <1>1, AbortManyKeeps

\* The waits are nobody else's business.
LEMMA WaitsOnlyKeep ==
  ASSUME IInv, waits' \subseteq [ids : WaitSets, timed : BOOLEAN],
         UNCHANGED <<admission, records, requests, child, done, wire, notes, stopped, calls>>
  PROVE  IInv'
<1>1. \A id : Slot(id)' = Slot(id) /\ Line(id)' = Line(id) /\ Pend(id)' = Pend(id)
  BY DEF Slot, Line, Pend
<1>2. AdmissionInv' /\ TypeOK'
  BY DEF IInv, AdmissionInv, TypeOK
<1>3. ~stopped => \A id \in Delegations : Life(id)'
  BY <1>1, Bystander DEF IInv, Same
<1>4. stopped => Closing'
  BY <1>1 DEF IInv, Closing, Slot
<1> QED
  BY <1>2, <1>3, <1>4 DEF IInv

LEMMA WaitKeeps ==
  ASSUME IInv, NEW ids \in WaitSets, NEW timed \in BOOLEAN, Wait(ids, timed)
  PROVE  IInv'
<1>1. waits' \subseteq [ids : WaitSets, timed : BOOLEAN]
  BY DEF Wait, IInv, TypeOK
<1> QED
  BY <1>1, WaitsOnlyKeep DEF Wait

LEMMA WaitTimesOutKeeps ==
  ASSUME IInv, NEW w \in waits, WaitTimesOut(w)
  PROVE  IInv'
<1>1. waits' \subseteq [ids : WaitSets, timed : BOOLEAN]
  BY DEF WaitTimesOut, IInv, TypeOK
<1> QED
  BY <1>1, WaitsOnlyKeep DEF WaitTimesOut

-----------------------------------------------------------------------------
(***************************************************************************)
(* The inductive invariant and what follows from it.                       *)
(***************************************************************************)

LEMMA InitHolds ==
  ASSUME Init
  PROVE  IInv
<1>1. /\ Elements(<< >>) = {} /\ IsFiniteSet({}) /\ Cardinality({}) = 0
      /\ << >> \in Seq(Delegations) /\ << >> \in Seq(Group) /\ << >> \in Seq({"queued", "running", "over"})
  BY FS_EmptySet DEF Elements
<1>2. WaitingGroups(<< >>) = {} /\ Distinct(<< >>)
  BY DEF WaitingGroups, Distinct
<1>3. /\ admission.running = {} /\ admission.queue = << >> /\ admission.groups = << >>
      /\ admission \in AdmissionState
  BY <1>1 DEF Init, EmptyAdmission, AdmissionState
<1>4. Sound(admission)
  BY <1>1, <1>3, CapsAssumption DEF Sound, Busy, Pending
<1>5. LineMoves(admission) /\ Orderly(admission)
  BY <1>1, <1>2, <1>3, FlatNone DEF LineMoves, Orderly
<1>6. calls = << >> /\ ~stopped
  BY DEF Init
<1>7. Stacked(calls) /\ Elements(calls) = {} /\ \A id : Pend(id) = {}
  BY <1>6, StackEmpty, EntryPending
<1>8. TypeOK
  BY <1>1, <1>3, <1>7 DEF Init, TypeOK, Stacked, Frames
<1>9. ASSUME NEW id \in Delegations PROVE Life(id)
  <2>1. New(id)
    BY <1>1, <1>3, <1>7 DEF Init, New, None, Slot, Line
  <2> QED
    BY <2>1 DEF Life
<1> QED
  BY <1>4, <1>5, <1>6, <1>7, <1>8, <1>9 DEF IInv, AdmissionInv

LEMMA StepKeeps ==
  ASSUME IInv, Step
  PROVE  IInv'
<1>1. ASSUME NEW id \in Delegations, Spawn(id) PROVE IInv'
  BY <1>1, SpawnKeeps
<1>2. ASSUME NEW id \in Delegations, SpawnQueued(id) PROVE IInv'
  BY <1>2, SpawnQueuedKeeps
<1>3. ASSUME NEW id \in Delegations, Attach(id) PROVE IInv'
  BY <1>3, AttachKeeps
<1>4. ASSUME NEW id \in Delegations, OnSettle(id) PROVE IInv'
  BY <1>4, OnSettleKeeps
<1>5. ASSUME NEW id \in Delegations, Notify(id) PROVE IInv'
  BY <1>5, NotifyKeeps
<1>6. ASSUME NEW id \in Delegations, AbortQueued(id) PROVE IInv'
  BY <1>6, AbortQueuedKeeps
<1>7. ASSUME NEW id \in Delegations, AbortRunning(id) PROVE IInv'
  BY <1>7, AbortRunningKeeps
<1>8. ASSUME NEW id \in Delegations, Spare(id) PROVE IInv'
  BY <1>8, SpareKeeps
<1> QED
  BY <1>1, <1>2, <1>3, <1>4, <1>5, <1>6, <1>7, <1>8, CheckWaitersKeeps, ClearKeeps, Zenon DEF Step

LEMMA NextKeeps ==
  ASSUME IInv, Next
  PROVE  IInv'
<1>1. ASSUME NEW id \in Delegations, Start(id) PROVE IInv'
  BY <1>1, StartKeeps
<1>2. ASSUME NEW id \in Delegations, ChildEnds(id) PROVE IInv'
  BY <1>2, ChildEndsKeeps
<1>3. ASSUME NEW id \in Delegations, Abort(id) PROVE IInv'
  BY <1>3, AbortKeeps
<1>4. ASSUME NEW mode \in Modes, NEW ids \in MemberLists, StartGroup(mode, ids) PROVE IInv'
  BY <1>4, StartGroupKeeps
<1>5. ASSUME NEW ids \in SUBSET Delegations, AbortSelected(ids) PROVE IInv'
  BY <1>5, AbortSelectedKeeps
<1>6. ASSUME NEW ids \in WaitSets, NEW timed \in BOOLEAN, Wait(ids, timed) PROVE IInv'
  BY <1>6, WaitKeeps
<1>7. ASSUME NEW w \in waits, WaitTimesOut(w) PROVE IInv'
  BY <1>7, WaitTimesOutKeeps
<1> QED
  BY <1>1, <1>2, <1>3, <1>4, <1>5, <1>6, <1>7, ClearQueueKeeps, ShutdownKeeps, StepKeeps, Zenon DEF Next

LEMMA StutterKeeps ==
  ASSUME IInv, UNCHANGED vars
  PROVE  IInv'
<1>1. waits' \subseteq [ids : WaitSets, timed : BOOLEAN]
  BY DEF IInv, TypeOK, vars
<1> QED
  BY <1>1, WaitsOnlyKeep DEF vars

LEMMA Invariant == Spec => []IInv
<1>1. Init => IInv
  BY InitHolds
<1>2. IInv /\ [Next]_vars => IInv'
  BY NextKeeps, StutterKeeps
<1> QED
  BY <1>1, <1>2, PTL DEF Spec

\* Between callbacks, while the registry is not stopped
LEMMA AtRest ==
  ASSUME IInv, Idle, ~stopped, NEW id \in Delegations
  PROVE  /\ New(id) \/ Waiting(id) \/ Runs(id) \/ Ends(id) \/ Cancelled(id)
         /\ Pend(id) = {}
<1>1. Life(id) /\ Pend(id) = {}
  BY EntryPending DEF IInv, Idle
<1> QED
  BY <1>1 DEF Life, Promoted, Accepted, Born

\* The state of the registry has its shape, and its stack holds only calls
\* that the registry knows how to make.
THEOREM TypeIsCorrect == Spec => []TypeOK
<1>1. IInv => TypeOK
  BY DEF IInv
<1> QED
  BY <1>1, Invariant, PTL

\* No slot is lost and none is used without a live child, for any number of
\* delegations, any cap, any nesting of callbacks; and no more than Cap
\* children run at any instant.
THEOREM SlotsMatchChildrenAlways == Spec => []SlotsMatchChildren
<1>1. IInv => SlotsMatchChildren
  <2> SUFFICES ASSUME IInv PROVE SlotsMatchChildren
    OBVIOUS
  <2>1. /\ admission.running \subseteq Delegations /\ Elements(admission.queue) \subseteq Delegations
        /\ requests \subseteq Delegations /\ Cardinality(admission.running) <= Cap
    BY ElementsOf DEF IInv, AdmissionInv, Sound, AdmissionState, TypeOK
  <2>2. \A id \in Delegations : child[id] = "running" => Slot(id)
    BY Stages DEF IInv, Closing
  <2>3. ASSUME Idle, ~stopped, NEW id \in Delegations
        PROVE  /\ id \in admission.running <=> id \in Running
               /\ id \in Elements(admission.queue) <=> id \in WithRecord("queued")
               /\ id \in requests <=> id \in WithRecord("queued")
    <3>1. New(id) \/ Waiting(id) \/ Runs(id) \/ Ends(id) \/ Cancelled(id)
      BY <2>3, AtRest
    <3>2. Pend(id) = {}
      BY <2>3, AtRest
    <3> QED
      BY <3>1, <3>2 DEF New, Waiting, Runs, Ends, Cancelled, Slot, Line, Running, WithRecord
  <2>4. ASSUME Idle, ~stopped
        PROVE  /\ admission.running = Running
               /\ Elements(admission.queue) = WithRecord("queued")
               /\ requests = WithRecord("queued")
    BY <2>1, <2>3, <2>4 DEF Running, WithRecord
  <2>5. {id \in Delegations : child[id] = "running"} \subseteq admission.running
    BY <2>2 DEF Slot
  <2> QED
    BY <2>1, <2>4, <2>5 DEF SlotsMatchChildren
<1> QED
  BY <1>1, Invariant, PTL

\* Exactly one completion note for each delegation that is over, none for the
\* others, and its receipt resolved just then.
THEOREM EndIsToldAlways == Spec => []EndIsTold
<1>1. IInv => EndIsTold
  <2> SUFFICES ASSUME IInv, Idle, ~stopped, NEW id \in Delegations
               PROVE  /\ notes[id] = IF Over(id) THEN 1 ELSE 0
                      /\ done[id] = "resolved" <=> Over(id)
    BY DEF EndIsTold
  <2>1. New(id) \/ Waiting(id) \/ Runs(id) \/ Ends(id) \/ Cancelled(id)
    BY AtRest
  <2>2. Pend(id) = {}
    BY AtRest
  <2> QED
    BY <2>1, <2>2 DEF New, Waiting, Runs, Ends, Cancelled, Over
<1> QED
  BY <1>1, Invariant, PTL

LEMMA LastOfWire ==
  /\ Wq[Len(Wq)] = "queued"
  /\ \A w \in {Wr, Wqr} : w[Len(w)] = "running"
  /\ \A w \in Dead : w[Len(w)] = "over"
<1>1. Wq[Len(Wq)] = "queued"
  BY DEF Wq
<1>2. Wr[Len(Wr)] = "running" /\ Wqr[Len(Wqr)] = "running"
  BY DEF Wr, Wqr
<1>3. ASSUME NEW w \in Dead PROVE w[Len(w)] = "over"
  <2>1. CASE w = <<"over">>
    BY <2>1
  <2>2. CASE w = <<"queued", "over">>
    BY <2>2
  <2>3. CASE w = <<"running", "over">>
    BY <2>3
  <2>4. CASE w = <<"queued", "running", "over">>
    BY <2>4
  <2> QED
    BY <2>1, <2>2, <2>3, <2>4 DEF Dead, Wqo
<1> QED
  BY <1>1, <1>2, <1>3

\* Subscribers see every life in order and once, whatever the interleaving of
\* callbacks; between callbacks the last event is the delegation's state.
THEOREM WireInOrderAlways == Spec => []WireInOrder
<1>1. IInv => WireInOrder
  <2> SUFFICES ASSUME IInv PROVE WireInOrder
    OBVIOUS
  <2>1. \A id \in Delegations : wire[id] \in Alive \union Dead
    BY Stages DEF IInv, Closing
  <2>2. Alive \union Dead = {<< >>, <<"queued">>, <<"running">>, <<"over">>, <<"queued", "running">>,
                     <<"queued", "over">>, <<"running", "over">>, <<"queued", "running", "over">>}
    BY DEF Alive, Dead, None, Wq, Wr, Wqr, Wqo
  <2>3. ASSUME Idle, ~stopped, NEW id \in Delegations, done[id] # "none"
        PROVE  wire[id][Len(wire[id])] = IF Over(id) THEN "over"
                                         ELSE IF id \in Running THEN "running" ELSE "queued"
    <3>1. New(id) \/ Waiting(id) \/ Runs(id) \/ Ends(id) \/ Cancelled(id)
      BY <2>3, AtRest
    <3>2. Pend(id) = {}
      BY <2>3, AtRest
    <3>3. CASE New(id)
      BY <2>3, <3>3 DEF New
    <3>4. CASE Waiting(id)
      BY <3>4, LastOfWire DEF Waiting, Over, Running, WithRecord
    <3>5. CASE Runs(id)
      BY <3>5, LastOfWire DEF Runs, Over, Running, WithRecord
    <3>6. CASE Ends(id)
      <4>1. wire[id] \in Dead /\ child[id] = "over"
        BY <3>2, <3>6 DEF Ends
      <4> QED
        BY <4>1, LastOfWire DEF Over
    <3>7. CASE Cancelled(id)
      <4>1. wire[id] \in Dead /\ records[id] = "aborted"
        BY <3>7 DEF Cancelled, Dead
      <4> QED
        BY <4>1, LastOfWire DEF Over
    <3> QED
      BY <3>1, <3>3, <3>4, <3>5, <3>6, <3>7
  <2> QED
    BY <2>1, <2>2, <2>3, Zenon DEF WireInOrder
<1> QED
  BY <1>1, Invariant, PTL

-----------------------------------------------------------------------------
(***************************************************************************)
(* The waits.  Every pending wait has an id that is awaited: not over, or  *)
(* over with an onSettle to come that looks at the waits, or settled in    *)
(* its own promotion.  A shutdown's rest, Wipe, forgets what is left.      *)
(***************************************************************************)

Awaited(id) ==
  \/ records[id] = "queued"
  \/ records[id] = "handle" /\ (child[id] # "over" \/ "settle" \in Pend(id) \/ wire[id] = Wqo)

QueuedWires == \A id \in Delegations : records[id] = "queued" => wire[id] \in {Wq, Wqo}

WaitsHaveTargets == \A w \in waits : \E id \in w.ids : Awaited(id)

Watched ==
  /\ ~stopped => QueuedWires /\ WaitsHaveTargets
  /\ stopped => waits = {} \/ Wipe \in Elements(calls)

LEMMA WaitIds ==
  ASSUME TypeOK, NEW w \in waits
  PROVE  w.ids \subseteq Delegations
BY BoundsAssumption DEF TypeOK

\* What checkWaiters leaves is awaited.
LEMMA LookedAt ==
  ASSUME TypeOK, TypeOK', waits' = StillWaiting(records', child')
  PROVE  WaitsHaveTargets'
<1> SUFFICES ASSUME NEW w \in waits' PROVE \E id \in w.ids : Awaited(id)'
  BY DEF WaitsHaveTargets
<1>1. w \in waits /\ \E id \in w.ids : ~Settled(id, records', child')
  BY DEF StillWaiting
<1>2. PICK id \in w.ids : ~Settled(id, records', child')
  BY <1>1
<1>3. id \in Delegations
  BY <1>1, WaitIds
<1>4. records'[id] \in {"absent", "queued", "aborted", "handle"}
  BY <1>3 DEF TypeOK
<1>5. Awaited(id)'
  BY <1>2, <1>4 DEF Settled, Awaited
<1> QED
  BY <1>5

LEMMA AwaitedStay ==
  ASSUME TypeOK, WaitsHaveTargets, waits' \subseteq waits, \A id \in Delegations : Awaited(id) => Awaited(id)'
  PROVE  WaitsHaveTargets'
BY WaitIds DEF WaitsHaveTargets

\* A call below the top stays where it is.
LEMMA Stays ==
  ASSUME Stacked(calls), calls # << >>, NEW made, Stacked(made), Return(made)
  PROVE  \A c \in Elements(calls) : c # Head(calls) => c \in Elements(calls')
<1>1. Stacked(Tail(calls)) /\ Elements(Tail(calls)) = Elements(calls) \ {Head(calls)}
  BY StackTail
<1> DEFINE rest == Tail(calls)
<1> HIDE DEF rest
<1>2. made \in Seq(Frames) /\ rest \in Seq(Frames) /\ calls' = made \o rest
  BY <1>1 DEF Stacked, Return, rest
<1>3. Elements(calls') = Elements(made) \union Elements(rest)
  BY <1>2, ConcatElements
<1> QED
  BY <1>1, <1>3 DEF rest

LEMMA AskedWatched ==
  ASSUME IInv, Watched, Entry, NEW later, NEW new, \A id \in new : id \in Unused, later \subseteq new,
         records' = Updated(records, later, "queued"), wire' = Emitted(later, "queued"),
         UNCHANGED <<child, waits, stopped>>
  PROVE  Watched'
<1>1. (\A id \in Delegations : Life(id) /\ Pend(id) = {}) /\ TypeOK /\ ~stopped
  BY EntryIs DEF Entry
<1>2. \A id \in new : id \in Delegations /\ New(id)
  BY <1>1, Stages DEF Unused
<1>3. \A id \in Delegations : records'[id] = IF id \in later THEN "queued" ELSE records[id]
  BY <1>1 DEF TypeOK, Updated
<1>4. \A id \in Delegations : wire'[id] = IF id \in later THEN Append(wire[id], "queued") ELSE wire[id]
  BY <1>1, EmittedIs
<1>5. QueuedWires'
  <2> SUFFICES ASSUME NEW id \in Delegations, records'[id] = "queued" PROVE wire'[id] \in {Wq, Wqo}
    BY DEF QueuedWires
  <2>1. CASE id \in later
    BY <1>2, <1>4, <2>1, Wires DEF New
  <2>2. CASE id \notin later
    BY <1>1, <1>3, <1>4, <2>2 DEF Watched, QueuedWires
  <2> QED
    BY <2>1, <2>2
<1>6. ASSUME NEW id \in Delegations, Awaited(id) PROVE Awaited(id)'
  <2>1. id \notin later
    BY <1>2, <1>6 DEF Awaited, New
  <2> QED
    BY <1>1, <1>3, <1>4, <1>6, <2>1 DEF Awaited
<1>7. WaitsHaveTargets'
  BY <1>1, <1>6, AwaitedStay DEF Watched
<1> QED
  BY <1>1, <1>5, <1>7 DEF Watched

\* A step of a registry that is not stopped leaves records and events alone.
LEMMA QuietWatched ==
  ASSUME IInv, Watched, ~stopped, UNCHANGED <<records, wire, stopped>>, waits' \subseteq waits,
         \A id \in Delegations :
            records[id] = "handle" /\ (child[id] # "over" \/ "settle" \in Pend(id))
              => child'[id] # "over" \/ "settle" \in Pend(id)'
  PROVE  Watched'
<1>1. TypeOK /\ QueuedWires /\ WaitsHaveTargets
  BY DEF IInv, Watched
<1>2. \A id \in Delegations : Awaited(id) => Awaited(id)'
  BY DEF Awaited
<1>3. WaitsHaveTargets' /\ QueuedWires'
  BY <1>1, <1>2, AwaitedStay DEF QueuedWires
<1> QED
  BY <1>3 DEF Watched

\* A stopped registry only forgets.
LEMMA StoppedWatched ==
  ASSUME IInv, Watched, stopped, stopped', waits' \subseteq waits,
         Wipe \in Elements(calls) => waits' = {} \/ Wipe \in Elements(calls')
  PROVE  Watched'
BY DEF Watched

LEMMA SpawnWatched ==
  ASSUME IInv, Watched, NEW x \in Delegations, NEW o \in {"spawn", "dequeue"}, Run(o, x), SpawnNow(x),
         UNCHANGED <<records, wire, waits, stopped>>
  PROVE  Watched'
<1>1. ~stopped
  BY NotStopped, CallOp DEF Run, Late
<1>2. o \in Top /\ (\A id \in Delegations : Life(id)) /\ TypeOK /\ Stacked(calls)
  BY <1>1 DEF IInv, Top
<1>3. o \in Pend(x) /\ calls # << >> /\ Head(calls) = Call(o, x)
  BY <1>2, StackTail DEF Run, Pend
<1>4. records[x] # "handle"
  <2>1. Accepted(x) \/ Promoted(x)
    BY <1>2, <1>3, Stages
  <2> QED
    BY <2>1 DEF Accepted, Promoted
<1>5. PICK made : Stacked(made) /\ Return(made)
  <2> DEFINE m1 == <<Call("attach", x)>>  m2 == <<Call("settle", x), Call("note", x), Call("attach", x)>>
  <2>1. Return(m1) \/ Return(m2)
    BY DEF SpawnNow
  <2>2. Stacked(m1)
    BY StackOne, CallFrame DEF Ops
  <2>3. Stacked(m2)
    BY StackThree
  <2> HIDE DEF m1, m2
  <2> QED
    BY <2>1, <2>2, <2>3
<1>6. \A c \in Elements(calls) : c # Head(calls) => c \in Elements(calls')
  BY <1>2, <1>3, <1>5, Stays
<1>7. \A id \in Delegations : id # x => child'[id] = child[id] /\ ("settle" \in Pend(id) => "settle" \in Pend(id)')
  <2>1. \A id \in Delegations : id # x => child'[id] = child[id]
    BY <1>2 DEF SpawnNow, TypeOK
  <2>2. \A id \in Delegations : Call("settle", id) \in Elements(calls) => Call("settle", id) \in Elements(calls')
    BY <1>3, <1>6, CallEqual
  <2> QED
    BY <2>1, <2>2 DEF Pend
<1> QED
  BY <1>1, <1>4, <1>7, QuietWatched

LEMMA AttachWatched ==
  ASSUME IInv, Watched, NEW x \in Delegations, Attach(x)
  PROVE  Watched'
<1>1. ~stopped
  BY NotStopped, CallOp DEF Attach, Run, Late
<1>2. /\ (\A id \in Delegations : Life(id)) /\ TypeOK /\ Stacked(calls) /\ QueuedWires /\ WaitsHaveTargets
      /\ UNCHANGED <<child, waits, stopped>> /\ records' = [records EXCEPT ![x] = "handle"]
  BY <1>1 DEF IInv, Watched, Attach
<1>3. "attach" \in Pend(x) /\ calls # << >> /\ Head(calls) = Call("attach", x)
  BY <1>2, StackTail DEF Attach, Run, Pend, Top
<1>4. \A c \in Elements(calls) : c # Head(calls) => c \in Elements(calls')
  BY <1>2, <1>3, StackEmpty, Stays DEF Attach
<1>5. \A id \in Delegations : "settle" \in Pend(id) => "settle" \in Pend(id)'
  <2>1. \A id \in Delegations : Call("settle", id) \in Elements(calls) => Call("settle", id) \in Elements(calls')
    BY <1>3, <1>4, CallEqual
  <2> QED
    BY <2>1 DEF Pend
<1>6. \A id \in Delegations : id # x => records'[id] = records[id] /\ wire'[id] = wire[id]
  BY <1>2, EmittedIs DEF TypeOK, Attach
<1>7. records'[x] = "handle" /\ (child[x] = "over" => wire'[x] = wire[x])
  BY <1>2 DEF TypeOK, Attach
<1>8. QueuedWires'
  BY <1>2, <1>6, <1>7 DEF QueuedWires
<1>9. Awaited(x) => Awaited(x)'
  <2> SUFFICES ASSUME Awaited(x), child[x] = "over", "settle" \notin Pend(x) PROVE wire[x] = Wqo
    BY <1>2, <1>5, <1>7 DEF Awaited
  <2>1. Ends(x)
    BY <1>2, <1>3, Stages DEF Born
  <2>2. records[x] = "queued" /\ wire[x] \in Dead
    BY <1>3, <2>1 DEF Ends, Awaited
  <2>3. Wq \notin Dead
    BY DEF Wq, Wqo, Dead
  <2> QED
    BY <1>2, <2>2, <2>3 DEF QueuedWires
<1>10. \A id \in Delegations : Awaited(id) => Awaited(id)'
  BY <1>2, <1>5, <1>6, <1>9 DEF Awaited
<1>11. WaitsHaveTargets'
  BY <1>2, <1>10, AwaitedStay
<1> QED
  BY <1>1, <1>2, <1>8, <1>11 DEF Watched

LEMMA OnSettleWatched ==
  ASSUME IInv, IInv', Watched, NEW x \in Delegations, OnSettle(x)
  PROVE  Watched'
<1>1. /\ Run("settle", x) /\ UNCHANGED <<records, child, stopped>> /\ TypeOK /\ TypeOK' /\ Stacked(calls)
  BY DEF OnSettle, IInv
<1>2. CASE stopped
  <2>1. Return(<< >>) /\ waits' = waits
    BY <1>2 DEF OnSettle
  <2>2. Wipe \in Elements(calls) => Wipe \in Elements(calls')
    BY <1>1, <2>1, StackEmpty, Stays, CallOp DEF Run
  <2> QED
    BY <1>1, <1>2, <2>1, <2>2, StoppedWatched
<1>3. CASE ~stopped
  <2>1. wire' = Emitted({x}, "over") /\ waits' = StillWaiting(records', child')
    BY <1>1, <1>3 DEF OnSettle
  <2>2. (\A id \in Delegations : Life(id)) /\ QueuedWires
    BY <1>3 DEF IInv, Watched
  <2>3. \A id \in Delegations : wire'[id] = IF id = x THEN Append(wire[id], "over") ELSE wire[id]
    BY <1>1, <1>3, <2>1, EmittedIs
  <2>4. Ends(x) /\ "settle" \in Pend(x)
    <3>1. "settle" \in Pend(x)
      BY <1>1, StackTail DEF Run, Pend, Top
    <3> QED
      BY <2>2, <3>1, Stages
  <2>5. records[x] = "queued" => wire'[x] = Wqo
    <3>1. wire[x] \in Alive /\ Wqo \notin Alive
      BY <2>4 DEF Ends, Alive, None, Wq, Wr, Wqr, Wqo
    <3> QED
      BY <2>2, <2>3, <3>1, Wires DEF QueuedWires
  <2>6. QueuedWires'
    BY <1>1, <2>2, <2>3, <2>5 DEF QueuedWires
  <2>7. WaitsHaveTargets'
    BY <1>1, <2>1, LookedAt
  <2> QED
    BY <1>1, <1>3, <2>6, <2>7 DEF Watched
<1> QED
  BY <1>2, <1>3

LEMMA CancelledWatched ==
  ASSUME IInv, IInv', Watched, ~stopped, UNCHANGED <<stopped, child>>, NEW ids, SettleQueuedAborts(ids)
  PROVE  Watched'
<1>1. TypeOK /\ TypeOK' /\ QueuedWires
  BY DEF IInv, Watched
<1>2. /\ \A id \in Delegations : records'[id] = IF id \in ids THEN "aborted" ELSE records[id]
      /\ \A id \in Delegations : wire'[id] = IF id \in ids THEN Append(wire[id], "over") ELSE wire[id]
  BY <1>1, EmittedIs DEF SettleQueuedAborts, Updated
<1>3. QueuedWires'
  BY <1>1, <1>2 DEF QueuedWires
<1>4. WaitsHaveTargets'
  BY <1>1, LookedAt DEF SettleQueuedAborts
<1> QED
  BY <1>3, <1>4 DEF Watched

LEMMA EndsWatched ==
  ASSUME IInv, Watched, NEW x \in Delegations, child' = [child EXCEPT ![x] = "over"],
         \A id : Pend(id) = {}, "settle" \in Pend(x)', UNCHANGED <<records, wire, waits, stopped>>, ~stopped
  PROVE  Watched'
<1>1. \A id \in Delegations : id # x => child'[id] = child[id]
  BY DEF IInv, TypeOK
<1> QED
  BY <1>1, QuietWatched

LEMMA AbortRunningWatched ==
  ASSUME IInv, Watched, NEW x \in Delegations, AbortRunning(x)
  PROVE  Watched'
<1>1. /\ calls # << >> /\ Head(calls).op \notin Top /\ Head(calls).op # "wipe" /\ Stacked(calls)
      /\ child' = [child EXCEPT ![x] = "over"] /\ UNCHANGED <<records, wire, waits, stopped>>
  BY CallOp DEF AbortRunning, Run, Top, IInv
<1> DEFINE made == <<Call("settle", x), Call("note", x)>>
<1>2. Stacked(made) /\ Elements(made) = {Call("settle", x), Call("note", x)} /\ Return(made)
  BY StackTwo DEF AbortRunning
<1> HIDE DEF made
<1>3. CASE stopped
  <2>1. Wipe \in Elements(calls) => Wipe \in Elements(calls')
    BY <1>1, <1>2, Stays, CallOp
  <2> QED
    BY <1>1, <1>3, <2>1, StoppedWatched
<1>4. CASE ~stopped
  <2>1. \A c \in Elements(made) : c.op \in Top
    BY <1>2, CallOp DEF Top
  <2>2. \A id : Pend(id) = {} /\ Pend(id)' = {op \in Top : Call(op, id) \in Elements(made)}
    BY <1>1, <1>2, <2>1, EntryStep
  <2>3. "settle" \in Pend(x)'
    BY <1>2, <2>2 DEF Top
  <2> QED
    BY <1>1, <1>4, <2>2, <2>3, EndsWatched
<1> QED
  BY <1>3, <1>4

LEMMA NotifyWatched ==
  ASSUME IInv, Watched, NEW x \in Delegations, Notify(x)
  PROVE  Watched'
<1>1. /\ calls # << >> /\ Head(calls) = Call("note", x) /\ Stacked(calls) /\ Return(<< >>)
      /\ UNCHANGED <<records, child, wire, waits, stopped>>
  BY DEF Notify, Run, IInv
<1>2. \A c \in Elements(calls) : c # Head(calls) => c \in Elements(calls')
  BY <1>1, StackEmpty, Stays
<1>3. CASE stopped
  <2>1. Wipe \in Elements(calls) => Wipe \in Elements(calls')
    BY <1>1, <1>2, CallOp
  <2> QED
    BY <1>1, <1>3, <2>1, StoppedWatched
<1>4. CASE ~stopped
  <2>1. \A id \in Delegations : Call("settle", id) \in Elements(calls) => Call("settle", id) \in Elements(calls')
    BY <1>1, <1>2, CallEqual
  <2>2. \A id \in Delegations : "settle" \in Pend(id) => "settle" \in Pend(id)'
    BY <2>1 DEF Pend
  <2> QED
    BY <1>1, <1>4, <2>2, QuietWatched
<1> QED
  BY <1>3, <1>4

LEMMA CheckWatched ==
  ASSUME IInv, IInv', Watched, CheckWaiters
  PROVE  Watched'
<1>1. /\ calls # << >> /\ Head(calls) = Check /\ Stacked(calls) /\ Return(<< >>) /\ TypeOK /\ TypeOK'
      /\ UNCHANGED <<records, child, wire, stopped>> /\ waits' = StillWaiting(records', child')
  BY DEF CheckWaiters, IInv
<1>2. CASE stopped
  <2>1. Wipe \in Elements(calls) => Wipe \in Elements(calls')
    BY <1>1, StackEmpty, Stays, CallOp
  <2>2. waits' \subseteq waits
    BY <1>1 DEF StillWaiting
  <2> QED
    BY <1>1, <1>2, <2>1, <2>2, StoppedWatched
<1>3. CASE ~stopped
  <2>1. WaitsHaveTargets'
    BY <1>1, LookedAt
  <2> QED
    BY <1>1, <1>3, <2>1 DEF Watched, QueuedWires
<1> QED
  BY <1>2, <1>3

\* Every id counts as settled, so nobody waits any more.
LEMMA ClearWatched ==
  ASSUME IInv, Watched, Clear
  PROVE  Watched'
<1>1. stopped /\ stopped'
  BY StackTail DEF Clear, IInv
<1>2. waits' = {}
  <2>1. \A w \in waits : \A id \in w.ids : Settled(id, records', child)
    BY WaitIds DEF Clear, Settled, IInv
  <2> QED
    BY <2>1 DEF Clear, StillWaiting
<1> QED
  BY <1>1, <1>2 DEF Watched

LEMMA StartWatched ==
  ASSUME IInv, Watched, NEW x \in Delegations, Start(x)
  PROVE  Watched'
<1>1. Entry /\ x \in Unused /\ UNCHANGED <<child, waits, stopped>> /\ TypeOK
  BY DEF Start, IInv
<1>2. CASE records' = [records EXCEPT ![x] = "queued"] /\ wire' = Emitted({x}, "queued")
  <2>1. records' = Updated(records, {x}, "queued")
    BY <1>1, <1>2 DEF TypeOK, Updated
  <2> QED
    BY <1>1, <1>2, <2>1, AskedWatched
<1>3. CASE UNCHANGED <<records, wire>>
  <2>1. \A id : Pend(id) = {}
    BY <1>1, EntryPending DEF Entry
  <2> QED
    BY <1>1, <1>3, <2>1, QuietWatched DEF Entry
<1> QED
  BY <1>2, <1>3 DEF Start

LEMMA StartGroupWatched ==
  ASSUME IInv, Watched, NEW mode \in Modes, NEW ids \in MemberLists, StartGroup(mode, ids)
  PROVE  Watched'
<1> DEFINE new == Elements(ids)
           later == new \ Elements(EnqueueGroup(admission, mode, ids).admittedNow)
<1>1. /\ Entry /\ records' = Updated(records, later, "queued") /\ wire' = Emitted(later, "queued")
      /\ UNCHANGED <<child, waits, stopped>>
  BY DEF StartGroup
<1>2. \A id \in new : id \in Unused
  BY MemberListIs
<1>3. later \subseteq new
  OBVIOUS
<1> HIDE DEF new, later
<1> QED
  BY <1>1, <1>2, <1>3, AskedWatched

LEMMA ChildEndsWatched ==
  ASSUME IInv, Watched, NEW x \in Delegations, ChildEnds(x)
  PROVE  Watched'
<1>1. /\ calls = << >> /\ child' = [child EXCEPT ![x] = "over"]
      /\ calls' = <<Call("settle", x), Call("note", x)>> /\ UNCHANGED <<records, wire, waits, stopped>>
  BY DEF ChildEnds
<1>2. CASE stopped
  BY <1>1, <1>2, StackEmpty, StoppedWatched
<1>3. CASE ~stopped
  <2>1. Elements(calls') = {Call("settle", x), Call("note", x)}
    BY <1>1, StackTwo
  <2>2. "settle" \in Pend(x)'
    BY <2>1 DEF Pend, Top
  <2> QED
    BY <1>1, <1>3, <2>2, EntryPending, EndsWatched
<1> QED
  BY <1>2, <1>3

LEMMA ShutdownWatched ==
  ASSUME IInv, Shutdown
  PROVE  Watched'
<1>1. /\ Entry /\ stopped' /\ AbortMany(Delegations, <<Wipe>>)
  BY DEF Shutdown
<1> DEFINE next == <<Wipe>>
<1>2. \E s : s \in Seq(Frames) /\ calls' = s \o next
  <2>1. PICK order \in Orders(Delegations \intersect Running) :
           calls' = << >> \o Calls("kill", order) \o <<Check>> \o next
    BY <1>1 DEF AbortMany
  <2>2. (\A id \in Delegations : Life(id) /\ Pend(id) = {}) /\ AdmissionInv
    BY <1>1, EntryIs
  <2>3. Delegations \intersect Running \subseteq admission.running /\ IsFiniteSet(admission.running)
    BY <2>2, Stages DEF Running, WithRecord, Slot, AdmissionInv, Sound
  <2>4. IsFiniteSet(Delegations \intersect Running)
    BY <2>3, FS_Subset
  <2>5. order \in Seq(Delegations) /\ Distinct(order)
    BY <2>4, OrdersAre
  <2>6. Calls("kill", order) \in Seq(Frames)
    BY <2>5, StackCalls DEF Stacked, Ops
  <2>7. << >> \in Seq(Frames) /\ <<Check>> \in Seq(Frames)
    BY FramesOps
  <2> HIDE DEF next
  <2> DEFINE k == Calls("kill", order)  c1 == <<Check>>
  <2>8. k \in Seq(Frames) /\ c1 \in Seq(Frames)
    BY <2>6, <2>7
  <2>9. calls' = ((<< >> \o k) \o c1) \o next
    BY <2>1
  <2> HIDE DEF k, c1
  <2>10. (<< >> \o k) \o c1 \in Seq(Frames)
    BY <2>7, <2>8
  <2> QED
    BY <2>9, <2>10
<1>3. PICK s \in Seq(Frames) : calls' = s \o next
  BY <1>2
<1>4. next \in Seq(Frames) /\ Elements(next) = {Wipe}
  BY StackOne, FramesOps DEF Stacked
<1> HIDE DEF next
<1>5. Elements(calls') = Elements(s) \union Elements(next)
  BY <1>3, <1>4, ConcatElements
<1> QED
  BY <1>1, <1>4, <1>5 DEF Watched

LEMMA WatchedNext ==
  ASSUME IInv, IInv', Watched, Next
  PROVE  Watched'
<1>1. ASSUME NEW id \in Delegations, Start(id) PROVE Watched'
  BY <1>1, StartWatched
<1>2. ASSUME NEW id \in Delegations, ChildEnds(id) PROVE Watched'
  BY <1>2, ChildEndsWatched
<1>3. ASSUME NEW op, NEW ids, AbortEach(op, ids) PROVE Watched'
  <2>1. ~stopped /\ UNCHANGED <<records, child, wire, waits, stopped>> /\ calls = << >>
    BY <1>3 DEF AbortEach, Entry
  <2> QED
    BY <2>1, EntryPending, QuietWatched
<1>4. ASSUME NEW mode \in Modes, NEW ids \in MemberLists, StartGroup(mode, ids) PROVE Watched'
  BY <1>4, StartGroupWatched
<1>5. ASSUME NEW ids \in SUBSET Delegations, AbortSelected(ids) PROVE Watched'
  <2>1. ~stopped /\ UNCHANGED <<stopped, child>> /\ SettleQueuedAborts(ids \intersect WithRecord("queued"))
    BY <1>5 DEF AbortSelected, AbortMany, Entry
  <2> QED
    BY <2>1, CancelledWatched
<1>6. ASSUME NEW ids \in WaitSets, NEW timed \in BOOLEAN, Wait(ids, timed) PROVE Watched'
  <2> DEFINE w0 == [ids |-> ids, timed |-> timed]
  <2>1. /\ ~stopped /\ UNCHANGED <<records, child, wire, stopped, calls>> /\ waits' = waits \union {w0}
        /\ \E id \in ids : ~Settled(id, records, child)
    BY <1>6 DEF Wait, Entry
  <2>2. PICK id \in ids : ~Settled(id, records, child)
    BY <2>1
  <2>3. id \in Delegations /\ records[id] \in {"absent", "queued", "aborted", "handle"}
    BY BoundsAssumption DEF IInv, TypeOK
  <2>4. id \in w0.ids /\ Awaited(id)
    BY <2>2, <2>3 DEF Settled, Awaited
  <2>5. \A x : Pend(x)' = Pend(x)
    BY <2>1 DEF Pend
  <2>6. \A x : Awaited(x)' <=> Awaited(x)
    BY <2>1, <2>5 DEF Awaited
  <2> HIDE DEF w0
  <2>7. WaitsHaveTargets'
    BY <2>1, <2>4, <2>6 DEF Watched, WaitsHaveTargets
  <2> QED
    BY <2>1, <2>7 DEF Watched, QueuedWires
<1>7. ASSUME NEW w \in waits, WaitTimesOut(w) PROVE Watched'
  <2>1. UNCHANGED <<records, child, wire, stopped>> /\ waits' \subseteq waits /\ calls = << >>
    BY <1>7 DEF WaitTimesOut
  <2>2. (\A id : Pend(id) = {}) /\ Wipe \notin Elements(calls)
    BY <2>1, EntryPending, StackEmpty
  <2> QED
    BY <2>1, <2>2, QuietWatched, StoppedWatched
<1>8. ASSUME NEW id \in Delegations, Spawn(id) PROVE Watched'
  <2>1. Run("spawn", id) /\ SpawnNow(id) /\ UNCHANGED <<records, wire, waits, stopped>>
    BY <1>8 DEF Spawn
  <2> QED
    BY <2>1, SpawnWatched
<1>9. ASSUME NEW id \in Delegations, SpawnQueued(id) PROVE Watched'
  <2>1. ~stopped
    BY <1>9, NotStopped, CallOp DEF SpawnQueued, Run, Late
  <2>2. "dequeue" \in Pend(id)
    BY <1>9, StackTail DEF SpawnQueued, Run, IInv, Pend, Top
  <2>3. Promoted(id)
    BY <2>1, <2>2, Stages DEF IInv
  <2>4. Run("dequeue", id) /\ SpawnNow(id) /\ UNCHANGED <<records, wire, waits, stopped>>
    BY <1>9, <2>3 DEF SpawnQueued, Promoted
  <2> QED
    BY <2>4, SpawnWatched
<1>10. ASSUME NEW id \in Delegations, Attach(id) PROVE Watched'
  BY <1>10, AttachWatched
<1>11. ASSUME NEW id \in Delegations, OnSettle(id) PROVE Watched'
  BY <1>11, OnSettleWatched
<1>12. ASSUME NEW id \in Delegations, Notify(id) PROVE Watched'
  BY <1>12, NotifyWatched
<1>13. ASSUME NEW id \in Delegations, AbortQueued(id) PROVE Watched'
  <2>1. ~stopped
    BY <1>13, NotStopped, CallOp DEF AbortQueued, Run, Late
  <2>2. UNCHANGED <<stopped, child>> /\ SettleQueuedAborts({id})
    BY <1>13 DEF AbortQueued
  <2> QED
    BY <2>1, <2>2, CancelledWatched
<1>14. ASSUME NEW id \in Delegations, AbortRunning(id) PROVE Watched'
  BY <1>14, AbortRunningWatched
<1>15. ASSUME NEW id \in Delegations, Spare(id) PROVE Watched'
  <2>1. /\ calls # << >> /\ Head(calls).op \notin Top /\ Head(calls).op \notin Late /\ Stacked(calls)
        /\ UNCHANGED <<records, child, wire, waits, stopped>>
    BY <1>15, CallOp DEF Spare, Run, Top, Late, IInv
  <2>2. ~stopped
    BY <2>1, NotStopped
  <2>3. \A id0 : Pend(id0) = {}
    <3>1. \A c \in Elements(calls) : c.op \notin Top
      BY <2>1, StackBottom
    <3> QED
      BY <3>1, CallOp DEF Pend
  <2> QED
    BY <2>1, <2>2, <2>3, QuietWatched
<1>17. Step => Watched'
  BY <1>8, <1>9, <1>10, <1>11, <1>12, <1>13, <1>14, <1>15, CheckWatched, ClearWatched, Zenon DEF Step
<1>18. (\E id \in Delegations : Abort(id)) \/ ClearQueue => Watched'
  BY <1>3 DEF Abort, ClearQueue
<1> QED
  BY <1>1, <1>2, <1>4, <1>5, <1>6, <1>7, <1>17, <1>18, ShutdownWatched, Zenon DEF Next

LEMMA WaitsInvariant == Spec => []Watched
<1>1. Init => Watched
  BY DEF Init, Watched, QueuedWires, WaitsHaveTargets
<1>2. IInv /\ IInv' /\ Watched /\ [Next]_vars => Watched'
  <2> SUFFICES ASSUME IInv, IInv', Watched, [Next]_vars PROVE Watched'
    OBVIOUS
  <2>1. CASE Next
    BY <2>1, WatchedNext
  <2>2. CASE UNCHANGED vars
    <3>1. \A id : Awaited(id)' <=> Awaited(id)
      BY <2>2 DEF vars, Awaited, Pend
    <3> QED
      BY <2>2, <3>1 DEF vars, Watched, QueuedWires, WaitsHaveTargets
  <2> QED
    BY <2>1, <2>2
<1> QED
  BY <1>1, <1>2, Invariant, PTL DEF Spec

\* Between callbacks a wait has something left to wait for, but for runs
\* that settled inside their own promotion.
THEOREM OtherWaitsAreServedAlways == Spec => []OtherWaitsAreServed
<1>1. IInv /\ Watched => OtherWaitsAreServed
  <2> SUFFICES ASSUME IInv, Watched, Idle, NEW w \in waits
               PROVE  \E id \in w.ids : ~Settled(id, records, child) \/ SettledInPromotion(id)
    BY DEF OtherWaitsAreServed
  <2>1. (\A id : Pend(id) = {}) /\ Wipe \notin Elements(calls)
    BY EntryPending, StackEmpty DEF Idle
  <2>2. PICK id \in w.ids : Awaited(id)
    BY <2>1 DEF Watched, WaitsHaveTargets
  <2>3. ~Settled(id, records, child) \/ SettledInPromotion(id)
    BY <2>1, <2>2 DEF Awaited, Settled, SettledInPromotion, Wqo
  <2> QED
    BY <2>3
<1> QED
  BY <1>1, Invariant, WaitsInvariant, PTL

-----------------------------------------------------------------------------
(***************************************************************************)
(* The contract.                                                           *)
(***************************************************************************)

LEMMA PhaseIs ==
  ASSUME NEW id
  PROVE  /\ child[id] = "running" => Phase(id) = "running"
         /\ child[id] = "over" => Phase(id) = "over"
         /\ child[id] = "unborn" /\ done[id] = "none" => Phase(id) = "none"
         /\ child[id] = "unborn" /\ done[id] = "pending" => Phase(id) = "waiting"
         /\ child[id] = "unborn" /\ done[id] = "resolved" => Phase(id) = "over"
BY DEF Phase

LEMMA PhasePrimed ==
  ASSUME NEW id
  PROVE  /\ child'[id] = "running" => Phase(id)' = "running"
         /\ child'[id] = "over" => Phase(id)' = "over"
         /\ child'[id] = "unborn" /\ done'[id] = "none" => Phase(id)' = "none"
         /\ child'[id] = "unborn" /\ done'[id] = "pending" => Phase(id)' = "waiting"
         /\ child'[id] = "unborn" /\ done'[id] = "resolved" => Phase(id)' = "over"
BY DEF Phase

LEMMA PhaseOf ==
  ASSUME TypeOK, NEW id \in Delegations
  PROVE  /\ Phase(id) = "running" <=> child[id] = "running"
         /\ Phase(id) = "waiting" <=> child[id] = "unborn" /\ done[id] = "pending"
<1>1. child[id] \in {"unborn", "running", "over"} /\ done[id] \in {"none", "pending", "resolved"}
  BY DEF TypeOK
<1> QED
  BY <1>1, PhaseIs

LEMMA SamePhase ==
  ASSUME TypeOK, TypeOK', NEW id \in Delegations, child'[id] = child[id],
         done'[id] = done[id] \/ child[id] # "unborn"
  PROVE  Phase(id)' = Phase(id)
<1>1. child[id] \in {"unborn", "running", "over"} /\ done[id] \in {"none", "pending", "resolved"}
  BY DEF TypeOK
<1> QED
  BY <1>1, PhaseIs, PhasePrimed

Phases == [id \in Delegations |-> Phase(id)]
Told == {id \in Delegations : notes[id] > 0}

LEMMA InIs == \A p : Contract!In(p) = {id \in Delegations : Phase(id) = p}
BY DEF Contract!In

LEMMA MoveIs ==
  ASSUME NEW ids, NEW p, \A id \in Delegations : Phase(id)' = IF id \in ids THEN p ELSE Phase(id)
  PROVE  Contract!Move(ids, p)
BY DEF Contract!Move

LEMMA Stutters ==
  ASSUME \A id \in Delegations : Phase(id)' = Phase(id), \A id \in Delegations : notes'[id] = notes[id],
         UNCHANGED stopped
  PROVE  UNCHANGED Contract!vars
BY DEF Contract!vars

LEMMA InitialContract ==
  ASSUME Init
  PROVE  Contract!Init
<1>1. \A id \in Delegations : Phase(id) = "none" /\ ~(notes[id] > 0)
  BY PhaseIs DEF Init
<1> QED
  BY <1>1 DEF Contract!Init, Init

\* Nothing about a delegation moves.
LEMMA QuietStutters ==
  ASSUME IInv, IInv', UNCHANGED <<child, done, notes, stopped>>
  PROVE  UNCHANGED Contract!vars
<1>1. \A id \in Delegations : Phase(id)' = Phase(id)
  BY SamePhase DEF IInv
<1> QED
  BY <1>1, Stutters

LEMMA AskStep ==
  ASSUME IInv, IInv', NEW ids, \A id \in ids : id \in Unused, Entry,
         done' = Updated(done, ids, "pending"), UNCHANGED <<child, notes, stopped>>
  PROVE  Contract!Ask(ids) /\ ids \in SUBSET Delegations
<1>1. TypeOK /\ TypeOK' /\ \A id \in Delegations : Life(id)
  BY EntryIs DEF IInv
<1>2. \A id \in ids : id \in Delegations /\ New(id)
  BY <1>1, Stages DEF Unused
<1>3. \A id \in ids : Phase(id) = "none"
  BY <1>2, PhaseIs DEF New
<1>4. \A id \in Delegations : Phase(id)' = IF id \in ids THEN "waiting" ELSE Phase(id)
  <2>1. \A id \in Delegations : done'[id] = IF id \in ids THEN "pending" ELSE done[id]
    BY <1>1 DEF TypeOK, Updated
  <2>2. \A id \in ids : Phase(id)' = "waiting"
    BY <1>2, <2>1, PhasePrimed DEF New
  <2>3. \A id \in Delegations \ ids : Phase(id)' = Phase(id)
    BY <1>1, <2>1, SamePhase
  <2> QED
    BY <2>2, <2>3
<1>5. Contract!Move(ids, "waiting")
  BY <1>4, MoveIs
<1>6. ids \subseteq Contract!In("none")
  BY <1>2, <1>3, InIs
<1> QED
  BY <1>2, <1>5, <1>6 DEF Contract!Ask, Entry

\* The contract's own copy of the library's definition
LEMMA SameCardinality == \A S : Contract!Cardinality(S) = Cardinality(S)
BY Zenon DEF Contract!Cardinality, Cardinality

\* A child that takes the slot it was promised leaves no more than Cap running.
LEMMA BeginStep ==
  ASSUME IInv, IInv', NEW x \in Delegations, ~stopped, Slot(x), child[x] = "unborn", done[x] = "pending",
         child' = [child EXCEPT ![x] = "running"], UNCHANGED <<done, notes, stopped>>
  PROVE  Contract!Begin(x)
<1>1. TypeOK /\ TypeOK' /\ (\A id \in Delegations : Life(id)) /\ Sound(admission)
  BY DEF IInv, AdmissionInv
<1>2. Cardinality(Contract!In("running")) < Cap
  <2> DEFINE R == Contract!In("running")
  <2>1. R \subseteq admission.running \ {x}
    BY <1>1, InIs, PhaseOf, Stages DEF Slot
  <2>2. IsFiniteSet(admission.running) /\ Cardinality(admission.running) <= Cap /\ x \in admission.running
    BY <1>1 DEF Sound, Slot
  <2> HIDE DEF R
  <2>3. IsFiniteSet(admission.running \ {x}) /\ Cardinality(admission.running \ {x}) = Cardinality(admission.running) - 1
    BY <2>2, FS_RemoveElement
  <2>4. Cardinality(R) <= Cardinality(admission.running \ {x})
    BY <2>1, <2>3, FS_Subset
  <2>5. /\ Cardinality(admission.running) \in Nat /\ Cardinality(admission.running \ {x}) \in Nat
        /\ Cardinality(R) \in Nat
    BY <2>1, <2>2, <2>3, FS_Subset, FS_CardinalityType
  <2>6. Cardinality(R) < Cap
    BY <2>2, <2>3, <2>4, <2>5, CapsAssumption
  <2> QED
    BY <2>6 DEF R
<1>3. \A id \in Delegations : Phase(id)' = IF id \in {x} THEN "running" ELSE Phase(id)
  <2>1. child'[x] = "running" /\ \A id \in Delegations : id # x => child'[id] = child[id]
    BY <1>1 DEF TypeOK
  <2>2. Phase(x)' = "running"
    BY <2>1, PhasePrimed
  <2> QED
    BY <1>1, <2>1, <2>2, SamePhase
<1>4. x \in Contract!In("waiting") /\ Contract!Move({x}, "running")
  BY <1>3, MoveIs, InIs, PhaseIs
<1> QED
  BY <1>2, <1>4, SameCardinality DEF Contract!Begin

LEMMA EndStep ==
  ASSUME IInv, IInv', NEW x \in Delegations,
         child[x] = "running" \/ (child[x] = "unborn" /\ done[x] = "pending"),
         child' = [child EXCEPT ![x] = "over"], UNCHANGED <<done, notes, stopped>>
  PROVE  Contract!End(x)
<1>1. TypeOK /\ TypeOK'
  BY DEF IInv
<1>2. \A id \in Delegations : Phase(id)' = IF id \in {x} THEN "over" ELSE Phase(id)
  <2>1. child'[x] = "over" /\ \A id \in Delegations : id # x => child'[id] = child[id]
    BY <1>1 DEF TypeOK
  <2>2. Phase(x)' = "over"
    BY <2>1, PhasePrimed
  <2> QED
    BY <1>1, <2>1, <2>2, SamePhase
<1>3. x \in Contract!In("running") \union Contract!In("waiting") /\ Contract!Move({x}, "over")
  BY <1>2, MoveIs, InIs, PhaseIs
<1> QED
  BY <1>3 DEF Contract!End

LEMMA SettledPhases ==
  ASSUME IInv, IInv', NEW ids, \A id \in ids : id \in Delegations /\ child[id] = "unborn",
         done' = Updated(done, ids, "resolved"), child' = child
  PROVE  \A id \in Delegations : Phase(id)' = IF id \in ids THEN "over" ELSE Phase(id)
<1>1. TypeOK /\ TypeOK'
  BY DEF IInv
<1>2. \A id \in Delegations : done'[id] = IF id \in ids THEN "resolved" ELSE done[id]
  BY <1>1 DEF TypeOK, Updated
<1>3. \A id \in ids : Phase(id)' = "over"
  BY <1>2, PhasePrimed
<1>4. \A id \in Delegations \ ids : Phase(id)' = Phase(id)
  BY <1>1, <1>2, SamePhase
<1> QED
  BY <1>3, <1>4

LEMMA CancelStep ==
  ASSUME IInv, IInv', ~stopped, UNCHANGED <<stopped, child>>, NEW ids,
         \A id \in ids : id \in Delegations /\ Waiting(id), SettleQueuedAborts(ids)
  PROVE  Contract!Cancel(ids) /\ ids \in SUBSET Delegations
<1>1. TypeOK /\ done' = Updated(done, ids, "resolved")
  BY DEF IInv, SettleQueuedAborts
<1>2. \A id \in ids : child[id] = "unborn" /\ done[id] = "pending"
  BY DEF Waiting
<1>3. Contract!Move(ids, "over")
  BY <1>1, <1>2, SettledPhases, MoveIs
<1>4. ids \subseteq Contract!In("waiting")
  BY <1>2, InIs, PhaseIs
<1>5. Told' = Told \union ids
  <2>1. \A id \in Delegations : notes'[id] = IF id \in ids THEN notes[id] + 1 ELSE notes[id]
    BY <1>1, NotifiedIs DEF SettleQueuedAborts
  <2>2. \A id \in Delegations : notes[id] \in Nat
    BY <1>1 DEF TypeOK
  <2>3. \A id \in Delegations : notes'[id] > 0 <=> notes[id] > 0 \/ id \in ids
    BY <2>1, <2>2
  <2> QED
    BY <2>3 DEF Told
<1> QED
  BY <1>3, <1>4, <1>5 DEF Contract!Cancel, Told

LEMMA CloseStep ==
  ASSUME IInv, IInv', Shutdown
  PROVE  Contract!Close
<1> DEFINE queued == Delegations \intersect WithRecord("queued")
<1>1. /\ Entry /\ stopped' = TRUE /\ SettleQueuedAborts(queued) /\ child' = child
  BY DEF Shutdown, AbortMany
<1>2. (\A id \in Delegations : Life(id) /\ Pend(id) = {}) /\ TypeOK
  BY <1>1, EntryIs
<1>3. ASSUME NEW id \in Delegations
      PROVE  id \in queued <=> child[id] = "unborn" /\ done[id] = "pending"
  BY <1>2 DEF WithRecord, Life, New, Waiting, Promoted, Accepted, Born, Runs, Ends, Cancelled
<1>4. queued = Contract!In("waiting")
  BY <1>2, <1>3, InIs, PhaseOf
<1>5. \A id \in queued : id \in Delegations /\ child[id] = "unborn"
  BY <1>3
<1>6. done' = Updated(done, queued, "resolved")
  BY <1>1 DEF SettleQueuedAborts
<1> HIDE DEF queued
<1>7. Contract!Move(queued, "over")
  BY <1>1, <1>5, <1>6, SettledPhases, MoveIs
<1>8. Told' = Told
  <2>1. \A id \in Delegations : notes'[id] = notes[id]
    BY <1>1, <1>2, NotifiedIs DEF SettleQueuedAborts
  <2> QED
    BY <2>1 DEF Told
<1> QED
  BY <1>1, <1>4, <1>7, <1>8 DEF Contract!Close, Entry, Told

LEMMA SpawnContract ==
  ASSUME IInv, IInv', NEW x \in Delegations, NEW o \in {"spawn", "dequeue"}, Run(o, x), SpawnNow(x),
         UNCHANGED <<done, notes, stopped>>
  PROVE  Contract!Begin(x) \/ Contract!End(x)
<1>1. ~stopped
  BY NotStopped, CallOp DEF Run, Late
<1>2. o \in Pend(x) /\ \A id \in Delegations : Life(id)
  BY <1>1, StackTail DEF Run, IInv, Pend, Top
<1>3. Accepted(x) \/ Promoted(x)
  BY <1>2, Stages
<1>4. child[x] = "unborn" /\ done[x] = "pending" /\ Slot(x)
  BY <1>3 DEF Accepted, Promoted
<1>5. CASE child' = [child EXCEPT ![x] = "running"]
  BY <1>1, <1>4, <1>5, BeginStep
<1>6. CASE child' = [child EXCEPT ![x] = "over"]
  BY <1>4, <1>6, EndStep
<1> QED
  BY <1>5, <1>6 DEF SpawnNow

LEMMA TellStep ==
  ASSUME IInv, IInv', NEW x \in Delegations, Notify(x)
  PROVE  Contract!Tell(x) \/ UNCHANGED Contract!vars
<1>1. /\ Run("note", x) /\ UNCHANGED <<child, done, stopped>> /\ notes' = Notified({x}) /\ TypeOK /\ TypeOK'
  BY DEF Notify, IInv
<1>2. \A id \in Delegations : Phase(id)' = Phase(id)
  BY <1>1, SamePhase
<1>3. \A id \in Delegations : notes'[id] = IF id = x /\ ~stopped THEN notes[id] + 1 ELSE notes[id]
  BY <1>1, NotifiedIs
<1>4. CASE stopped
  BY <1>1, <1>2, <1>3, <1>4, Stutters
<1>5. CASE ~stopped
  <2>1. "note" \in Pend(x) /\ Life(x)
    BY <1>1, <1>5, StackTail DEF Run, IInv, Pend, Top
  <2>2. Ends(x)
    BY <2>1, Stages
  <2>3. child[x] = "over" /\ notes[x] = 0
    BY <2>1, <2>2 DEF Ends
  <2>4. x \in Contract!In("over") \ Told
    BY <2>3, InIs, PhaseIs DEF Told
  <2>5. \A id \in Delegations : notes'[id] > 0 <=> notes[id] > 0 \/ id = x
    BY <1>3, <1>5, <2>3
  <2>6. Told' = Told \union {x}
    BY <2>5 DEF Told
  <2>7. UNCHANGED Phases
    BY <1>2 DEF Phases
  <2> QED
    BY <1>1, <1>5, <2>4, <2>6, <2>7 DEF Contract!Tell, Told, Phases
<1> QED
  BY <1>4, <1>5

LEMMA SettleStutters ==
  ASSUME IInv, IInv', NEW x \in Delegations, OnSettle(x)
  PROVE  UNCHANGED Contract!vars
<1>1. UNCHANGED <<child, notes, stopped>> /\ TypeOK /\ TypeOK'
  BY DEF OnSettle, IInv
<1>2. CASE stopped
  <2>1. UNCHANGED done
    BY <1>2 DEF OnSettle
  <2> QED
    BY <1>1, <2>1, QuietStutters
<1>3. CASE ~stopped
  <2>1. "settle" \in Pend(x) /\ Life(x)
    BY <1>3, StackTail DEF OnSettle, Run, IInv, Pend, Top
  <2>2. Ends(x)
    BY <2>1, Stages
  <2>3. child[x] = "over" /\ \A id \in Delegations : id # x => done'[id] = done[id]
    BY <1>1, <1>3, <2>2 DEF Ends, OnSettle, TypeOK
  <2>4. \A id \in Delegations : Phase(id)' = Phase(id)
    BY <1>1, <2>3, SamePhase
  <2> QED
    BY <1>1, <2>4, Stutters
<1> QED
  BY <1>2, <1>3

LEMMA ContractNext ==
  ASSUME IInv, IInv', Next
  PROVE  Contract!Next \/ UNCHANGED Contract!vars
<1> DEFINE Mapped == Contract!Next \/ UNCHANGED Contract!vars
<1>1. ASSUME NEW ids \in SUBSET Delegations, Contract!Ask(ids) \/ Contract!Cancel(ids) PROVE Mapped
  BY <1>1 DEF Contract!Next
<1>2. ASSUME NEW x \in Delegations, Contract!Begin(x) \/ Contract!End(x) \/ Contract!Tell(x) PROVE Mapped
  BY <1>2 DEF Contract!Next
<1>3. ASSUME UNCHANGED <<child, done, notes, stopped>> PROVE Mapped
  BY <1>3, QuietStutters
<1>4. Shutdown => Mapped
  BY CloseStep DEF Contract!Next
<1> HIDE DEF Mapped
<1>5. ASSUME NEW x \in Delegations, Start(x) PROVE Mapped
  <2> DEFINE ids == {x}
  <2>1. /\ Entry /\ x \in Unused /\ UNCHANGED <<child, notes, stopped>>
        /\ done' = [done EXCEPT ![x] = "pending"] /\ done \in [Delegations -> {"none", "pending", "resolved"}]
    BY <1>5 DEF Start, IInv, TypeOK
  <2>2. done' = Updated(done, ids, "pending") /\ \A id \in ids : id \in Unused
    BY <2>1 DEF Updated
  <2> HIDE DEF ids
  <2>3. Contract!Ask(ids) /\ ids \in SUBSET Delegations
    BY <2>1, <2>2, AskStep
  <2> QED
    BY <1>1, <2>3
<1>6. ASSUME NEW mode \in Modes, NEW ids \in MemberLists, StartGroup(mode, ids) PROVE Mapped
  <2> DEFINE new == Elements(ids)
  <2>1. Entry /\ UNCHANGED <<child, notes, stopped>> /\ done' = Updated(done, new, "pending")
    BY <1>6 DEF StartGroup
  <2>2. \A id \in new : id \in Unused
    BY MemberListIs
  <2> HIDE DEF new
  <2>3. Contract!Ask(new) /\ new \in SUBSET Delegations
    BY <2>1, <2>2, AskStep
  <2> QED
    BY <1>1, <2>3
<1>7. ASSUME NEW x \in Delegations, ChildEnds(x) PROVE Mapped
  <2>1. Contract!End(x)
    BY <1>7, EndStep DEF ChildEnds
  <2> QED
    BY <1>2, <2>1
<1>8. ASSUME NEW ids \in SUBSET Delegations, AbortSelected(ids) PROVE Mapped
  <2>1. PICK queued : queued = ids \intersect WithRecord("queued")
    OBVIOUS
  <2>2. /\ Entry /\ ~stopped /\ UNCHANGED <<stopped, child>> /\ SettleQueuedAborts(queued)
    BY <1>8, <2>1 DEF AbortSelected, AbortMany, Entry
  <2>3. \A id \in queued : id \in Delegations /\ Waiting(id)
    BY <2>1, <2>2, EntryIs, Stages DEF WithRecord
  <2>4. Contract!Cancel(queued) /\ queued \in SUBSET Delegations
    BY <2>2, <2>3, CancelStep
  <2> QED
    BY <1>1, <2>4
<1>9. ASSUME NEW x \in Delegations, Spawn(x) PROVE Mapped
  <2>1. Contract!Begin(x) \/ Contract!End(x)
    BY <1>9, SpawnContract DEF Spawn
  <2> QED
    BY <1>2, <2>1
<1>10. ASSUME NEW x \in Delegations, SpawnQueued(x) PROVE Mapped
  <2>1. CASE SpawnNow(x)
    <3>1. Contract!Begin(x) \/ Contract!End(x)
      BY <1>10, <2>1, SpawnContract DEF SpawnQueued
    <3> QED
      BY <1>2, <3>1
  <2>2. CASE UNCHANGED child
    BY <1>3, <1>10, <2>2 DEF SpawnQueued
  <2> QED
    BY <1>10, <2>1, <2>2 DEF SpawnQueued
<1>11. ASSUME NEW x \in Delegations, Notify(x) PROVE Mapped
  BY <1>2, <1>11, TellStep DEF Mapped
<1>12. ASSUME NEW x \in Delegations, OnSettle(x) PROVE Mapped
  BY <1>12, SettleStutters DEF Mapped
<1>13. ASSUME NEW x \in Delegations, AbortQueued(x) PROVE Mapped
  <2> DEFINE ids == {x}
  <2>1. /\ calls # << >> /\ Head(calls).op \notin Top /\ Head(calls).op \notin Late
        /\ UNCHANGED <<stopped, child>> /\ records[x] = "queued" /\ SettleQueuedAborts(ids)
    BY <1>13, CallOp DEF AbortQueued, Run, Top, Late
  <2>2. ~stopped /\ Life(x)
    BY <2>1, NotStopped DEF IInv
  <2>3. Pend(x) = {}
    <3>1. \A c \in Elements(calls) : c.op \notin Top
      BY <2>1, StackBottom DEF IInv
    <3> QED
      BY <3>1, CallOp DEF Pend
  <2>4. \A id \in ids : id \in Delegations /\ Waiting(id)
    BY <2>1, <2>2, <2>3, Stages
  <2> HIDE DEF ids
  <2>5. Contract!Cancel(ids) /\ ids \in SUBSET Delegations
    BY <2>1, <2>2, <2>4, CancelStep
  <2> QED
    BY <1>1, <2>5
<1>14. ASSUME NEW x \in Delegations, AbortRunning(x) PROVE Mapped
  <2>1. Contract!End(x)
    BY <1>14, EndStep DEF AbortRunning, Running
  <2> QED
    BY <1>2, <2>1
<1>15. ASSUME NEW x \in Delegations, Attach(x) \/ Spare(x) \/ Abort(x) PROVE Mapped
  BY <1>3, <1>15 DEF Attach, Spare, Abort, AbortEach
<1>16. ClearQueue \/ CheckWaiters \/ Clear => Mapped
  BY <1>3 DEF ClearQueue, AbortEach, CheckWaiters, Clear
<1>17. ASSUME NEW ids \in WaitSets, NEW timed \in BOOLEAN, Wait(ids, timed) PROVE Mapped
  BY <1>3, <1>17 DEF Wait
<1>18. ASSUME NEW w \in waits, WaitTimesOut(w) PROVE Mapped
  BY <1>3, <1>18 DEF WaitTimesOut
<1>19. Step => Mapped
  BY <1>9, <1>10, <1>11, <1>12, <1>13, <1>14, <1>15, <1>16, Zenon DEF Step
<1>20. Mapped
  BY <1>4, <1>5, <1>6, <1>7, <1>8, <1>15, <1>16, <1>17, <1>18, <1>19, Zenon DEF Next
<1> QED
  BY <1>20 DEF Mapped

\* The registry implements DelegationContract, at every step of every
\* callback: a delegation is started once, ends once and is told once, never
\* more than Cap run, and after shutdown nothing starts and nothing is told.
THEOREM RegistryKeepsItsContract == Spec => KeepsContract
<1>1. Init => Contract!Init
  BY InitialContract
<1>2. IInv /\ IInv' /\ [Next]_vars => [Contract!Next]_Contract!vars
  <2> SUFFICES ASSUME IInv, IInv', [Next]_vars PROVE Contract!Next \/ UNCHANGED Contract!vars
    OBVIOUS
  <2>1. CASE Next
    BY <2>1, ContractNext
  <2>2. CASE UNCHANGED vars
    BY <2>2, QuietStutters DEF vars
  <2> QED
    BY <2>1, <2>2
<1> QED
  BY <1>1, <1>2, Invariant, PTL DEF Spec, KeepsContract, Contract!Spec
=============================================================================
