---------------------------- MODULE NoteDelivery ----------------------------
(***************************************************************************)
(* The delivery of completion notes, in extensions/subagent/index.ts.  The *)
(* first note of a quiet period is sent at once and opens a window; notes  *)
(* that arrive while it is open are held and sent together when it expires *)
(* or when enough of them are held.  Each card of a message carries the    *)
(* structured result of its delegation, read back from a ring that keeps   *)
(* only the last few results.                                              *)
(*                                                                         *)
(* A note is the number of its arrival: the registry sends one note per    *)
(* delegation (DelegationRegistry) and none after its shutdown.            *)
(***************************************************************************)
EXTENDS Integers, Sequences

CONSTANTS Notes,      \* bound: notes that arrive in the session
          MaxCards,   \* BATCH_MAX_CARDS
          RingSize    \* RESULT_CACHE_LIMIT

ASSUME DeliveryAssumption ==
  /\ Notes \in Nat
  /\ MaxCards \in Nat \ {0}
  /\ RingSize \in Nat
  /\ MaxCards <= RingSize

VARIABLES
  arrived,   \* how many notes were accepted
  held,      \* heldNotes
  window,    \* batchWindowTimer is set, and pending
  ring,      \* the cached results, oldest first
  sent,      \* the messages: for each its cards and whether pi took it
  ended,     \* session_shutdown was handled
  closed     \* registry.shutdown was called: no note is accepted from here on

vars == <<arrived, held, window, ring, sent, ended, closed>>

Init ==
  /\ arrived = 0
  /\ held = << >>
  /\ window = FALSE
  /\ ring = << >>
  /\ sent = << >>
  /\ ended = FALSE
  /\ closed = FALSE

\* Mutant: the ring keeps one result less.
Put_OneLess(note) ==
  LET grown == Append(ring, note)
  IN  ring' = IF Len(grown) >= RingSize THEN Tail(grown) ELSE grown

\* Mutant: the result is filed under the next note.
Put_NextNote(note) == ring' = Append(ring, note + 1)

\* DelegationResultCache.put of a new id
Put(note) ==
  LET grown == Append(ring, note)
  IN  ring' = IF Len(grown) > RingSize THEN Tail(grown) ELSE grown

Cached(note, results) == \E i \in DOMAIN results : results[i] = note

\* sendCards: no message without a card.  pi.sendMessage may throw.
SendCards(notes, taken) ==
  sent' = IF notes = << >> THEN sent
          ELSE Append(sent,
                 [cards |-> [i \in DOMAIN notes |->
                               [note |-> notes[i], result |-> Cached(notes[i], ring')]],
                  taken |-> taken])

\* Mutant: the held notes are sent and kept.
FlushHeldNotes_Keeps(notes, taken) ==
  /\ held' = notes
  /\ SendCards(notes, taken)

\* flushHeldNotes: the notes are let go before they are sent.
FlushHeldNotes(notes, taken) ==
  /\ held' = << >>
  /\ SendCards(notes, taken)

\* deliverNote outside a window.  A sendMessage that throws leaves the
\* window shut.
DeliverLead(taken) ==
  /\ ~closed /\ ~window /\ arrived < Notes
  /\ arrived' = arrived + 1
  /\ Put(arrived')
  /\ SendCards(<<arrived'>>, taken)
  /\ window' = taken
  /\ UNCHANGED <<held, ended, closed>>

\* deliverNote inside a window.  A full batch leaves the window open.
DeliverHeld(taken) ==
  LET holding == Append(held, arrived')
  IN  /\ ~closed /\ window /\ arrived < Notes
      /\ arrived' = arrived + 1
      /\ Put(arrived')
      /\ \/ /\ Len(holding) >= MaxCards
            /\ FlushHeldNotes(holding, taken)
         \/ /\ Len(holding) < MaxCards
            /\ held' = holding
            /\ UNCHANGED sent
      /\ UNCHANGED <<window, ended, closed>>

\* Mutant: the window closes and the held notes wait for the next one.
WindowExpires_NoFlush(taken) ==
  /\ window
  /\ window' = FALSE
  /\ UNCHANGED <<arrived, held, ring, sent, ended, closed>>

WindowExpires(taken) ==
  /\ window
  /\ window' = FALSE
  /\ ring' = ring
  /\ FlushHeldNotes(held, taken)
  /\ UNCHANGED <<arrived, ended, closed>>

\* The handler of session_shutdown.  If its flush throws, it does not reach
\* registry.shutdown.
SessionShutdown(taken) ==
  /\ ~ended
  /\ ended' = TRUE
  /\ closed' = (taken \/ held = << >>)
  /\ window' = FALSE
  /\ ring' = ring
  /\ FlushHeldNotes(held, taken)
  /\ UNCHANGED arrived

Next ==
  \E taken \in BOOLEAN :
    DeliverLead(taken) \/ DeliverHeld(taken) \/ WindowExpires(taken) \/ SessionShutdown(taken)

\* The window's timer fires.
Fairness == WF_vars(\E taken \in BOOLEAN : WindowExpires(taken))

Spec == Init /\ [][Next]_vars /\ Fairness

-----------------------------------------------------------------------------
(***************************************************************************)
(* Properties.                                                             *)
(***************************************************************************)

Numbers == 1 .. Notes

\* The shape of the state.
TypeOK ==
  /\ arrived \in 0 .. Notes
  /\ held \in Seq(Numbers)
  /\ window \in BOOLEAN
  /\ ring \in Seq(Numbers)
  /\ sent \in Seq([cards : Seq([note : Numbers, result : BOOLEAN]), taken : BOOLEAN])
  /\ ended \in BOOLEAN /\ closed \in BOOLEAN

\* The notes of the first n messages, in the order in which they went out
SentNotes ==
  LET out[n \in 0 .. Len(sent)] ==
        IF n = 0 THEN << >>
        ELSE out[n - 1] \o [i \in DOMAIN sent[n].cards |-> sent[n].cards[i].note]
  IN  out[Len(sent)]

\* T97: each note is handed to pi exactly once, as a lead or in exactly one
\* batch, and in the order of arrival; what has not been is still held.  No
\* message is empty or larger than the cap, and a full batch never waits.
EachNoteOnceInOrder ==
  /\ SentNotes \o held = [i \in 1 .. arrived |-> i]
  /\ \A i \in DOMAIN sent : Len(sent[i].cards) \in 1 .. MaxCards
  /\ Len(held) < MaxCards

\* Every card still finds its result in the ring when it is sent, however
\* long it was held and whatever arrived after it.
CardsCarryResults ==
  \A i \in DOMAIN sent : \A j \in DOMAIN sent[i].cards : sent[i].cards[j].result

\* A held note does not wait for another note to arrive: the window's timer
\* or the shutdown sends it.
HeldIsSent == held # << >> ~> held = << >>
=============================================================================
