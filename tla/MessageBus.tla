----------------------------- MODULE MessageBus ------------------------------
(***************************************************************************)
(* The message bus of the user database: send_message, deliver_for_session *)
(* and the four-day prune of badger_store.py, as the delivery hook         *)
(* (message_delivery_hook.py) and send_message.py drive them.              *)
(*                                                                         *)
(* Sends and deliveries are BEGIN IMMEDIATE transactions of separate       *)
(* processes, so each is one action.  A hook delivers for its session; the *)
(* project it resolves from its directory is the session's, or none.       *)
(*                                                                         *)
(* Left out: the contents of messages, and the hook's answer after the     *)
(* commit: mail counts as handed to the session when the cursor passes it. *)
(* serial, live and start are history: the order of sending; the sessions  *)
(* that have had a usable cursor ever since; and the read that began the   *)
(* cursor's life, its cutoff and whether it read direct mail alone.        *)
(***************************************************************************)
EXTENDS Integers, FiniteSets, Sequences, FiniteSetsExt, SequencesExt

CONSTANTS
  Sessions,     \* sessions that send
  Readers,      \* those of them whose hooks read
  ProjectOf,    \* the project of each session
  None,         \* a target or project that is not there (SQL's NULL)
  Window,       \* a first read sees mail this old (30 minutes)
  Retention,    \* rows older than this are pruned (4 days)
  StartCap,     \* a first read delivers this many messages at most (16)
  MaxTime,      \* bound: the clock
  MaxMessages   \* bound: messages ever sent

\* A row of the cursors table, with its history
Cursors == [id : Nat, ts : Nat, start : [cutoff : Int, alone : BOOLEAN]]

ASSUME BusAssumption ==
  /\ Window \in Nat /\ Retention \in Nat /\ Window < Retention
  /\ StartCap \in Nat \ {0} /\ Readers \subseteq Sessions
  /\ None \notin Sessions /\ \A s \in Sessions : ProjectOf[s] # None
  /\ None \notin Cursors
  /\ MaxTime \in Nat /\ MaxMessages \in Nat

VARIABLES
  messages,  \* the messages table
  nextId,    \* its AUTOINCREMENT counter
  cursors,   \* the cursors table: per session its cursor_id and ts, or None
  now,       \* the clock
  sent,      \* how many messages were sent
  handed,    \* per session the serials of the messages it was handed, in order
  replaced   \* whether the database was replaced by an older one

busVars == << messages, nextId, cursors, now, sent, handed, replaced >>

Projects == {ProjectOf[s] : s \in Sessions}

BusInit ==
  /\ messages = {} /\ nextId = 1
  /\ cursors = [s \in Readers |-> None]
  /\ now = 0 /\ sent = 0 /\ replaced = FALSE
  /\ handed = [s \in Readers |-> << >>]

-----------------------------------------------------------------------------
(***************************************************************************)
(* Reading the tables.                                                     *)
(***************************************************************************)

TopId(rows) == IF rows = {} THEN 0 ELSE Max({m.id : m \in rows})

\* A cursor above every row was left by a replaced database: the session
\* reads as one without a cursor.
HasCursor(s) == cursors[s] # None /\ cursors[s].id <= TopId(messages)

Cutoff == now - Window

\* The three shapes of address, without the session's own messages; a
\* session without a project is only addressed by name.
ReadAddressed(s, project) ==
  {m \in messages :
     /\ m.sender # s
     /\ \/ m.session = s
        \/ project # None /\ m.session = None /\ m.project \in {project, None}}

\* ORDER BY id: the i-th row is the one with i rows up to its id.
Rank(rows, m) == Cardinality({n \in rows : n.id <= m.id})
InOrder(rows) == [i \in 1 .. Cardinality(rows) |-> CHOOSE m \in rows : Rank(rows, m) = i]

Serials(batch) == [i \in DOMAIN batch |-> batch[i].serial]

\* Mutant: without a project the first read lands past every message.
Landing_Global(s, project) == TopId(messages)

\* Where a first read leaves the cursor: past everything if all three shapes
\* were read, else past the session's own recent mail and all that is old.
Landing(s, project) ==
  IF project # None
  THEN TopId(messages)
  ELSE TopId({m \in messages : m.session = s /\ m.sender # s /\ m.ts >= Cutoff}
             \union {m \in messages : m.ts < Cutoff})

-----------------------------------------------------------------------------
(***************************************************************************)
(* Operations of the store.                                                *)
(***************************************************************************)

Targets == [session : Sessions \union {None}, project : Projects \union {None}]

\* Mutant: a message to a session keeps its project.
Stored_Both(target) == target

\* The address as it is stored: a session wins over a project.
Stored(target) == IF target.session = None THEN target ELSE [target EXCEPT !.project = None]

\* send_message; without a target the message is for the whole machine.
SendMessage ==
  \E sender \in Sessions, target \in Targets :
    /\ sent < MaxMessages
    /\ messages' = messages \union
         {[id |-> nextId, ts |-> now, sender |-> sender, session |-> Stored(target).session,
           project |-> Stored(target).project, serial |-> sent + 1, live |-> {s \in Readers : HasCursor(s)}]}
    /\ nextId' = nextId + 1
    /\ sent' = sent + 1
    /\ UNCHANGED << cursors, now, handed, replaced >>

Hand(s, batch, id, start) ==
  /\ handed' = [handed EXCEPT ![s] = @ \o Serials(batch)]
  /\ cursors' = [cursors EXCEPT ![s] = [id |-> id, ts |-> now, start |-> start]]
  /\ UNCHANGED << messages, nextId, now, sent, replaced >>

\* Mutant: the first read is not capped by age.
FirstRead_Backlog(s, project) ==
  /\ ~ HasCursor(s)
  /\ LET rows == InOrder(ReadAddressed(s, project))
     IN  Hand(s, SubSeq(rows, 1, Min({StartCap, Len(rows)})), Landing(s, project), [cutoff |-> Cutoff, alone |-> project = None])

\* deliver_for_session without a cursor: the oldest of the recent mail.
FirstRead(s, project) ==
  /\ ~ HasCursor(s)
  /\ LET rows == InOrder({m \in ReadAddressed(s, project) : m.ts >= Cutoff})
     IN  Hand(s, SubSeq(rows, 1, Min({StartCap, Len(rows)})), Landing(s, project), [cutoff |-> Cutoff, alone |-> project = None])

\* deliver_for_session with a cursor: all that came after it.
LaterRead(s, project) ==
  /\ HasCursor(s)
  /\ LET rows == InOrder({m \in ReadAddressed(s, project) : m.id > cursors[s].id})
     IN  Hand(s, rows, IF rows = << >> THEN cursors[s].id ELSE Last(rows).id, cursors[s].start)

DeliverForSession ==
  \E s \in Readers : \E project \in {ProjectOf[s], None} : FirstRead(s, project) \/ LaterRead(s, project)

\* open_user's prunes; each is throttled on its own, so either may run first.
PruneMessages ==
  /\ \E m \in messages : m.ts < now - Retention
  /\ messages' = {m \in messages : m.ts >= now - Retention}
  /\ UNCHANGED << nextId, cursors, now, sent, handed, replaced >>

\* Mutant: a cursor is deleted when its session closes.
PruneCursors_AtClose ==
  \E s \in Readers :
    /\ cursors[s] # None
    /\ cursors' = [cursors EXCEPT ![s] = None]
    /\ messages' = {[m EXCEPT !.live = @ \ {s}] : m \in messages}
    /\ UNCHANGED << nextId, now, sent, handed, replaced >>

PruneCursors ==
  LET old == {s \in Readers : cursors[s] # None /\ cursors[s].ts < now - Retention}
  IN  /\ old # {}
      /\ cursors' = [s \in Readers |-> IF s \in old THEN None ELSE cursors[s]]
      /\ messages' = {[m EXCEPT !.live = @ \ old] : m \in messages}
      /\ UNCHANGED << nextId, now, sent, handed, replaced >>

\* The messages are lost with a replaced database, the cursors are not.
ReplaceDatabase ==
  /\ ~ replaced
  /\ messages # {}
  /\ messages' = {} /\ nextId' = 1 /\ replaced' = TRUE
  /\ UNCHANGED << cursors, now, sent, handed >>

Tick ==
  /\ now < MaxTime
  /\ now' = now + 1
  /\ UNCHANGED << messages, nextId, cursors, sent, handed, replaced >>

BusNext == SendMessage \/ DeliverForSession \/ PruneMessages \/ PruneCursors \/ ReplaceDatabase \/ Tick

BusSpec == BusInit /\ [][BusNext]_busVars

-----------------------------------------------------------------------------
(***************************************************************************)
(* Properties.                                                             *)
(***************************************************************************)

\* The shape of the state: ids are unique and in order of sending, and a
\* message has one target.
BusTypeOK ==
  /\ messages \subseteq
       [id : 1 .. nextId - 1, ts : 0 .. now, sender : Sessions, session : Sessions \union {None},
        project : Projects \union {None}, serial : 1 .. sent, live : SUBSET Readers]
  /\ nextId \in 1 .. MaxMessages + 1 /\ sent \in 0 .. MaxMessages /\ now \in 0 .. MaxTime
  /\ cursors \in [Readers -> {None} \union [id : 0 .. MaxMessages, ts : 0 .. now,
                                           start : [cutoff : -Window .. now, alone : BOOLEAN]]]
  /\ handed \in [Readers -> Seq(1 .. sent)]
  /\ replaced \in BOOLEAN
  /\ \A m, n \in messages : m.id < n.id <=> m.serial < n.serial
  /\ \A m \in messages : m.session = None \/ m.project = None

\* A session is handed its mail in the order of sending and never twice:
\* with hooks that race for it, after its cursor was pruned or the database
\* replaced, and whichever project its hooks resolve.
OnceInOrder ==
  \A s \in Readers : \A i, j \in DOMAIN handed[s] : i < j => handed[s][i] < handed[s][j]

\* Mail the session should be handed: what came since it had its cursor,
\* and what the read that gave it its cursor should have left for later
\* (unless ids below that cursor were given out anew).
Due(s, m) ==
  \/ s \in m.live
  \/ /\ ~ replaced /\ m.session = None
     /\ cursors[s].start.alone /\ m.ts >= cursors[s].start.cutoff

\* The cursor never passes mail that is due and was not handed to the
\* session, except for a broadcast with later direct mail: the residual of
\* hooks that resolve no project (Landing, and the id order of LaterRead).
NothingIsSkipped ==
  \A s \in Readers : \A m \in ReadAddressed(s, ProjectOf[s]) :
    (HasCursor(s) /\ m.id <= cursors[s].id /\ Due(s, m) /\ m.serial \notin ToSet(handed[s]))
      => m.session = None /\ \E n \in messages : n.id > m.id /\ n.session = s

\* A session that starts reading, or starts again after its cursor died, is
\* not flooded with the past: neither that read nor a later one hands it
\* mail older than the window was when it started.
BacklogStaysGated ==
  [][\A s \in Readers : \A m \in messages :
       (m.serial \in ToSet(handed'[s]) \ ToSet(handed[s])) => m.ts >= cursors'[s].start.cutoff]_busVars
=============================================================================
