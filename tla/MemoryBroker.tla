----------------------------- MODULE MemoryBroker -----------------------------
(***************************************************************************)
(* The Multiplexer of memory_broker.py: the broker's client threads share  *)
(* one proxy session, write their requests under distinct ids and wait for *)
(* a reader thread to hand them their replies; a dead or poisoned session  *)
(* is retired and the next request opens another one.                      *)
(*                                                                         *)
(* A client thread serves one connection, so one request; the thread that  *)
(* warms the broker up is a client that gives up when it has its session.  *)
(* A section under the state lock is one action, with what the thread does *)
(* on its own up to its next look at shared state; so is _retire (drop,    *)
(* poison, wake, kill).  A deadline may pass whenever a thread waits.  The *)
(* lock and socket files are not modelled.                                 *)
(***************************************************************************)
EXTENDS Naturals, Sequences, FiniteSets

CONSTANTS Clients, Free,
          MaxSessions,  \* bounds the sessions that are opened,
          MaxIds        \* and the ids that are handed out

ASSUME BrokerAssumption ==
  Free \notin Clients /\ MaxSessions \in Nat /\ MaxIds \in Nat \ {0}

VARIABLES
  phase,     \* the main thread: "serving", "closing", or "gone" (the process has ended)
  session,   \* the current session, 0 if there is none
  sessions,  \* every session opened: poisoned, its proxy alive, its reader's state
  nextId,
  waiters,   \* _waiters: the requests in flight, id -> client
  client,    \* per client thread where it is, its session, id and reply, and its event
  openLock, writeLock,  \* the client that holds it, or Free
  asked,     \* the proxies: requests written to one and not answered yet,
  replies    \* and answers on its stdout not read yet

vars == << phase, session, sessions, nextId, waiters, client, openLock, writeLock, asked, replies >>

\* A client thread at pc, with its session and id, that nobody has woken.
Thread(pc, s, id) == [pc |-> pc, s |-> s, id |-> id, woken |-> FALSE, reply |-> Free]

Asleep == Thread("off", 0, 0)

Init ==
  /\ phase = "serving"
  /\ session = 0 /\ sessions = << >> /\ nextId = 1
  /\ waiters = << >>
  /\ client = [c \in Clients |-> Asleep]
  /\ openLock = Free /\ writeLock = Free
  /\ asked = {} /\ replies = {}

Usable(s) == s # 0 /\ ~ sessions[s].poisoned /\ sessions[s].alive /\ sessions[s].reader # "closed"

\* _retire: what becomes of the session,
Retired(s) == [sessions EXCEPT ![s] = [poisoned |-> TRUE, alive |-> FALSE, reader |-> @.reader]]

\* of its waiters, who wake empty,
Doomed(s) == [c \in Clients |->
                IF client[c].s = s /\ \E i \in DOMAIN waiters : waiters[i] = c
                THEN [client[c] EXCEPT !.woken = TRUE] ELSE client[c]]

\* and of the current session.
Current(s) == IF session = s THEN 0 ELSE session

Without(id) == [i \in DOMAIN waiters \ {id} |-> waiters[i]]

\* A request ends; its reply, if it got one, goes back over the connection.
Answered(cs, c) == [cs EXCEPT ![c] = Asleep]

-----------------------------------------------------------------------------
(***************************************************************************)
(* Client threads: _handle, request and _ensure.                           *)
(***************************************************************************)

Goto(c, pc) == client' = [client EXCEPT ![c].pc = pc]

\* A connection is accepted and asks for a call.
Connect(c) ==
  /\ phase = "serving" /\ client[c].pc = "off"
  /\ client' = [client EXCEPT ![c] = Thread("ensure", 0, 0)]
  /\ UNCHANGED << phase, session, sessions, nextId, waiters, openLock, writeLock, asked, replies >>

Take(c) == client' = [client EXCEPT ![c] = Thread("register", session, 0)]

\* The current session, if it is usable, without the open lock.
Ensure(c) ==
  /\ client[c].pc = "ensure"
  /\ IF Usable(session) THEN Take(c) ELSE Goto(c, "open")
  /\ UNCHANGED << phase, session, sessions, nextId, waiters, openLock, writeLock, asked, replies >>

\* Mutant: no second look at the session under the open lock.
Open_Unchecked(c) ==
  /\ client[c].pc = "open" /\ openLock = Free
  /\ openLock' = c
  /\ Goto(c, "opening")
  /\ UNCHANGED << phase, session, sessions, nextId, waiters, writeLock, asked, replies >>

\* Under the open lock: another client has opened a session; or the broker
\* is closing; or the dead session is retired and a fresh one opened.
Open(c) ==
  /\ client[c].pc = "open" /\ openLock = Free
  /\ \/ /\ Usable(session)
        /\ Take(c)
        /\ UNCHANGED << session, sessions, openLock >>
     \/ /\ ~ Usable(session) /\ phase = "closing"
        /\ client' = Answered(client, c)
        /\ UNCHANGED << session, sessions, openLock >>
     \/ /\ ~ Usable(session) /\ phase = "serving"
        /\ sessions' = IF session = 0 THEN sessions ELSE Retired(session)
        /\ client' = [(IF session = 0 THEN client ELSE Doomed(session)) EXCEPT ![c].pc = "opening"]
        /\ session' = 0
        /\ openLock' = c
  /\ UNCHANGED << phase, nextId, waiters, writeLock, asked, replies >>

\* Mutant: a failed open keeps the lock.
OpenFails_KeepsLock(c) ==
  /\ client[c].pc = "opening"
  /\ client' = Answered(client, c)
  /\ UNCHANGED << phase, session, sessions, nextId, waiters, openLock, writeLock, asked, replies >>

\* Spawn or handshake failed, or took longer than OPEN_SECONDS.
OpenFails(c) ==
  /\ client[c].pc = "opening"
  /\ openLock' = Free
  /\ client' = Answered(client, c)
  /\ UNCHANGED << phase, session, sessions, nextId, waiters, writeLock, asked, replies >>

\* Mutant: the ids start again with each session, after the handshake's.
IdAfterOpen_Restarts == 2

\* initialize has used the session's id 1.
IdAfterOpen == IF nextId < 2 THEN 2 ELSE nextId

Opened(c) ==
  /\ client[c].pc = "opening" /\ Len(sessions) < MaxSessions
  /\ sessions' = Append(sessions, [poisoned |-> FALSE, alive |-> TRUE, reader |-> "reads"])
  /\ session' = Len(sessions')
  /\ nextId' = IdAfterOpen
  /\ client' = [client EXCEPT ![c] = Thread("register", session', 0)]
  /\ openLock' = Free
  /\ UNCHANGED << phase, waiters, writeLock, asked, replies >>

Register(c) ==
  /\ client[c].pc = "register" /\ nextId <= MaxIds
  /\ client' = [client EXCEPT ![c] = Thread("lock", client[c].s, nextId)]
  /\ waiters' = [i \in DOMAIN waiters \union {nextId} |-> IF i = nextId THEN c ELSE waiters[i]]
  /\ nextId' = nextId + 1
  /\ UNCHANGED << phase, session, sessions, openLock, writeLock, asked, replies >>

LockWrite(c) ==
  /\ client[c].pc = "lock" /\ writeLock = Free
  /\ writeLock' = c
  /\ Goto(c, "writing")
  /\ UNCHANGED << phase, session, sessions, nextId, waiters, openLock, asked, replies >>

Request(c) == [s |-> client[c].s, id |-> client[c].id, from |-> c]

\* The whole line is in the pipe; nobody reads it if the proxy has died.
Write(c) ==
  /\ client[c].pc = "writing" /\ sessions[client[c].s].reader # "closed"
  /\ asked' = IF sessions[client[c].s].alive THEN asked \union {Request(c)} ELSE asked
  /\ writeLock' = Free
  /\ Goto(c, "wait")
  /\ UNCHANGED << phase, session, sessions, nextId, waiters, openLock, replies >>

\* A broken pipe, or a deadline that passes before the line is written:
\* the session is retired (not if its reader has closed it meanwhile).
WriteFails(c) ==
  LET s == client[c].s
      closed == sessions[s].reader = "closed"
  IN  /\ client[c].pc = "writing"
      /\ sessions' = IF closed THEN sessions ELSE Retired(s)
      /\ session' = IF closed THEN session ELSE Current(s)
      /\ client' = Answered(IF closed THEN client ELSE Doomed(s), c)
      /\ waiters' = Without(client[c].id)
      /\ writeLock' = Free
      /\ UNCHANGED << phase, nextId, openLock, asked, replies >>

\* The event is set, with or without a reply.
Wake(c) ==
  /\ client[c].pc = "wait" /\ client[c].woken
  /\ client' = Answered(client, c)
  /\ waiters' = Without(client[c].id)
  /\ UNCHANGED << phase, session, sessions, nextId, openLock, writeLock, asked, replies >>

\* The deadline passes while the client waits for a lock or a reply.
GiveUp(c) ==
  /\ client[c].pc \in {"open", "register", "lock", "wait"}
  /\ client' = Answered(client, c)
  /\ waiters' = Without(client[c].id)
  /\ UNCHANGED << phase, session, sessions, nextId, openLock, writeLock, asked, replies >>

-----------------------------------------------------------------------------
(***************************************************************************)
(* Reader threads, proxies and the main thread.                            *)
(***************************************************************************)

\* Who a reply is handed to, if anyone still waits for it.
Addressee(r) ==
  {c \in Clients : r.id \in DOMAIN waiters /\ waiters[r.id] = c /\ client[c].s = r.s}

Dispatch(s) ==
  \E r \in replies :
    /\ r.s = s /\ sessions[s].reader = "reads"
    /\ client' = [c \in Clients |-> IF c \in Addressee(r) THEN [client[c] EXCEPT !.woken = TRUE, !.reply = r]
                                    ELSE client[c]]
    /\ replies' = replies \ {r}
    /\ UNCHANGED << phase, session, sessions, nextId, waiters, openLock, writeLock, asked >>

\* The loop ends on poison, or on end of file after the last reply, and
\* retires the session,
ReaderEnds(s) ==
  /\ sessions[s].reader = "reads"
  /\ \/ sessions[s].poisoned
     \/ ~ sessions[s].alive /\ \A r \in replies : r.s # s
  /\ sessions' = [Retired(s) EXCEPT ![s].reader = "ends"]
  /\ client' = Doomed(s)
  /\ session' = Current(s)
  /\ replies' = {r \in replies : r.s # s}
  /\ UNCHANGED << phase, nextId, waiters, openLock, writeLock, asked >>

\* and the pipes are closed.
ReaderCloses(s) ==
  /\ sessions[s].reader = "ends"
  /\ sessions' = [sessions EXCEPT ![s].reader = "closed"]
  /\ asked' = {r \in asked : r.s # s}
  /\ UNCHANGED << phase, session, nextId, waiters, client, openLock, writeLock, replies >>

\* The proxy answers in any order, or never, and may die.
ProxyReplies(s) ==
  \E r \in asked :
    /\ r.s = s /\ sessions[s].alive
    /\ asked' = asked \ {r}
    /\ replies' = replies \union {r}
    /\ UNCHANGED << phase, session, sessions, nextId, waiters, client, openLock, writeLock >>

ProxyDies(s) ==
  /\ sessions[s].alive
  /\ sessions' = [sessions EXCEPT ![s].alive = FALSE]
  /\ UNCHANGED << phase, session, nextId, waiters, client, openLock, writeLock, asked, replies >>

\* SIGTERM, a shutdown request or idleness: no more connections, and
\* Multiplexer.close retires the session.
Close ==
  /\ phase = "serving" /\ phase' = "closing"
  /\ sessions' = IF session = 0 THEN sessions ELSE Retired(session)
  /\ client' = IF session = 0 THEN client ELSE Doomed(session)
  /\ session' = 0
  /\ UNCHANGED << nextId, waiters, openLock, writeLock, asked, replies >>

\* The readers are joined, or have not ended in time; the threads end with
\* the process, whatever they were doing.
Exit ==
  /\ phase = "closing" /\ phase' = "gone"
  /\ UNCHANGED << session, sessions, nextId, waiters, client, openLock, writeLock, asked, replies >>

Running(c) ==
  \/ Ensure(c) \/ Open(c) \/ OpenFails(c) \/ Opened(c) \/ Register(c)
  \/ LockWrite(c) \/ Write(c) \/ WriteFails(c) \/ Wake(c) \/ GiveUp(c)

Reading(s) == Dispatch(s) \/ ReaderEnds(s) \/ ReaderCloses(s)

Next ==
  \/ /\ phase # "gone"
     /\ \/ \E c \in Clients : Connect(c) \/ Running(c)
        \/ \E s \in DOMAIN sessions : Reading(s) \/ ProxyReplies(s) \/ ProxyDies(s)
  \/ Close \/ Exit

Spec == Init /\ [][Next]_vars

-----------------------------------------------------------------------------
(***************************************************************************)
(* Properties.                                                             *)
(***************************************************************************)

Replies == [s : 1 .. MaxSessions, id : 1 .. MaxIds, from : Clients]
InFlight(c) == client[c].pc \in {"lock", "writing", "wait"}

\* The shape of the state; each lock is held by the one client at work under
\* it, and by nobody who has given up.
TypeOK ==
  /\ phase \in {"serving", "closing", "gone"}
  /\ session \in 0 .. Len(sessions)
  /\ sessions \in Seq([poisoned : BOOLEAN, alive : BOOLEAN, reader : {"reads", "ends", "closed"}])
  /\ nextId \in 1 .. MaxIds + 1
  /\ client \in [Clients -> [pc : {"off", "ensure", "open", "opening", "register", "lock", "writing", "wait"},
                             s : 0 .. MaxSessions, id : 0 .. MaxIds,
                             woken : BOOLEAN, reply : Replies \union {Free}]]
  /\ asked \subseteq Replies /\ replies \subseteq Replies
  /\ \A c \in Clients : (openLock = c <=> client[c].pc = "opening") /\ (writeLock = c <=> client[c].pc = "writing")

\* Concurrent requests are routed back by id, across time-outs, late replies
\* and reopened proxies: a client gets the reply to its own request or none,
\* and while it is in flight the table has its waiter, so that the reply and
\* the end of the session can find it.
AnswersReachTheirCaller ==
  /\ \A c \in Clients : client[c].reply # Free => client[c].reply = Request(c)
  /\ DOMAIN waiters = {client[c].id : c \in {d \in Clients : InFlight(d)}}
  /\ \A c \in Clients : InFlight(c) => waiters[client[c].id] = c

\* One proxy per session: every proxy but the current one is retired, which
\* kills it and ends its reader; no race of clients that find the session
\* dead, or of a failing write with a reopening, drops one that lives.
OneProxy == \A s \in DOMAIN sessions : s # session => sessions[s].poisoned /\ ~ sessions[s].alive
=============================================================================
