------------------------------ MODULE BrokerProofs ------------------------------
(***************************************************************************)
(* Proofs about MemoryBroker, for any clients and any number of sessions   *)
(* and ids.                                                                *)
(*                                                                         *)
(* Replies find their callers because ids are never given out twice: a     *)
(* request that is still under way somewhere, in a proxy or in a pipe, has *)
(* an id below nextId, and whoever waits under that id has made it         *)
(* (Routing).  One proxy lives because a session is opened under the open  *)
(* lock while there is no current one (Proxies).                           *)
(***************************************************************************)
EXTENDS MemoryBroker, SequenceTheorems, TLAPS

Pcs == {"off", "ensure", "open", "opening", "register", "lock", "writing", "wait"}
ClientType ==
  [pc : Pcs, s : 0 .. MaxSessions, id : 0 .. MaxIds, woken : BOOLEAN, reply : Replies \union {Free}]
SessionType == [poisoned : BOOLEAN, alive : BOOLEAN, reader : {"reads", "ends", "closed"}]

\* A request in flight has an id of its own, given out before; another
\* client has none, and no reply.
Ids ==
  \A c \in Clients :
    IF InFlight(c) THEN client[c].id \in 1 .. nextId - 1 ELSE client[c].id = 0 /\ client[c].reply = Free

\* What a proxy still has to answer, or has answered, was asked by the client
\* that waits under its id, if one does.
Mail ==
  \A r \in asked \union replies :
    r.id < nextId /\ (r.id \in DOMAIN waiters => waiters[r.id] = r.from)

Routing == AnswersReachTheirCaller /\ Ids /\ Mail

\* While a client opens a session there is none; every session a client uses
\* was opened.
Proxies ==
  /\ OneProxy
  /\ Len(sessions) <= MaxSessions
  /\ \A c \in Clients : client[c].pc = "opening" => session = 0
  /\ \A c \in Clients : client[c].pc \in {"register", "lock", "writing", "wait"} => client[c].s \in DOMAIN sessions

IInv == TypeOK /\ Routing /\ Proxies

-----------------------------------------------------------------------------
(***************************************************************************)
(* What retiring a session does.                                           *)
(***************************************************************************)

LEMMA RetiredSession ==
  ASSUME TypeOK, NEW s \in DOMAIN sessions
  PROVE  /\ Retired(s) \in Seq(SessionType) /\ Len(Retired(s)) = Len(sessions)
         /\ DOMAIN Retired(s) = DOMAIN sessions
         /\ Retired(s)[s].poisoned /\ ~ Retired(s)[s].alive
         /\ \A t \in DOMAIN sessions : t # s => Retired(s)[t] = sessions[t]
<1>1. sessions \in Seq(SessionType)
  BY DEF TypeOK, SessionType
<1>2. DOMAIN sessions = 1 .. Len(sessions) /\ sessions \in [DOMAIN sessions -> SessionType]
  BY <1>1, LenProperties
<1> DEFINE r == [poisoned |-> TRUE, alive |-> FALSE, reader |-> sessions[s].reader]
<1>3. r \in SessionType /\ r.poisoned /\ ~ r.alive
  BY <1>2 DEF SessionType
<1>4. Retired(s) = [sessions EXCEPT ![s] = r]
  BY DEF Retired
<1> HIDE DEF r
<1>5. /\ Retired(s) \in Seq(SessionType) /\ Len(Retired(s)) = Len(sessions)
      /\ \A t \in 1 .. Len(sessions) : Retired(s)[t] = IF t = s THEN r ELSE sessions[t]
  BY <1>1, <1>2, <1>3, <1>4, ExceptSeq
<1>6. DOMAIN Retired(s) = DOMAIN sessions
  BY <1>4
<1> QED
  BY <1>2, <1>3, <1>5, <1>6

LEMMA DoomedClients ==
  ASSUME TypeOK, NEW s
  PROVE  /\ Doomed(s) \in [Clients -> ClientType]
         /\ \A c \in Clients : /\ Doomed(s)[c].pc = client[c].pc /\ Doomed(s)[c].s = client[c].s
                               /\ Doomed(s)[c].id = client[c].id /\ Doomed(s)[c].reply = client[c].reply
<1>1. \A c \in Clients : client[c] \in ClientType
  BY DEF TypeOK, ClientType, Pcs
<1> QED
  BY <1>1 DEF Doomed, ClientType

LEMMA AsleepClient == Asleep \in ClientType /\ Asleep.pc = "off" /\ Asleep.s = 0 /\ Asleep.id = 0 /\ Asleep.reply = Free
  BY BrokerAssumption DEF Asleep, Thread, ClientType, Pcs

-----------------------------------------------------------------------------
(***************************************************************************)
(* Sessions.                                                               *)
(***************************************************************************)

\* The clients that use a session after the step used it before; no session
\* is opened.
UsersStay == \A c \in Clients :
  /\ client'[c].pc = "opening" => client[c].pc = "opening"
  /\ client'[c].pc \in {"register", "lock", "writing", "wait"} =>
       /\ client'[c].s = client[c].s
       /\ client[c].pc \in {"register", "lock", "writing", "wait"}

\* Sessions stay as they are, but for their readers, and may die.
LEMMA ProxiesStay ==
  ASSUME IInv, UsersStay, UNCHANGED session, Len(sessions') = Len(sessions), DOMAIN sessions' = DOMAIN sessions,
         \A t \in DOMAIN sessions : /\ sessions'[t].poisoned = sessions[t].poisoned
                                    /\ sessions'[t].alive => sessions[t].alive
  PROVE  Proxies'
  BY DEF IInv, Proxies, OneProxy, UsersStay

\* A session is retired.
LEMMA ProxiesRetire ==
  ASSUME IInv, UsersStay, NEW s \in DOMAIN sessions, session' = Current(s),
         Len(sessions') = Len(sessions), DOMAIN sessions' = DOMAIN sessions,
         sessions'[s].poisoned, ~ sessions'[s].alive,
         \A t \in DOMAIN sessions : t # s => sessions'[t] = sessions[t]
  PROVE  Proxies'
  BY DEF IInv, Proxies, OneProxy, UsersStay, Current

-----------------------------------------------------------------------------
(***************************************************************************)
(* Requests.                                                               *)
(***************************************************************************)

\* To the table of waiters, client c is in the step what it was before.
Same(c) ==
  /\ client'[c].pc \in {"lock", "writing", "wait"} <=> client[c].pc \in {"lock", "writing", "wait"}
  /\ client'[c].id = client[c].id
  /\ client'[c].reply = client[c].reply
  /\ InFlight(c) => client'[c].s = client[c].s

Left(c) == client'[c].pc \notin {"lock", "writing", "wait"} /\ client'[c].id = 0 /\ client'[c].reply = Free

\* Nobody comes or goes.
LEMMA CallersStay ==
  ASSUME IInv, \A c \in Clients : Same(c), UNCHANGED waiters, nextId' \in Nat, nextId' >= nextId
  PROVE  AnswersReachTheirCaller' /\ Ids'
<1>1. \A c \in Clients : InFlight(c)' <=> InFlight(c)
  BY DEF Same, InFlight
<1>2. \A c \in Clients : InFlight(c) => Request(c)' = Request(c)
  BY DEF Same, Request
<1>3. nextId \in Nat
  BY BrokerAssumption DEF IInv, TypeOK
<1>4. AnswersReachTheirCaller'
  <2>1. \A c \in Clients : client[c].reply # Free => InFlight(c)
    BY DEF IInv, Routing, Ids
  <2>2. {client'[c].id : c \in {d \in Clients : InFlight(d)'}} = {client[c].id : c \in {d \in Clients : InFlight(d)}}
    BY <1>1 DEF Same
  <2> QED
    BY <1>1, <1>2, <2>1, <2>2 DEF IInv, Routing, AnswersReachTheirCaller, Same
<1>5. Ids'
  BY <1>1, <1>3 DEF IInv, Routing, Ids, Same
<1> QED
  BY <1>4, <1>5

\* Nor is a request made.
LEMMA RoutingStays ==
  ASSUME IInv, \A c \in Clients : Same(c), UNCHANGED waiters, nextId' \in Nat, nextId' >= nextId,
         asked' \union replies' \subseteq asked \union replies
  PROVE  Routing'
<1>1. \A r \in asked \union replies : r.id \in Nat
  BY DEF IInv, TypeOK, Replies
<1>2. Mail'
  BY <1>1, BrokerAssumption DEF IInv, TypeOK, Routing, Mail
<1> QED
  BY <1>2, CallersStay DEF Routing

\* A client leaves, and its waiter with it.
LEMMA RoutingLeft ==
  ASSUME IInv, NEW c \in Clients, Left(c), \A d \in Clients \ {c} : Same(d),
         waiters' = Without(client[c].id), UNCHANGED << nextId, asked, replies >>
  PROVE  Routing'
<1>1. \A d \in Clients : InFlight(d)' <=> d # c /\ InFlight(d)
  BY DEF Same, Left, InFlight
<1>2. \A d \in Clients : d # c /\ InFlight(d) => Request(d)' = Request(d)
  BY DEF Same, Request
<1>3. nextId \in Nat
  BY BrokerAssumption DEF IInv, TypeOK
<1>4. \A d \in Clients : d # c /\ InFlight(d) => client[d].id # client[c].id
  BY <1>3 DEF IInv, Routing, Ids, AnswersReachTheirCaller
<1>5. DOMAIN waiters' = DOMAIN waiters \ {client[c].id} /\ \A i \in DOMAIN waiters' : waiters'[i] = waiters[i]
  BY DEF Without
<1>6. DOMAIN waiters' = {client'[d].id : d \in {e \in Clients : InFlight(e)'}}
  <2>1. {client'[d].id : d \in {e \in Clients : InFlight(e)'}}
          = {client[d].id : d \in {e \in Clients : e # c /\ InFlight(e)}}
    BY <1>1 DEF Same
  <2>2. DOMAIN waiters = {client[d].id : d \in {e \in Clients : InFlight(e)}}
    BY DEF IInv, Routing, AnswersReachTheirCaller
  <2> DEFINE ids == {client[d].id : d \in {e \in Clients : e # c /\ InFlight(e)}}
  <2>3. ASSUME NEW i \in DOMAIN waiters \ {client[c].id} PROVE i \in ids
    BY <2>2, <2>3
  <2>4. ASSUME NEW i \in ids PROVE i \in DOMAIN waiters \ {client[c].id}
    BY <1>4, <2>2, <2>4
  <2> QED
    BY <1>5, <2>1, <2>3, <2>4
<1>7. AnswersReachTheirCaller'
  <2>1. \A d \in Clients : client'[d].reply # Free => client'[d].reply = Request(d)'
    BY <1>2 DEF IInv, Routing, Ids, AnswersReachTheirCaller, Same, Left
  <2>2. \A d \in Clients : InFlight(d)' => waiters'[client'[d].id] = d
    BY <1>1, <1>4, <1>5 DEF IInv, Routing, AnswersReachTheirCaller, Same
  <2> QED
    BY <1>6, <2>1, <2>2 DEF AnswersReachTheirCaller
<1>8. Ids'
  BY <1>1 DEF IInv, Routing, Ids, Same, Left
<1>9. Mail'
  BY <1>5 DEF IInv, Routing, Mail
<1> QED
  BY <1>7, <1>8, <1>9 DEF Routing

-----------------------------------------------------------------------------
(***************************************************************************)
(* The client threads.                                                     *)
(***************************************************************************)

LEMMA ThreadType ==
  ASSUME NEW pc \in Pcs, NEW s \in 0 .. MaxSessions, NEW id \in 0 .. MaxIds
  PROVE  /\ Thread(pc, s, id) \in ClientType
         /\ Thread(pc, s, id).pc = pc /\ Thread(pc, s, id).s = s /\ Thread(pc, s, id).id = id
         /\ Thread(pc, s, id).reply = Free
  BY DEF Thread, ClientType

LEMMA Numbers ==
  ASSUME IInv
  PROVE  /\ DOMAIN sessions = 1 .. Len(sessions) /\ Len(sessions) \in Nat
         /\ DOMAIN sessions \subseteq 1 .. MaxSessions /\ session \in 0 .. MaxSessions
         /\ \A s \in DOMAIN sessions : sessions[s] \in SessionType
         /\ nextId \in Nat \ {0}
         /\ client \in [Clients -> ClientType]
<1>1. sessions \in Seq(SessionType)
  BY DEF IInv, TypeOK, SessionType
<1>2. DOMAIN sessions = 1 .. Len(sessions) /\ Len(sessions) \in Nat /\ \A s \in DOMAIN sessions : sessions[s] \in SessionType
  BY <1>1, LenProperties
<1>3. Len(sessions) <= MaxSessions /\ session \in 0 .. Len(sessions)
  BY DEF IInv, Proxies, TypeOK
<1> QED
  BY <1>2, <1>3, BrokerAssumption DEF IInv, TypeOK, ClientType, Pcs

\* The locks are held by the clients at work under them.
Locks == \A c \in Clients : (openLock = c <=> client[c].pc = "opening") /\ (writeLock = c <=> client[c].pc = "writing")

\* One client moves; only it and the locks change.
LEMMA OneMoves ==
  ASSUME IInv, NEW c \in Clients, NEW o \in ClientType, client' = [client EXCEPT ![c] = o],
         UNCHANGED << phase, session, sessions, nextId, waiters, asked, replies >>,
         Same(c), Locks',
         o.pc = "opening" => session = 0,
         o.pc \in {"register", "lock", "writing", "wait"} => o.s \in DOMAIN sessions
  PROVE  IInv'
<1>1. client \in [Clients -> ClientType]
  BY Numbers
<1>2. client' \in [Clients -> ClientType] /\ client'[c] = o /\ \A d \in Clients \ {c} : client'[d] = client[d]
  BY <1>1
<1>3. TypeOK'
  BY <1>2 DEF IInv, TypeOK, Locks, Replies, ClientType, Pcs
<1>4. \A d \in Clients : Same(d)
  BY <1>2 DEF Same
<1>5. Routing'
  BY <1>4, RoutingStays, Numbers
<1>6. Proxies'
  BY <1>2 DEF IInv, Proxies, OneProxy
<1> QED
  BY <1>3, <1>5, <1>6 DEF IInv

\* The client that moves is not in flight, before or after.
LEMMA Elsewhere ==
  ASSUME IInv, NEW c \in Clients, client[c].pc \notin {"lock", "writing", "wait"}, NEW o \in ClientType,
         client' = [client EXCEPT ![c] = o], o.pc \notin {"lock", "writing", "wait"}, o.id = 0, o.reply = Free
  PROVE  Same(c)
  BY Numbers DEF IInv, Routing, Ids, Same, InFlight

LEMMA ClientMoves ==
  ASSUME IInv, NEW c \in Clients, Connect(c) \/ Ensure(c) \/ OpenFails(c) \/ LockWrite(c)
  PROVE  IInv'
<1> USE DEF Pcs
<1>0. client \in [Clients -> ClientType] /\ client[c].s \in 0 .. MaxSessions /\ Locks
  BY Numbers DEF IInv, TypeOK, Locks, ClientType
<1>1. CASE Connect(c)
  <2> DEFINE o == Thread("ensure", 0, 0)
  <2>1. o \in ClientType /\ o.pc = "ensure" /\ o.id = 0 /\ o.reply = Free
    BY ThreadType, BrokerAssumption
  <2>2. client[c].pc = "off" /\ client' = [client EXCEPT ![c] = o]
    BY <1>1 DEF Connect
  <2> HIDE DEF o
  <2>3. Locks'
    BY <1>0, <1>1, <2>1, <2>2 DEF Locks, Connect
  <2>4. Same(c)
    BY <2>1, <2>2, Elsewhere
  <2> QED
    BY <1>1, <2>1, <2>2, <2>3, <2>4, OneMoves DEF Connect
<1>2. ASSUME Ensure(c), Usable(session) PROVE IInv'
  <2> DEFINE o == Thread("register", session, 0)
  <2>1. o \in ClientType /\ o.pc = "register" /\ o.id = 0 /\ o.reply = Free /\ o.s = session
    BY ThreadType, BrokerAssumption, Numbers
  <2>2. client[c].pc = "ensure" /\ client' = [client EXCEPT ![c] = o]
    BY <1>2 DEF Ensure, Take
  <2>3. session \in DOMAIN sessions
    BY <1>2, Numbers DEF Usable, IInv, TypeOK
  <2> HIDE DEF o
  <2>4. Locks'
    BY <1>0, <1>2, <2>1, <2>2 DEF Locks, Ensure
  <2>5. Same(c)
    BY <2>1, <2>2, Elsewhere
  <2> QED
    BY <1>2, <2>1, <2>2, <2>3, <2>4, <2>5, OneMoves DEF Ensure
<1>3. ASSUME Ensure(c), ~ Usable(session) PROVE IInv'
  <2> DEFINE o == [client[c] EXCEPT !.pc = "open"]
  <2>1. client[c].pc = "ensure" /\ client' = [client EXCEPT ![c] = o]
    BY <1>0, <1>3 DEF Ensure, Goto
  <2>2. o \in ClientType /\ o.pc = "open" /\ o.id = 0 /\ o.reply = Free
    BY <1>0, <2>1 DEF ClientType, IInv, Routing, Ids, InFlight
  <2> HIDE DEF o
  <2>3. Locks'
    BY <1>0, <1>3, <2>1, <2>2 DEF Locks, Ensure
  <2>4. Same(c)
    BY <2>1, <2>2, Elsewhere
  <2> QED
    BY <1>3, <2>1, <2>2, <2>3, <2>4, OneMoves DEF Ensure
<1>4. CASE OpenFails(c)
  <2>1. client[c].pc = "opening" /\ client' = [client EXCEPT ![c] = Asleep] /\ openLock' = Free
    BY <1>4 DEF OpenFails, Answered
  <2>2. Locks'
    BY <1>0, <1>4, <2>1, AsleepClient, BrokerAssumption DEF Locks, OpenFails
  <2>3. Same(c)
    BY <2>1, AsleepClient, Elsewhere
  <2> QED
    BY <1>4, <2>1, <2>2, <2>3, AsleepClient, OneMoves DEF OpenFails
<1>5. CASE LockWrite(c)
  <2> DEFINE o == [client[c] EXCEPT !.pc = "writing"]
  <2>1. client[c].pc = "lock" /\ client' = [client EXCEPT ![c] = o]
    BY <1>0, <1>5 DEF LockWrite, Goto
  <2>2. o \in ClientType /\ o.pc = "writing" /\ o.id = client[c].id /\ o.s = client[c].s /\ o.reply = client[c].reply
    BY <1>0 DEF ClientType
  <2> HIDE DEF o
  <2>3. Locks'
    BY <1>0, <1>5, <2>1, <2>2, BrokerAssumption DEF Locks, LockWrite
  <2>4. Same(c)
    BY <1>0, <2>1, <2>2 DEF Same
  <2>5. client[c].s \in DOMAIN sessions
    BY <2>1 DEF IInv, Proxies
  <2> QED
    BY <1>5, <2>1, <2>2, <2>3, <2>4, <2>5, OneMoves DEF LockWrite
<1> QED
  BY <1>1, <1>2, <1>3, <1>4, <1>5

LEMMA OpenStep ==
  ASSUME IInv, NEW c \in Clients, Open(c)
  PROVE  IInv'
<1> USE DEF Pcs
<1>0. client \in [Clients -> ClientType] /\ Locks /\ TypeOK
  BY Numbers DEF IInv, TypeOK, Locks
<1>1. client[c].pc = "open" /\ openLock = Free
  BY DEF Open
<1>2. ASSUME Usable(session), Take(c), UNCHANGED << session, sessions, openLock >> PROVE IInv'
  <2> DEFINE o == Thread("register", session, 0)
  <2>1. o \in ClientType /\ o.pc = "register" /\ o.id = 0 /\ o.reply = Free /\ o.s = session
    BY ThreadType, BrokerAssumption, Numbers
  <2>2. client' = [client EXCEPT ![c] = o]
    BY <1>2 DEF Take
  <2>3. session \in DOMAIN sessions
    BY <1>2, Numbers DEF Usable, IInv, TypeOK
  <2> HIDE DEF o
  <2>4. Locks'
    BY <1>0, <1>1, <1>2, <2>1, <2>2 DEF Locks, Open
  <2>5. Same(c)
    BY <1>1, <2>1, <2>2, Elsewhere
  <2> QED
    BY <1>2, <2>1, <2>2, <2>3, <2>4, <2>5, OneMoves DEF Open
<1>3. ASSUME client' = Answered(client, c), UNCHANGED << session, sessions, openLock >> PROVE IInv'
  <2>1. client' = [client EXCEPT ![c] = Asleep]
    BY <1>3 DEF Answered
  <2>2. Locks'
    BY <1>0, <1>1, <1>3, <2>1, AsleepClient DEF Locks, Open
  <2>3. Same(c)
    BY <1>1, <2>1, AsleepClient, Elsewhere
  <2> QED
    BY <1>3, <2>1, <2>2, <2>3, AsleepClient, OneMoves DEF Open
<1>4. ASSUME sessions' = IF session = 0 THEN sessions ELSE Retired(session),
             client' = [(IF session = 0 THEN client ELSE Doomed(session)) EXCEPT ![c].pc = "opening"],
             session' = 0, openLock' = c
      PROVE  IInv'
  <2> DEFINE base == IF session = 0 THEN client ELSE Doomed(session)
  <2>1. /\ base \in [Clients -> ClientType]
        /\ \A d \in Clients : /\ base[d].pc = client[d].pc /\ base[d].s = client[d].s
                              /\ base[d].id = client[d].id /\ base[d].reply = client[d].reply
    BY <1>0, DoomedClients
  <2> HIDE DEF base
  <2>2. client' = [base EXCEPT ![c].pc = "opening"]
    BY <1>4 DEF base
  <2>3. /\ client' \in [Clients -> ClientType]
        /\ \A d \in Clients : /\ client'[d].pc = IF d = c THEN "opening" ELSE client[d].pc
                              /\ client'[d].s = client[d].s /\ client'[d].id = client[d].id
                              /\ client'[d].reply = client[d].reply
    BY <2>1, <2>2 DEF ClientType
  <2>4. /\ sessions' \in Seq(SessionType) /\ Len(sessions') = Len(sessions) /\ DOMAIN sessions' = DOMAIN sessions
        /\ \A t \in DOMAIN sessions : /\ sessions'[t].poisoned /\ ~ sessions'[t].alive
    <3>1. CASE session = 0
      BY <1>0, <1>4, <3>1, Numbers DEF IInv, Proxies, OneProxy, TypeOK, SessionType
    <3>2. CASE session # 0
      <4>1. session \in DOMAIN sessions
        BY <1>0, <3>2, Numbers DEF TypeOK
      <4> QED
        BY <1>0, <1>4, <3>2, <4>1, RetiredSession DEF IInv, Proxies, OneProxy
    <3> QED
      BY <3>1, <3>2
  <2>5. Locks'
    BY <1>0, <1>1, <1>4, <2>3, BrokerAssumption DEF Locks, Open
  <2>6. TypeOK'
    BY <1>0, <1>4, <2>3, <2>4, <2>5, Numbers DEF TypeOK, Open, Locks, ClientType, SessionType, Replies
  <2>7. \A d \in Clients : Same(d)
    BY <1>1, <2>3 DEF Same
  <2>8. Routing'
    BY <2>7, RoutingStays, Numbers DEF Open
  <2>9. Proxies'
    BY <1>1, <1>4, <2>3, <2>4 DEF IInv, Proxies, OneProxy
  <2> QED
    BY <2>6, <2>8, <2>9 DEF IInv
<1> QED
  BY <1>2, <1>3, <1>4 DEF Open

LEMMA OpenedStep ==
  ASSUME IInv, NEW c \in Clients, Opened(c)
  PROVE  IInv'
<1> USE DEF Pcs
<1> DEFINE fresh == [poisoned |-> FALSE, alive |-> TRUE, reader |-> "reads"]
           o == Thread("register", session', 0)
<1>0. client \in [Clients -> ClientType] /\ Locks /\ Len(sessions) \in Nat /\ DOMAIN sessions = 1 .. Len(sessions)
  BY Numbers DEF IInv, TypeOK, Locks
<1>1. client[c].pc = "opening" /\ Len(sessions) < MaxSessions /\ session = 0
  BY DEF Opened, IInv, Proxies
<1>2. sessions \in Seq(SessionType) /\ fresh \in SessionType
  BY DEF IInv, TypeOK, SessionType
<1>3. /\ sessions' \in Seq(SessionType) /\ Len(sessions') = Len(sessions) + 1
      /\ \A t \in DOMAIN sessions : sessions'[t] = sessions[t]
  BY <1>0, <1>2, AppendProperties DEF Opened
<1>4. DOMAIN sessions' = 1 .. Len(sessions) + 1 /\ session' = Len(sessions) + 1
  BY <1>3, LenProperties DEF Opened
<1>5. session' \in 0 .. MaxSessions
  BY <1>0, <1>1, <1>4, BrokerAssumption
<1>6. o \in ClientType /\ o.pc = "register" /\ o.s = session' /\ o.id = 0 /\ o.reply = Free
  BY <1>5, ThreadType, BrokerAssumption
<1>7. client' = [client EXCEPT ![c] = o]
  BY DEF Opened
<1> HIDE DEF o, fresh
<1>8. client' \in [Clients -> ClientType] /\ client'[c] = o /\ \A d \in Clients \ {c} : client'[d] = client[d]
  BY <1>0, <1>6, <1>7
<1>9. nextId' \in 1 .. MaxIds + 1 /\ nextId' >= nextId
  BY BrokerAssumption DEF Opened, IdAfterOpen, IInv, TypeOK
<1>10. Locks'
  BY <1>0, <1>1, <1>6, <1>8, BrokerAssumption DEF Locks, Opened
<1>11. TypeOK'
  BY <1>0, <1>3, <1>4, <1>8, <1>9, <1>10 DEF IInv, TypeOK, Opened, Locks, ClientType, SessionType, Replies
<1>12. Same(c) /\ \A d \in Clients \ {c} : Same(d)
  BY <1>1, <1>6, <1>7, <1>8, Elsewhere DEF Same
<1>13. Routing'
  BY <1>9, <1>12, RoutingStays, BrokerAssumption DEF Opened
<1>14. \A d \in Clients : client'[d].pc # "opening"
  BY <1>0, <1>1, <1>6, <1>8 DEF Locks
<1>15. Proxies'
  BY <1>0, <1>1, <1>3, <1>4, <1>5, <1>6, <1>8, <1>14, BrokerAssumption DEF IInv, Proxies, OneProxy
<1> QED
  BY <1>11, <1>13, <1>15 DEF IInv

\* A request gets an id that no reply bears.
LEMMA RegisterStep ==
  ASSUME IInv, NEW c \in Clients, Register(c)
  PROVE  IInv'
<1> USE DEF Pcs
<1> DEFINE o == Thread("lock", client[c].s, nextId)
<1>0. client \in [Clients -> ClientType] /\ Locks /\ nextId \in Nat \ {0}
  BY Numbers DEF IInv, TypeOK, Locks
<1>1. client[c].pc = "register" /\ nextId \in 1 .. MaxIds /\ client[c].s \in 0 .. MaxSessions
  BY <1>0, BrokerAssumption DEF Register, ClientType
<1>2. o \in ClientType /\ o.pc = "lock" /\ o.s = client[c].s /\ o.id = nextId /\ o.reply = Free
  BY <1>1, ThreadType, BrokerAssumption
<1>3. client' = [client EXCEPT ![c] = o]
  BY DEF Register
<1> HIDE DEF o
<1>4. client' \in [Clients -> ClientType] /\ client'[c] = o /\ \A d \in Clients \ {c} : client'[d] = client[d]
  BY <1>0, <1>2, <1>3
<1>5. Locks'
  BY <1>0, <1>1, <1>2, <1>4 DEF Locks, Register
<1>6. TypeOK'
  BY <1>0, <1>1, <1>4, <1>5, BrokerAssumption DEF IInv, TypeOK, Register, Locks, ClientType, Replies
<1>7. \A d \in Clients : InFlight(d)' <=> d = c \/ InFlight(d)
  BY <1>2, <1>4 DEF InFlight
<1>8. ~ InFlight(c)
  BY <1>1 DEF InFlight
<1>9. /\ DOMAIN waiters' = DOMAIN waiters \union {nextId} /\ waiters'[nextId] = c
      /\ \A i \in DOMAIN waiters : i # nextId => waiters'[i] = waiters[i]
  BY DEF Register
<1>10. \A d \in Clients : InFlight(d) => client[d].id # nextId
  BY <1>0 DEF IInv, Routing, Ids
<1>11. DOMAIN waiters' = {client'[d].id : d \in {e \in Clients : InFlight(e)'}}
  <2>1. DOMAIN waiters = {client[d].id : d \in {e \in Clients : InFlight(e)}}
    BY DEF IInv, Routing, AnswersReachTheirCaller
  <2> QED
    BY <1>2, <1>4, <1>7, <1>8, <1>9, <2>1
<1>12. AnswersReachTheirCaller'
  <2>1. \A d \in Clients : client'[d].reply # Free => client'[d].reply = Request(d)'
    BY <1>2, <1>4 DEF IInv, Routing, AnswersReachTheirCaller, Request
  <2>2. \A d \in Clients : InFlight(d)' => waiters'[client'[d].id] = d
    BY <1>2, <1>4, <1>7, <1>8, <1>9, <1>10 DEF IInv, Routing, AnswersReachTheirCaller
  <2> QED
    BY <1>11, <2>1, <2>2 DEF AnswersReachTheirCaller
<1>13. Ids'
  BY <1>0, <1>2, <1>4, <1>7, <1>8 DEF IInv, Routing, Ids, Register
<1>14. Mail'
  <2>1. \A r \in asked \union replies : r.id \in Nat /\ r.id < nextId
    BY DEF IInv, TypeOK, Replies, Routing, Mail
  <2>2. \A r \in asked \union replies : r.id \in DOMAIN waiters' => r.id \in DOMAIN waiters /\ waiters'[r.id] = waiters[r.id]
    BY <1>0, <1>9, <2>1
  <2> QED
    BY <1>0, <2>1, <2>2 DEF IInv, Routing, Mail, Register
<1>15. Proxies'
  BY <1>1, <1>2, <1>4 DEF IInv, Proxies, OneProxy, Register
<1> QED
  BY <1>6, <1>12, <1>13, <1>14, <1>15 DEF IInv, Routing

LEMMA WriteStep ==
  ASSUME IInv, NEW c \in Clients, Write(c)
  PROVE  IInv'
<1> USE DEF Pcs
<1> DEFINE o == [client[c] EXCEPT !.pc = "wait"]
<1>0. client \in [Clients -> ClientType] /\ Locks /\ nextId \in Nat \ {0} /\ DOMAIN sessions \subseteq 1 .. MaxSessions
  BY Numbers DEF IInv, TypeOK, Locks
<1>1. client[c].pc = "writing" /\ client' = [client EXCEPT ![c] = o]
  BY <1>0 DEF Write, Goto
<1>2. o \in ClientType /\ o.pc = "wait" /\ o.s = client[c].s /\ o.id = client[c].id /\ o.reply = client[c].reply
  BY <1>0 DEF ClientType
<1> HIDE DEF o
<1>3. client' \in [Clients -> ClientType] /\ client'[c] = o /\ \A d \in Clients \ {c} : client'[d] = client[d]
  BY <1>0, <1>1, <1>2
<1>4. Locks'
  BY <1>0, <1>1, <1>2, <1>3, BrokerAssumption DEF Locks, Write
<1>5. /\ client[c].id \in 1 .. nextId - 1 /\ client[c].id \in 1 .. MaxIds
      /\ waiters[client[c].id] = c /\ client[c].s \in 1 .. MaxSessions
  <2>1. InFlight(c) /\ client[c].id \in 0 .. MaxIds
    BY <1>0, <1>1 DEF InFlight, ClientType
  <2> QED
    BY <1>0, <1>1, <2>1, BrokerAssumption DEF IInv, Routing, Ids, AnswersReachTheirCaller, Proxies
<1>6. Request(c) \in Replies /\ Request(c).id = client[c].id /\ Request(c).from = c
  BY <1>5 DEF Request, Replies
<1>7. asked' \subseteq asked \union {Request(c)}
  BY DEF Write
<1> HIDE DEF Request
<1>8. TypeOK'
  BY <1>0, <1>3, <1>4, <1>6, <1>7 DEF IInv, TypeOK, Write, Locks, ClientType, Replies
<1>9. \A d \in Clients : Same(d)
  BY <1>1, <1>2, <1>3 DEF Same
<1>10. AnswersReachTheirCaller' /\ Ids'
  BY <1>0, <1>9, CallersStay DEF Write
<1>11. Mail'
  BY <1>0, <1>5, <1>6, <1>7 DEF IInv, Routing, Mail, Write
<1>12. Proxies'
  BY <1>1, <1>2, <1>3 DEF IInv, Proxies, OneProxy, Write
<1> QED
  BY <1>8, <1>10, <1>11, <1>12 DEF IInv, Routing

\* A client leaves, while others may be woken.
LEMMA Leaves ==
  ASSUME IInv, NEW c \in Clients, NEW base \in [Clients -> ClientType],
         \A d \in Clients : /\ base[d].pc = client[d].pc /\ base[d].s = client[d].s
                           /\ base[d].id = client[d].id /\ base[d].reply = client[d].reply,
         client' = [base EXCEPT ![c] = Asleep]
  PROVE  /\ client' \in [Clients -> ClientType]
         /\ client'[c].pc = "off" /\ \A d \in Clients \ {c} : client'[d].pc = client[d].pc
         /\ Left(c) /\ \A d \in Clients \ {c} : Same(d)
         /\ UsersStay
  BY AsleepClient DEF Left, Same, UsersStay

\* Wake and GiveUp: a client leaves on its own.
LEMMA LeaveStep ==
  ASSUME IInv, NEW c \in Clients, Wake(c) \/ GiveUp(c)
  PROVE  IInv'
<1>0. client \in [Clients -> ClientType] /\ Locks
  BY Numbers DEF IInv, TypeOK, Locks
<1>1. client[c].pc \notin {"opening", "writing"} /\ client' = [client EXCEPT ![c] = Asleep]
  BY DEF Wake, GiveUp, Answered
<1>2. /\ client' \in [Clients -> ClientType]
      /\ client'[c].pc = "off" /\ \A d \in Clients \ {c} : client'[d].pc = client[d].pc
      /\ Left(c) /\ \A d \in Clients \ {c} : Same(d)
      /\ UsersStay
  BY <1>0, <1>1, Leaves
<1>3. /\ waiters' = Without(client[c].id)
      /\ UNCHANGED << phase, session, sessions, nextId, openLock, writeLock, asked, replies >>
  BY DEF Wake, GiveUp
<1>4. Locks'
  BY <1>0, <1>1, <1>2, <1>3 DEF Locks
<1>5. TypeOK'
  BY <1>2, <1>3, <1>4 DEF IInv, TypeOK, Locks, ClientType, Pcs, Replies
<1>6. Routing'
  BY <1>2, <1>3, RoutingLeft
<1>7. Proxies'
  BY <1>2, <1>3, ProxiesStay
<1> QED
  BY <1>5, <1>6, <1>7 DEF IInv

LEMMA WriteFailsStep ==
  ASSUME IInv, NEW c \in Clients, WriteFails(c)
  PROVE  IInv'
<1> DEFINE s == client[c].s
           closed == sessions[s].reader = "closed"
           base == IF closed THEN client ELSE Doomed(s)
<1>0. client \in [Clients -> ClientType] /\ Locks /\ TypeOK
  BY Numbers DEF IInv, TypeOK, Locks
<1>1. client[c].pc = "writing" /\ s \in DOMAIN sessions
  BY DEF WriteFails, IInv, Proxies
<1>2. /\ client' = [base EXCEPT ![c] = Asleep]
      /\ waiters' = Without(client[c].id) /\ writeLock' = Free
      /\ UNCHANGED << phase, nextId, openLock, asked, replies >>
  BY DEF WriteFails, Answered
<1>3. /\ base \in [Clients -> ClientType]
      /\ \A d \in Clients : /\ base[d].pc = client[d].pc /\ base[d].s = client[d].s
                            /\ base[d].id = client[d].id /\ base[d].reply = client[d].reply
  BY <1>0, DoomedClients
<1>4. /\ client' \in [Clients -> ClientType]
      /\ client'[c].pc = "off" /\ \A d \in Clients \ {c} : client'[d].pc = client[d].pc
      /\ Left(c) /\ \A d \in Clients \ {c} : Same(d)
      /\ UsersStay
  <2> HIDE DEF base
  <2> QED
    BY <1>2, <1>3, Leaves
<1>5. Locks'
  BY <1>0, <1>1, <1>2, <1>4, BrokerAssumption DEF Locks
<1>6. Routing'
  BY <1>2, <1>4, RoutingLeft
<1>7. ASSUME closed PROVE TypeOK' /\ Proxies'
  <2>1. UNCHANGED << session, sessions >>
    BY <1>7 DEF WriteFails
  <2>2. TypeOK'
    BY <1>0, <1>2, <1>4, <1>5, <2>1 DEF TypeOK, Locks, ClientType, Pcs, Replies
  <2>3. Proxies'
    BY <1>4, <2>1, ProxiesStay
  <2> QED
    BY <2>2, <2>3
<1>8. ASSUME ~ closed PROVE TypeOK' /\ Proxies'
  <2>1. sessions' = Retired(s) /\ session' = Current(s)
    BY <1>8 DEF WriteFails
  <2>2. /\ sessions' \in Seq(SessionType) /\ Len(sessions') = Len(sessions) /\ DOMAIN sessions' = DOMAIN sessions
        /\ sessions'[s].poisoned /\ ~ sessions'[s].alive
        /\ \A t \in DOMAIN sessions : t # s => sessions'[t] = sessions[t]
    BY <1>0, <1>1, <2>1, RetiredSession
  <2>3. session' \in 0 .. Len(sessions')
    BY <1>0, <2>1, <2>2 DEF TypeOK, Current
  <2>4. TypeOK'
    <3> HIDE DEF base, s, closed
    <3> QED
      BY <1>0, <1>2, <1>4, <1>5, <2>2, <2>3 DEF TypeOK, Locks, ClientType, SessionType, Pcs, Replies
  <2>5. Proxies'
    BY <1>1, <1>4, <2>1, <2>2, ProxiesRetire
  <2> QED
    BY <2>4, <2>5
<1> QED
  BY <1>6, <1>7, <1>8 DEF IInv

-----------------------------------------------------------------------------
(***************************************************************************)
(* Readers, proxies and the main thread.                                   *)
(***************************************************************************)

\* A reply is handed to the client that made its request, or to nobody.
LEMMA DispatchStep ==
  ASSUME IInv, NEW s \in DOMAIN sessions, Dispatch(s)
  PROVE  IInv'
<1>1. PICK r \in replies :
        /\ r.s = s /\ sessions[s].reader = "reads"
        /\ client' = [c \in Clients |-> IF c \in Addressee(r) THEN [client[c] EXCEPT !.woken = TRUE, !.reply = r]
                                        ELSE client[c]]
        /\ replies' = replies \ {r}
        /\ UNCHANGED << phase, session, sessions, nextId, waiters, openLock, writeLock, asked >>
  BY DEF Dispatch
<1>2. client \in [Clients -> ClientType] /\ r \in Replies
  BY <1>1, Numbers DEF IInv, TypeOK
<1>3. /\ client' \in [Clients -> ClientType]
      /\ \A c \in Clients :
           /\ client'[c].pc = client[c].pc /\ client'[c].s = client[c].s /\ client'[c].id = client[c].id
           /\ client'[c].reply = IF c \in Addressee(r) THEN r ELSE client[c].reply
  <2>1. \A c \in Clients : [client[c] EXCEPT !.woken = TRUE, !.reply = r] \in ClientType
    BY <1>2 DEF ClientType
  <2>2. \A c \in Clients :
          LET woken == [client[c] EXCEPT !.woken = TRUE, !.reply = r]
          IN  /\ woken.pc = client[c].pc /\ woken.s = client[c].s /\ woken.id = client[c].id
              /\ woken.reply = r
    BY <1>2 DEF ClientType
  <2> QED
    BY <1>1, <1>2, <2>1, <2>2
<1>4. \A c \in Addressee(r) : InFlight(c) /\ r = Request(c)
  <2> SUFFICES ASSUME NEW c \in Addressee(r) PROVE InFlight(c) /\ r = Request(c)
    OBVIOUS
  <2>1. c \in Clients /\ r.id \in DOMAIN waiters /\ waiters[r.id] = c /\ client[c].s = r.s
    BY DEF Addressee
  <2>2. PICK d \in Clients : InFlight(d) /\ client[d].id = r.id
    BY <2>1 DEF IInv, Routing, AnswersReachTheirCaller
  <2>3. d = c
    BY <2>1, <2>2 DEF IInv, Routing, AnswersReachTheirCaller
  <2>4. r.from = c
    BY <1>1, <2>1 DEF IInv, Routing, Mail
  <2>5. r = [s |-> r.s, id |-> r.id, from |-> r.from]
    BY <1>2 DEF Replies
  <2> QED
    BY <2>1, <2>2, <2>3, <2>4, <2>5 DEF Request
<1>5. \A c \in Clients : (InFlight(c)' <=> InFlight(c)) /\ Request(c)' = Request(c)
  BY <1>3 DEF InFlight, Request
<1>6. TypeOK'
  BY <1>1, <1>3 DEF IInv, TypeOK, ClientType, Pcs, Replies
<1>7. AnswersReachTheirCaller'
  <2>1. \A c \in Clients : client'[c].reply # Free => client'[c].reply = Request(c)'
    BY <1>3, <1>4, <1>5 DEF IInv, Routing, AnswersReachTheirCaller
  <2>2. {client'[c].id : c \in {d \in Clients : InFlight(d)'}} = {client[c].id : c \in {d \in Clients : InFlight(d)}}
    BY <1>3, <1>5
  <2> QED
    BY <1>1, <1>3, <1>5, <2>1, <2>2 DEF IInv, Routing, AnswersReachTheirCaller
<1>8. Ids'
  BY <1>1, <1>3, <1>4, <1>5 DEF IInv, Routing, Ids
<1>9. Mail'
  BY <1>1 DEF IInv, Routing, Mail
<1>10. Proxies'
  BY <1>1, <1>3, ProxiesStay DEF UsersStay
<1> QED
  BY <1>6, <1>7, <1>8, <1>9, <1>10 DEF IInv, Routing

\* A session is retired by a thread that is not one of the clients.
LEMMA RetireStep ==
  ASSUME IInv, NEW s \in DOMAIN sessions, client' = Doomed(s), session' = Current(s),
         sessions' \in Seq(SessionType), Len(sessions') = Len(sessions), DOMAIN sessions' = DOMAIN sessions,
         sessions'[s].poisoned, ~ sessions'[s].alive,
         \A t \in DOMAIN sessions : t # s => sessions'[t] = sessions[t],
         phase' \in {"serving", "closing", "gone"}, replies' \subseteq replies,
         UNCHANGED << nextId, waiters, openLock, writeLock, asked >>
  PROVE  IInv'
<1>1. /\ client' \in [Clients -> ClientType]
      /\ \A c \in Clients : /\ client'[c].pc = client[c].pc /\ client'[c].s = client[c].s
                            /\ client'[c].id = client[c].id /\ client'[c].reply = client[c].reply
  BY DoomedClients DEF IInv
<1>2. TypeOK'
  BY <1>1, Numbers DEF IInv, TypeOK, ClientType, SessionType, Pcs, Replies, Current
<1>3. (\A c \in Clients : Same(c)) /\ UsersStay
  BY <1>1 DEF Same, UsersStay
<1>4. Routing'
  BY <1>3, RoutingStays, Numbers
<1>5. Proxies'
  BY <1>3, ProxiesRetire
<1> QED
  BY <1>2, <1>4, <1>5 DEF IInv

LEMMA ReaderEndsStep ==
  ASSUME IInv, NEW s \in DOMAIN sessions, ReaderEnds(s)
  PROVE  IInv'
<1> DEFINE r == [Retired(s)[s] EXCEPT !.reader = "ends"]
<1>1. /\ Retired(s) \in Seq(SessionType) /\ Len(Retired(s)) = Len(sessions)
      /\ DOMAIN Retired(s) = DOMAIN sessions /\ DOMAIN sessions = 1 .. Len(sessions)
      /\ Retired(s)[s].poisoned /\ ~ Retired(s)[s].alive
      /\ \A t \in DOMAIN sessions : t # s => Retired(s)[t] = sessions[t]
  BY RetiredSession, Numbers DEF IInv
<1>2. Retired(s)[s] \in SessionType
  BY <1>1, LenProperties
<1>3. r \in SessionType /\ r.poisoned /\ ~ r.alive
  BY <1>1, <1>2 DEF SessionType
<1>4. sessions' = [Retired(s) EXCEPT ![s] = r]
  BY DEF ReaderEnds
<1> HIDE DEF r
<1>5. /\ sessions' \in Seq(SessionType) /\ Len(sessions') = Len(sessions) /\ DOMAIN sessions' = DOMAIN sessions
      /\ sessions'[s] = r /\ \A t \in DOMAIN sessions : t # s => sessions'[t] = sessions[t]
  BY <1>1, <1>3, <1>4, ExceptSeq
<1>6. client' = Doomed(s) /\ session' = Current(s) /\ replies' \subseteq replies
  BY DEF ReaderEnds
<1> QED
  BY <1>3, <1>5, <1>6, RetireStep DEF ReaderEnds, IInv, TypeOK

LEMMA CloseStep ==
  ASSUME IInv, Close
  PROVE  IInv'
<1>1. CASE session = 0
  <2>1. /\ session' = 0 /\ phase' = "closing"
        /\ UNCHANGED << sessions, client, nextId, waiters, openLock, writeLock, asked, replies >>
    BY <1>1 DEF Close
  <2>2. TypeOK'
    BY <1>1, <2>1 DEF IInv, TypeOK, Replies
  <2>3. (\A c \in Clients : Same(c)) /\ UsersStay
    BY <2>1 DEF Same, UsersStay
  <2>4. Routing'
    BY <2>1, <2>3, RoutingStays, Numbers
  <2>5. Proxies'
    BY <1>1, <2>1, <2>3, ProxiesStay
  <2> QED
    BY <2>2, <2>4, <2>5 DEF IInv
<1>2. CASE session # 0
  <2>1. session \in DOMAIN sessions
    BY <1>2, Numbers DEF IInv, TypeOK
  <2>2. /\ sessions' = Retired(session) /\ client' = Doomed(session) /\ session' = Current(session)
        /\ phase' = "closing" /\ UNCHANGED << nextId, waiters, openLock, writeLock, asked, replies >>
    BY <1>2 DEF Close, Current
  <2> QED
    BY <2>1, <2>2, RetiredSession, RetireStep DEF IInv
<1> QED
  BY <1>1, <1>2

\* A reader closes its session, a proxy replies or dies: no client is moved.
LEMMA SessionStep ==
  ASSUME IInv, NEW s \in DOMAIN sessions, ReaderCloses(s) \/ ProxyReplies(s) \/ ProxyDies(s)
  PROVE  IInv'
<1>0. UNCHANGED << phase, session, nextId, waiters, client, openLock, writeLock >>
  BY DEF ReaderCloses, ProxyReplies, ProxyDies
<1>1. asked' \union replies' \subseteq asked \union replies
  BY DEF ReaderCloses, ProxyReplies, ProxyDies
<1>2. /\ sessions' \in Seq(SessionType) /\ Len(sessions') = Len(sessions) /\ DOMAIN sessions' = DOMAIN sessions
      /\ \A t \in DOMAIN sessions : /\ sessions'[t].poisoned = sessions[t].poisoned
                                    /\ sessions'[t].alive => sessions[t].alive
  <2>0. /\ sessions \in Seq(SessionType) /\ DOMAIN sessions = 1 .. Len(sessions)
        /\ sessions[s] \in SessionType
    BY Numbers DEF IInv, TypeOK, SessionType
  <2>1. CASE UNCHANGED sessions
    BY <2>0, <2>1
  <2>2. ASSUME NEW r \in SessionType, sessions' = [sessions EXCEPT ![s] = r],
               r.poisoned = sessions[s].poisoned, r.alive => sessions[s].alive
        PROVE  /\ sessions' \in Seq(SessionType) /\ Len(sessions') = Len(sessions) /\ DOMAIN sessions' = DOMAIN sessions
               /\ \A t \in DOMAIN sessions : /\ sessions'[t].poisoned = sessions[t].poisoned
                                             /\ sessions'[t].alive => sessions[t].alive
    BY <2>0, <2>2, ExceptSeq
  <2>3. CASE ReaderCloses(s)
    <3> DEFINE r == [sessions[s] EXCEPT !.reader = "closed"]
    <3>1. r \in SessionType /\ r.poisoned = sessions[s].poisoned /\ r.alive = sessions[s].alive
      BY <2>0 DEF SessionType
    <3>2. sessions' = [sessions EXCEPT ![s] = r]
      BY <2>3 DEF ReaderCloses
    <3> QED
      BY <2>2, <3>1, <3>2
  <2>4. CASE ProxyDies(s)
    <3> DEFINE r == [sessions[s] EXCEPT !.alive = FALSE]
    <3>1. r \in SessionType /\ r.poisoned = sessions[s].poisoned /\ ~ r.alive
      BY <2>0 DEF SessionType
    <3>2. sessions' = [sessions EXCEPT ![s] = r]
      BY <2>4 DEF ProxyDies
    <3> QED
      BY <2>2, <3>1, <3>2
  <2> QED
    BY <2>1, <2>3, <2>4 DEF ProxyReplies
<1>3. TypeOK'
  BY <1>0, <1>1, <1>2 DEF IInv, TypeOK, SessionType, Replies
<1>4. (\A c \in Clients : Same(c)) /\ UsersStay
  BY <1>0 DEF Same, UsersStay
<1>5. Routing'
  BY <1>0, <1>1, <1>4, RoutingStays, Numbers
<1>6. Proxies'
  BY <1>0, <1>2, <1>4, ProxiesStay
<1> QED
  BY <1>3, <1>5, <1>6 DEF IInv

-----------------------------------------------------------------------------
(***************************************************************************)
(* The invariant, and what follows from it.                                *)
(***************************************************************************)

LEMMA InvariantInit == Init => IInv
<1> SUFFICES ASSUME Init PROVE IInv
  OBVIOUS
<1>1. client \in [Clients -> ClientType]
  BY AsleepClient DEF Init
<1>2. \A c \in Clients : client[c].pc = "off" /\ client[c].id = 0 /\ client[c].reply = Free
  BY AsleepClient DEF Init
<1>3. sessions = << >> /\ Len(sessions) = 0 /\ DOMAIN sessions = {} /\ DOMAIN waiters = {}
  BY DEF Init
<1>4. TypeOK
  BY <1>1, <1>2, <1>3, BrokerAssumption DEF Init, TypeOK, ClientType, Pcs, Replies
<1>5. Routing
  <2>1. \A c \in Clients : ~ InFlight(c)
    BY <1>2 DEF InFlight
  <2> QED
    BY <1>2, <1>3, <2>1 DEF Init, Routing, AnswersReachTheirCaller, Ids, Mail
<1>6. Proxies
  BY <1>2, <1>3, BrokerAssumption DEF Init, Proxies, OneProxy
<1> QED
  BY <1>4, <1>5, <1>6 DEF IInv

LEMMA InvariantStep == IInv /\ [Next]_vars => IInv'
<1> SUFFICES ASSUME IInv, [Next]_vars PROVE IInv'
  OBVIOUS
<1>1. ASSUME NEW c \in Clients, Connect(c) \/ Running(c) PROVE IInv'
  BY <1>1, ClientMoves, OpenStep, OpenedStep, RegisterStep, WriteStep, WriteFailsStep, LeaveStep DEF Running
<1>2. ASSUME NEW s \in DOMAIN sessions, Reading(s) \/ ProxyReplies(s) \/ ProxyDies(s) PROVE IInv'
  BY <1>2, DispatchStep, ReaderEndsStep, SessionStep DEF Reading
<1>3. CASE Close
  BY <1>3, CloseStep
<1>4. ASSUME phase' \in {"serving", "closing", "gone"},
             UNCHANGED << session, sessions, nextId, waiters, client, openLock, writeLock, asked, replies >>
      PROVE  IInv'
  <2>1. TypeOK'
    BY <1>4 DEF IInv, TypeOK, Replies
  <2>2. (\A c \in Clients : Same(c)) /\ UsersStay
    BY <1>4 DEF Same, UsersStay
  <2>3. Routing' /\ Proxies'
    BY <1>4, <2>2, RoutingStays, ProxiesStay, Numbers
  <2> QED
    BY <2>1, <2>3 DEF IInv
<1>5. CASE Exit \/ UNCHANGED vars
  BY <1>4, <1>5 DEF Exit, vars, IInv, TypeOK
<1> QED
  BY <1>1, <1>2, <1>3, <1>5 DEF Next

\* What the properties rest on is an invariant of the broker: ids are never
\* reused, and a session is opened only while there is none.
THEOREM Invariant == Spec => []IInv
  BY InvariantInit, InvariantStep, PTL DEF Spec

\* The broker's state keeps its type, and each of its two locks is held by
\* exactly the thread at work under it: a thread that gives up, fails or is
\* answered has let go of both.
THEOREM BrokerTypeCorrect == Spec => []TypeOK
<1>1. IInv => TypeOK
  BY DEF IInv
<1> QED
  BY <1>1, Invariant, PTL

\* Replies are routed by id: whatever times out, dies, is retired or opened
\* anew, no client is handed the reply to another one's request.
THEOREM AnswersAreRouted == Spec => []AnswersReachTheirCaller
<1>1. IInv => AnswersReachTheirCaller
  BY DEF IInv, Routing
<1> QED
  BY <1>1, Invariant, PTL

\* The double check under the open lock suffices: no interleaving of clients,
\* readers and the broker's end leaves a second proxy alive.
THEOREM OneProxyLives == Spec => []OneProxy
<1>1. IInv => OneProxy
  BY DEF IInv, Proxies
<1> QED
  BY <1>1, Invariant, PTL
=============================================================================
