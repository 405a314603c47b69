------------------------------ MODULE StoreProofs ------------------------------
(***************************************************************************)
(* Proofs about the two models of badger_store.py, for any processes, keys *)
(* and values, and any sessions, messages and times.                       *)
(*                                                                         *)
(* StoreMigration: what the store wrote stands because a delete that finds *)
(* no file, or has migrated it, knows that the key is not in it (Clean).   *)
(* No key is lost because what is in the file that is about to be renamed  *)
(* is in the table, or deleted from it since (Safe).  And a read that goes *)
(* on to the file finds the key there as long as nobody has imported it    *)
(* (ReadSafe).                                                             *)
(*                                                                         *)
(* MessageBus: mail goes out once and in order because what a session has  *)
(* yet to be handed was sent after all that it was handed, in each of the  *)
(* states its cursor can be in (Ahead); and that holds across prunes and a *)
(* replaced database because ids are in order of time and cursors are only *)
(* lost together with the rows they have passed (Rows).                    *)
(***************************************************************************)
EXTENDS StoreMigration, MessageBus, FiniteSetTheorems, SequenceTheorems, TLAPS

\* What the invariant asks of a process in the state o.
Clean(o) == o.pc = "write" /\ o.clean => ~ InFile(o.key)

Safe(o) == o.pc = "rename" => \A k \in Keys : InFile(k) => db[k] # Absent \/ wrote[k].value = Absent

ReadSafe(o) ==
  o.pc \in {"select", "legacy"} /\ o.there /\ ~ o.raced =>
    /\ Present(o.key) /\ wrote[o.key].value # Absent
    /\ o.pc = "legacy" => InFile(o.key) /\ \A q \in Procs : ~ At(q, "rename")

Missed(o) == o.pc = "missed" /\ o.there => o.raced

Fine(o) == Clean(o) /\ Safe(o) /\ ReadSafe(o) /\ Missed(o)

IInv == TypeOK /\ StoreWritesStand /\ \A p \in Procs : Fine(proc[p])
-----------------------------------------------------------------------------
(***************************************************************************)
(* The type of a process, and the type invariant.                          *)
(***************************************************************************)

WritePcs == {"migrate", "check", "lock", "rename", "write"}
ReadPcs == {"select", "legacy", "missed"}
Writing == [pc : WritePcs, key : Keys, value : Row, clean : BOOLEAN]
Reading == [pc : ReadPcs, key : Keys, there : BOOLEAN, raced : BOOLEAN]

\* A process is closed, idle, in a write or in a read, as its pc says.
LEMMA Kinds ==
  ASSUME NEW o \in Operations
  PROVE  /\ o.pc \in WritePcs => o \in Writing
         /\ o.pc \in ReadPcs => o \in Reading
         /\ o.pc \in WritePcs \union ReadPcs \union {"closed", "idle"}
  BY DEF Operations, Rest, WritePcs, ReadPcs, Writing, Reading

LEMMA Moves ==
  ASSUME NEW o
  PROVE  /\ \A pc \in WritePcs : o \in Writing => [o EXCEPT !.pc = pc] \in Operations
         /\ \A pc \in ReadPcs : o \in Reading => [o EXCEPT !.pc = pc] \in Operations
         /\ \A b \in BOOLEAN : o \in Writing => [o EXCEPT !.clean = b] \in Operations
         /\ \A b \in BOOLEAN : o \in Reading => [o EXCEPT !.raced = b] \in Operations
                                             /\ [o EXCEPT !.there = b] \in Operations
  BY DEF Operations, Rest, WritePcs, ReadPcs, Writing, Reading

\* One process moves, and the lock stays as it is.
LEMMA OneMoves ==
  ASSUME TypeOK, NEW p \in Procs, NEW o \in Operations,
         proc' = [proc EXCEPT ![p] = o], UNCHANGED lock,
         ~ At(p, "rename"), o.pc # "rename"
  PROVE  /\ proc' \in [Procs -> Operations]
         /\ lock' \in Procs \union {Free} /\ \A q \in Procs : lock' = q <=> At(q, "rename")'
  BY DEF TypeOK, At

LEMMA TypeInit == Init => TypeOK
<1> SUFFICES ASSUME Init PROVE TypeOK
  OBVIOUS
<1>1. Rest \in Operations /\ Rest.pc = "closed"
  BY DEF Operations, Rest
<1>2. proc \in [Procs -> Operations] /\ \A p \in Procs : proc[p].pc = "closed"
  BY <1>1 DEF Init
<1>3. db \in [Keys -> Row] /\ wrote \in [Keys -> [value : Row \union {Never}, stands : BOOLEAN]]
  BY DEF Init, Row
<1> QED
  BY <1>2, <1>3, StoreAssumption DEF Init, TypeOK, At

LEMMA TypeStep == TypeOK /\ [Next]_vars => TypeOK'
<1> SUFFICES ASSUME TypeOK, [Next]_vars PROVE TypeOK'
  OBVIOUS
<1> USE DEF WritePcs, ReadPcs
<1>0. /\ Rest \in Operations /\ [pc |-> "idle"] \in Operations
      /\ Rest.pc = "closed"
  BY DEF Operations, Rest
<1>1. \A q \in Procs : proc[q] \in Operations
  BY DEF TypeOK
<1>2. ASSUME NEW p \in Procs, Open(p) PROVE TypeOK'
  <2>1. [proc[p] EXCEPT !.pc = "idle"] = [pc |-> "idle"]
    BY <1>1, <1>2 DEF Open, At, Operations, Rest
  <2>2. proc' = [proc EXCEPT ![p] = [pc |-> "idle"]]
    BY <1>2, <2>1 DEF Open, Goto, TypeOK
  <2> QED
    BY <1>0, <1>2, <2>2, OneMoves DEF Open, TypeOK, At
<1>3. ASSUME NEW p \in Procs, KvGet(p) PROVE TypeOK'
  <2>1. PICK k \in Keys :
          proc' = [proc EXCEPT ![p] = [pc |-> "select", key |-> k, raced |-> FALSE,
                                       there |-> Present(k) /\ wrote[k].value # Absent]]
    BY <1>3 DEF KvGet
  <2> DEFINE o == [pc |-> "select", key |-> k, raced |-> FALSE, there |-> Present(k) /\ wrote[k].value # Absent]
  <2>2. (Present(k) /\ wrote[k].value # Absent) \in BOOLEAN
    BY DEF Present
  <2>3. o \in Operations
    BY <2>2 DEF Operations
  <2> QED
    BY <1>3, <2>1, <2>3, OneMoves DEF KvGet, TypeOK, At
<1>4. ASSUME NEW p \in Procs, KvWrite(p) PROVE TypeOK'
  <2>1. PICK k \in Keys, v \in Row :
          proc' = [proc EXCEPT ![p] = [pc |-> "migrate", key |-> k, value |-> v, clean |-> TRUE]]
    BY <1>4 DEF KvWrite
  <2>2. [pc |-> "migrate", key |-> k, value |-> v, clean |-> TRUE] \in Operations
    BY DEF Operations
  <2> QED
    BY <1>4, <2>1, <2>2, OneMoves DEF KvWrite, TypeOK, At
<1>5. ASSUME NEW p \in Procs, NEW pc \in WritePcs, pc # "rename", proc[p].pc \in WritePcs, ~ At(p, "rename"),
             Goto(p, pc), UNCHANGED << db, stamped, file, newer, lock, wrote >>
      PROVE  TypeOK'
  <2>1. [proc[p] EXCEPT !.pc = pc] \in Operations /\ [proc[p] EXCEPT !.pc = pc].pc = pc
    BY <1>1, <1>5, Kinds, Moves DEF Writing
  <2>2. proc' = [proc EXCEPT ![p] = [proc[p] EXCEPT !.pc = pc]]
    BY <1>5 DEF Goto, TypeOK
  <2> QED
    BY <1>5, <2>1, <2>2, OneMoves DEF TypeOK
<1>6. ASSUME NEW p \in Procs, ~ At(p, "rename"), GiveUp(p), UNCHANGED << db, stamped, file, newer, lock, wrote >>
      PROVE  TypeOK'
  BY <1>0, <1>6, OneMoves DEF GiveUp, TypeOK
<1>7. ASSUME NEW p \in Procs, ~ At(p, "rename"), proc' = [proc EXCEPT ![p] = [pc |-> "idle"]],
             UNCHANGED << db, stamped, file, newer, lock, wrote >>
      PROVE  TypeOK'
  BY <1>0, <1>7, OneMoves DEF TypeOK
<1>8. ASSUME NEW p \in Procs, NEW pc \in ReadPcs, proc[p].pc \in ReadPcs,
             Goto(p, pc), UNCHANGED << db, stamped, file, newer, lock, wrote >>
      PROVE  TypeOK'
  <2>1. [proc[p] EXCEPT !.pc = pc] \in Operations /\ [proc[p] EXCEPT !.pc = pc].pc = pc
    BY <1>1, <1>8, Kinds, Moves DEF Reading
  <2>2. proc' = [proc EXCEPT ![p] = [proc[p] EXCEPT !.pc = pc]]
    BY <1>8 DEF Goto, TypeOK
  <2> QED
    BY <1>8, <2>1, <2>2, OneMoves DEF TypeOK, At
<1>9. ASSUME NEW p \in Procs, Look(p) PROVE TypeOK'
  BY <1>5, <1>9 DEF Look, At
<1>10. ASSUME NEW p \in Procs, Check(p) PROVE TypeOK'
  BY <1>5, <1>6, <1>10 DEF Check, At
<1>11. ASSUME NEW p \in Procs, NothingLeft(p) PROVE TypeOK'
  BY <1>5, <1>11 DEF NothingLeft, At
<1>12. ASSUME NEW p \in Procs, SelectRow(p) PROVE TypeOK'
  BY <1>7, <1>8, <1>12 DEF SelectRow, At
<1>13. ASSUME NEW p \in Procs, LegacyRead(p) PROVE TypeOK'
  BY <1>6, <1>7, <1>8, <1>13 DEF LegacyRead, At
<1>14. ASSUME NEW p \in Procs, Import(p) PROVE TypeOK'
  <2>1. \A q \in Procs : SeesImport(q) \in Operations /\ SeesImport(q).pc = proc[q].pc
    <3> SUFFICES ASSUME NEW q \in Procs
                 PROVE  SeesImport(q) \in Operations /\ SeesImport(q).pc = proc[q].pc
      OBVIOUS
    <3>1. CASE proc[q].pc \in {"select", "legacy"}
      <4>1. proc[q] \in Reading
        BY <1>1, <3>1, Kinds DEF ReadPcs
      <4>2. SeesImport(q) = [proc[q] EXCEPT !.raced = TRUE]
        BY <3>1 DEF SeesImport, At
      <4>3. [proc[q] EXCEPT !.raced = TRUE] \in Operations
        BY <4>1, Moves
      <4> QED
        BY <4>1, <4>2, <4>3 DEF Reading
    <3>2. CASE proc[q].pc \notin {"select", "legacy"}
      BY <1>1, <3>2 DEF SeesImport, At
    <3> QED
      BY <3>1, <3>2
  <2>2. [proc[p] EXCEPT !.pc = "rename"] \in Operations /\ [proc[p] EXCEPT !.pc = "rename"].pc = "rename"
    BY <1>1, <1>14, Kinds, Moves DEF Import, At, Writing
  <2>3. proc' \in [Procs -> Operations]
    BY <1>14, <2>1, <2>2 DEF Import
  <2>4. \A q \in Procs : ~ At(q, "rename")
    BY <1>14, StoreAssumption DEF Import, TypeOK
  <2>5. \A q \in Procs : proc'[q].pc = IF q = p THEN "rename" ELSE proc[q].pc
    BY <1>14, <2>1, <2>2 DEF Import
  <2>6. Imported \in [Keys -> Row]
    BY <1>14 DEF Import, Imported, TypeOK
  <2> QED
    BY <1>14, <2>3, <2>4, <2>5, <2>6 DEF Import, TypeOK, At
<1>15. ASSUME NEW p \in Procs, Rename(p) PROVE TypeOK'
  <2>1. [proc[p] EXCEPT !.pc = "write"] \in Operations /\ [proc[p] EXCEPT !.pc = "write"].pc = "write"
    BY <1>1, <1>15, Kinds, Moves DEF Rename, At, Writing
  <2>2. proc' = [proc EXCEPT ![p] = [proc[p] EXCEPT !.pc = "write"]]
    BY <1>15 DEF Rename, Goto, TypeOK
  <2>3. \A q \in Procs : At(q, "rename") => q = p
    BY <1>15 DEF Rename, TypeOK
  <2>4. \A q \in Procs : ~ At(q, "rename")'
    BY <2>1, <2>2, <2>3 DEF At, TypeOK
  <2> QED
    BY <1>15, <2>1, <2>2, <2>4, StoreAssumption DEF Rename, TypeOK
<1>16. ASSUME NEW p \in Procs, Write(p) PROVE TypeOK'
  <2> DEFINE k == proc[p].key  v == proc[p].value
  <2>1. k \in Keys /\ v \in Row /\ proc[p].clean \in BOOLEAN
    BY <1>1, <1>16, Kinds DEF Write, At, Writing
  <2> DEFINE others == IF v = Absent THEN Misses(k) ELSE proc
  <2>2. \A q \in Procs : Misses(k)[q] \in Operations /\ Misses(k)[q].pc = proc[q].pc
    BY <1>1, Kinds, Moves DEF Misses, At, Reading
  <2>3. others \in [Procs -> Operations] /\ \A q \in Procs : others[q].pc = proc[q].pc
    BY <2>2 DEF Misses, TypeOK
  <2>4. proc' = [others EXCEPT ![p] = [pc |-> "idle"]]
    BY <1>16 DEF Write
  <2>5. /\ proc' \in [Procs -> Operations]
        /\ \A q \in Procs : proc'[q].pc = IF q = p THEN "idle" ELSE proc[q].pc
    BY <1>0, <2>3, <2>4
  <2>6. wrote' \in [Keys -> [value : Row \union {Never}, stands : BOOLEAN]]
    BY <1>16, <2>1 DEF Write, TypeOK
  <2> QED
    BY <1>16, <2>1, <2>5, <2>6 DEF Write, TypeOK, At
<1>17. ASSUME NEW p \in Procs, Crash(p) PROVE TypeOK'
  <2>1. proc' = [proc EXCEPT ![p] = Rest]
    BY <1>17 DEF Crash, GiveUp
  <2>2. /\ proc' \in [Procs -> Operations]
        /\ \A q \in Procs : proc'[q].pc = IF q = p THEN "closed" ELSE proc[q].pc
    BY <1>0, <2>1 DEF TypeOK
  <2> QED
    BY <1>17, <2>2, StoreAssumption DEF Crash, TypeOK, At
<1>18. CASE LegacyWrite
  <2>1. PICK k \in Keys, v \in Values :
          /\ file' = [(IF file = NoFile THEN [j \in Keys |-> Absent] ELSE file) EXCEPT ![k] = v]
          /\ newer' = stamped
          /\ wrote' = [wrote EXCEPT ![k] = IF @.value = Absent THEN [value |-> Never, stands |-> FALSE] ELSE @]
          /\ proc' = [q \in Procs |-> IF proc[q].pc \in {"migrate", "check", "lock", "rename", "write"} /\ proc[q].key = k
                                      THEN [proc[q] EXCEPT !.clean = FALSE] ELSE proc[q]]
          /\ UNCHANGED << db, stamped, lock >>
    BY <1>18 DEF LegacyWrite
  <2>2. \A q \in Procs : proc'[q] \in Operations /\ proc'[q].pc = proc[q].pc
    BY <1>1, <2>1, Kinds, Moves DEF Writing
  <2>3. proc' \in [Procs -> Operations]
    BY <2>1, <2>2
  <2>4. file' \in [Keys -> Row]
    BY <2>1 DEF TypeOK, Row
  <2>5. wrote' \in [Keys -> [value : Row \union {Never}, stands : BOOLEAN]]
    BY <2>1 DEF TypeOK
  <2> QED
    BY <2>1, <2>2, <2>3, <2>4, <2>5 DEF TypeOK, At
<1>19. CASE UNCHANGED vars
  BY <1>19 DEF vars, TypeOK, At
<1> QED
  BY <1>2, <1>3, <1>4, <1>9, <1>10, <1>11, <1>12, <1>13, <1>14, <1>15, <1>16, <1>17, <1>18, <1>19 DEF Next
-----------------------------------------------------------------------------
(***************************************************************************)
(* The invariant is inductive.                                             *)
(***************************************************************************)

\* A step that only moves one process, to a state that is fine.
LEMMA OnlyMoves ==
  ASSUME IInv, TypeOK', NEW p \in Procs, NEW o, proc' = [proc EXCEPT ![p] = o],
         UNCHANGED << db, file, wrote >>, Fine(o), o.pc # "rename"
  PROVE  IInv'
<1>0. \A k : (Present(k)' <=> Present(k)) /\ (InFile(k)' <=> InFile(k))
  BY DEF Present, InFile
<1>1. StoreWritesStand'
  BY DEF IInv, StoreWritesStand, Present, InFile
<1>2. \A q \in Procs : At(q, "rename")' => At(q, "rename")
  BY DEF At, IInv, TypeOK
<1>3. ASSUME NEW q \in Procs PROVE Fine(proc[q])'
  <2>1. Fine(proc'[q]) /\ proc'[q] \in Operations
    BY <1>3 DEF IInv, TypeOK
  <2> QED
    BY <1>0, <1>2, <2>1, Kinds DEF Fine, Clean, Safe, ReadSafe, Missed, WritePcs, ReadPcs, Writing, Reading
<1> QED
  BY <1>1, <1>3 DEF IInv

LEMMA InvariantInit == Init => IInv
<1> SUFFICES ASSUME Init PROVE IInv
  OBVIOUS
<1>1. \A p \in Procs : proc[p].pc = "closed"
  BY DEF Init, Rest
<1>2. StoreWritesStand
  BY DEF Init, StoreWritesStand
<1>3. \A p \in Procs : Fine(proc[p])
  BY <1>1 DEF Fine, Clean, Safe, ReadSafe, Missed
<1> QED
  BY <1>2, <1>3, TypeInit DEF IInv

\* The actions of one process that leave the table and the file alone.
LEMMA Quiet ==
  ASSUME IInv, TypeOK', NEW p \in Procs,
         \/ Open(p) \/ KvGet(p) \/ KvWrite(p) \/ Look(p) \/ Check(p) \/ NothingLeft(p)
         \/ SelectRow(p) \/ LegacyRead(p) \/ Crash(p)
  PROVE  IInv'
<1>1. proc[p] \in Operations /\ proc \in [Procs -> Operations]
  BY DEF IInv, TypeOK
<1>2. Rest.pc = "closed" /\ Fine(Rest) /\ Fine([pc |-> "idle"]) /\ [pc |-> "idle"].pc # "rename"
  BY DEF Rest, Fine, Clean, Safe, ReadSafe, Missed
<1>3. ASSUME NEW pc \in {"check", "lock", "idle"}, Goto(p, pc), UNCHANGED << db, file, wrote >> PROVE IInv'
  <2> DEFINE o == [proc[p] EXCEPT !.pc = pc]
  <2>1. proc' = [proc EXCEPT ![p] = o]
    BY <1>1, <1>3 DEF Goto
  <2>2. o.pc = pc
    BY <1>1 DEF Operations, Rest
  <2>3. Fine(o)
    BY <2>2 DEF Fine, Clean, Safe, ReadSafe, Missed
  <2> QED
    BY <1>3, <2>1, <2>2, <2>3, OnlyMoves
<1>4. ASSUME file = NoFile, Goto(p, "write"), UNCHANGED << db, file, wrote >> PROVE IInv'
  <2> DEFINE o == [proc[p] EXCEPT !.pc = "write"]
  <2>1. proc' = [proc EXCEPT ![p] = o]
    BY <1>1, <1>4 DEF Goto
  <2>2. o.pc = "write" /\ ~ InFile(o.key)
    BY <1>1, <1>4 DEF Operations, Rest, InFile
  <2>3. Fine(o)
    BY <2>2 DEF Fine, Clean, Safe, ReadSafe, Missed
  <2> QED
    BY <1>4, <2>1, <2>2, <2>3, OnlyMoves
<1>5. ASSUME GiveUp(p), UNCHANGED << db, file, wrote >> PROVE IInv'
  BY <1>2, <1>5, OnlyMoves DEF GiveUp
<1>6. ASSUME proc' = [proc EXCEPT ![p] = [pc |-> "idle"]], UNCHANGED << db, file, wrote >> PROVE IInv'
  BY <1>2, <1>6, OnlyMoves
<1>7. CASE Open(p)
  BY <1>3, <1>7 DEF Open
<1>8. CASE KvGet(p)
  <2>1. PICK k \in Keys :
          proc' = [proc EXCEPT ![p] = [pc |-> "select", key |-> k, raced |-> FALSE,
                                       there |-> Present(k) /\ wrote[k].value # Absent]]
    BY <1>8 DEF KvGet
  <2> DEFINE o == [pc |-> "select", key |-> k, raced |-> FALSE, there |-> Present(k) /\ wrote[k].value # Absent]
  <2>2. Fine(o) /\ o.pc # "rename"
    BY DEF Fine, Clean, Safe, ReadSafe, Missed
  <2> QED
    BY <1>8, <2>1, <2>2, OnlyMoves DEF KvGet
<1>9. CASE KvWrite(p)
  <2>1. PICK k \in Keys, v \in Row :
          proc' = [proc EXCEPT ![p] = [pc |-> "migrate", key |-> k, value |-> v, clean |-> TRUE]]
    BY <1>9 DEF KvWrite
  <2>2. Fine([pc |-> "migrate", key |-> k, value |-> v, clean |-> TRUE])
    BY DEF Fine, Clean, Safe, ReadSafe, Missed
  <2> QED
    BY <1>9, <2>1, <2>2, OnlyMoves DEF KvWrite
<1>10. CASE Look(p)
  BY <1>3, <1>4, <1>10 DEF Look
<1>11. CASE Check(p)
  BY <1>3, <1>5, <1>11 DEF Check
<1>12. CASE NothingLeft(p)
  BY <1>4, <1>12 DEF NothingLeft
<1>13. CASE SelectRow(p)
  <2>1. CASE db[proc[p].key] # Absent
    BY <1>6, <1>13, <2>1 DEF SelectRow
  <2>2. CASE db[proc[p].key] = Absent
    <3> DEFINE o == [proc[p] EXCEPT !.pc = "legacy"]
    <3>1. proc' = [proc EXCEPT ![p] = o]
      BY <1>1, <1>13, <2>2 DEF SelectRow, Goto
    <3>2. proc[p] \in Reading
      BY <1>1, <1>13, Kinds DEF SelectRow, At, ReadPcs
    <3>3. o.pc = "legacy" /\ o.key = proc[p].key /\ o.there = proc[p].there /\ o.raced = proc[p].raced
      BY <3>2 DEF Reading
    <3>4. ASSUME o.there, ~ o.raced
          PROVE  Present(o.key) /\ wrote[o.key].value # Absent /\ InFile(o.key) /\ \A q \in Procs : ~ At(q, "rename")
      <4>1. Present(o.key) /\ wrote[o.key].value # Absent
        BY <1>13, <3>3, <3>4 DEF IInv, Fine, ReadSafe, SelectRow, At
      <4>2. InFile(o.key) /\ o.key \in Keys
        BY <2>2, <3>2, <3>3, <4>1 DEF Present, Reading
      <4> QED
        BY <2>2, <3>3, <4>1, <4>2 DEF IInv, Fine, Safe, At
    <3>5. Fine(o)
      BY <3>3, <3>4 DEF Fine, Clean, Safe, ReadSafe, Missed
    <3> QED
      BY <1>13, <3>1, <3>3, <3>5, OnlyMoves DEF SelectRow
  <2> QED
    BY <2>1, <2>2
<1>14. CASE LegacyRead(p)
  <2>1. CASE GiveUp(p)
    BY <1>5, <1>14, <2>1 DEF LegacyRead
  <2>2. CASE proc' = [proc EXCEPT ![p] = [pc |-> "idle"]]
    BY <1>6, <1>14, <2>2 DEF LegacyRead
  <2>3. CASE ~ InFile(proc[p].key) /\ Goto(p, "missed")
    <3> DEFINE o == [proc[p] EXCEPT !.pc = "missed"]
    <3>1. proc' = [proc EXCEPT ![p] = o]
      BY <1>1, <2>3 DEF Goto
    <3>2. proc[p] \in Reading
      BY <1>1, <1>14, Kinds DEF LegacyRead, At, ReadPcs
    <3>3. o.pc = "missed" /\ o.there = proc[p].there /\ o.raced = proc[p].raced
      BY <3>2 DEF Reading
    <3>4. Fine(o)
      BY <1>14, <2>3, <3>3 DEF IInv, LegacyRead, At, Fine, Clean, Safe, ReadSafe, Missed
    <3> QED
      BY <1>14, <3>1, <3>3, <3>4, OnlyMoves DEF LegacyRead
  <2> QED
    BY <1>14, <2>1, <2>2, <2>3 DEF LegacyRead
<1>15. CASE Crash(p)
  BY <1>5, <1>15 DEF Crash
<1> QED
  BY <1>7, <1>8, <1>9, <1>10, <1>11, <1>12, <1>13, <1>14, <1>15

LEMMA ImportStep ==
  ASSUME IInv, TypeOK', NEW p \in Procs, Import(p)
  PROVE  IInv'
<1>1. \A k \in Keys : db'[k] = IF db[k] # Absent THEN db[k] ELSE file[k]
  BY DEF Import, Imported
<1>2. file # NoFile /\ file' = file /\ wrote' = wrote /\ \A q \in Procs : ~ At(q, "rename")
  BY StoreAssumption DEF Import, IInv, TypeOK
<1>3. \A k : InFile(k)' <=> InFile(k)
  BY <1>2 DEF InFile
<1>4. StoreWritesStand'
  BY <1>1, <1>2 DEF IInv, StoreWritesStand, Present, InFile
<1>5. Fine(proc[p])'
  <2>1. proc'[p].pc = "rename"
    <3>1. proc'[p] = [proc[p] EXCEPT !.pc = "rename"] /\ proc[p] \in Operations /\ At(p, "lock")
      BY DEF Import, IInv, TypeOK
    <3> QED
      BY <3>1 DEF At, Operations, Rest
  <2>2. \A k \in Keys : InFile(k)' => db'[k] # Absent
    BY <1>1, <1>2, <1>3 DEF InFile
  <2> QED
    BY <2>1, <2>2 DEF Fine, Clean, Safe, ReadSafe, Missed
<1>6. ASSUME NEW q \in Procs, q # p PROVE Fine(proc[q])'
  <2>1. proc'[q] = SeesImport(q) /\ Fine(proc[q]) /\ proc[q] \in Operations
    BY <1>6 DEF Import, IInv, TypeOK
  <2>2. CASE At(q, "select") \/ At(q, "legacy")
    <3>1. proc'[q].raced /\ proc'[q].pc \in {"select", "legacy"}
      BY <2>1, <2>2, Kinds DEF SeesImport, At, ReadPcs, Reading
    <3> QED
      BY <3>1 DEF Fine, Clean, Safe, ReadSafe, Missed
  <2>3. CASE ~ (At(q, "select") \/ At(q, "legacy"))
    <3>1. proc'[q] = proc[q] /\ proc[q].pc \notin {"select", "legacy", "rename"}
      BY <1>2, <2>1, <2>3 DEF SeesImport, At
    <3> QED
      BY <1>3, <2>1, <3>1 DEF Fine, Clean, Safe, ReadSafe, Missed
  <2> QED
    BY <2>2, <2>3
<1> QED
  BY <1>4, <1>5, <1>6 DEF IInv

LEMMA RenameStep ==
  ASSUME IInv, TypeOK', NEW p \in Procs, Rename(p)
  PROVE  IInv'
<1>1. file' = NoFile /\ db' = db /\ wrote' = wrote
  BY DEF Rename
<1>2. \A k : ~ InFile(k)'
  BY <1>1 DEF InFile
<1>3. StoreWritesStand'
  BY <1>1 DEF IInv, StoreWritesStand, Present, InFile
<1>4. Safe(proc[p]) /\ At(p, "rename")
  BY DEF IInv, Fine, Rename
<1>5. ASSUME NEW q \in Procs PROVE Fine(proc[q])'
  <2>1. proc[q] \in Operations /\ Fine(proc[q])
    BY DEF IInv, TypeOK
  <2>2. proc'[q] = IF q = p THEN [proc[q] EXCEPT !.pc = "write"] ELSE proc[q]
    BY DEF Rename, Goto, IInv, TypeOK
  <2>3. proc'[q].pc \in {"select", "legacy"} => proc'[q] = proc[q] /\ proc[q] \in Reading
    BY <1>4, <2>1, <2>2, Kinds DEF At, ReadPcs, Operations, Rest
  <2>4. ReadSafe(proc[q])'
    <3> SUFFICES ASSUME proc[q].pc \in {"select", "legacy"}, proc[q].there, ~ proc[q].raced, proc'[q] = proc[q],
                        proc[q] \in Reading
                 PROVE  /\ proc[q].pc = "select" /\ db[proc[q].key] # Absent
                        /\ wrote[proc[q].key].value # Absent
      BY <1>1, <2>3 DEF ReadSafe, Present
    <3>1. Present(proc[q].key) /\ wrote[proc[q].key].value # Absent /\ proc[q].pc = "select" /\ proc[q].key \in Keys
      BY <1>4, <2>1 DEF Fine, ReadSafe, Reading, At
    <3> QED
      BY <1>4, <3>1 DEF Present, Safe, At
  <2>5. Clean(proc[q])' /\ Safe(proc[q])'
    BY <1>2 DEF Clean, Safe
  <2>6. Missed(proc[q])'
    BY <1>4, <2>1, <2>2 DEF Missed, Fine, At, Operations, Rest
  <2> QED
    BY <2>4, <2>5, <2>6 DEF Fine
<1> QED
  BY <1>3, <1>5 DEF IInv

LEMMA WriteStep ==
  ASSUME IInv, TypeOK', NEW p \in Procs, Write(p)
  PROVE  IInv'
<1> DEFINE k == proc[p].key  v == proc[p].value
<1>1. /\ k \in Keys /\ v \in Row /\ proc[p] \in Operations /\ Clean(proc[p]) /\ At(p, "write")
      /\ proc[p].clean \in BOOLEAN
  BY Kinds DEF Write, IInv, TypeOK, Fine, At, WritePcs, Writing
<1>2. /\ db' = [db EXCEPT ![k] = v] /\ file' = file
      /\ wrote' = [wrote EXCEPT ![k] = [value |-> v, stands |-> v # Absent \/ proc[p].clean]]
  BY DEF Write
<1>3. \A j : InFile(j)' <=> InFile(j)
  BY <1>2 DEF InFile
<1>4. ASSUME NEW j \in Keys
      PROVE  /\ j = k => db'[j] = v /\ wrote'[j] = [value |-> v, stands |-> v # Absent \/ proc[p].clean]
             /\ j # k => db'[j] = db[j] /\ wrote'[j] = wrote[j]
  BY <1>2 DEF IInv, TypeOK
<1>5. StoreWritesStand'
  <2>1. v = Absent /\ proc[p].clean => ~ InFile(k)
    BY <1>1 DEF Clean, At
  <2>2. ASSUME NEW j \in Keys, wrote'[j].stands
        PROVE  db'[j] = wrote'[j].value /\ (wrote'[j].value = Absent => ~ (db'[j] # Absent \/ InFile(j)))
    <3>1. CASE j = k
      <4>1. db'[j] = v /\ wrote'[j].value = v
        BY <1>4, <3>1
      <4>2. v # Absent \/ proc[p].clean
        BY <1>1, <1>4, <2>2, <3>1
      <4> QED
        BY <2>1, <3>1, <4>1, <4>2
    <3>2. CASE j # k
      BY <1>4, <2>2, <3>2 DEF IInv, StoreWritesStand, Present
    <3> QED
      BY <3>1, <3>2
  <2> QED
    BY <1>3, <2>2 DEF StoreWritesStand, Present
<1>6. proc'[p] = [pc |-> "idle"]
  BY DEF Write, IInv, TypeOK, Misses
<1>7. Fine(proc[p])'
  BY <1>6 DEF Fine, Clean, Safe, ReadSafe, Missed
<1>8. \A q \in Procs : At(q, "rename")' => At(q, "rename")
  <2>1. ASSUME NEW q \in Procs, q # p PROVE proc'[q].pc = proc[q].pc
    <3>1. \/ proc'[q] = proc[q]
          \/ proc'[q] = [proc[q] EXCEPT !.there = FALSE] /\ (At(q, "select") \/ At(q, "legacy"))
      BY <2>1 DEF Write, IInv, TypeOK, Misses
    <3> QED
      BY <3>1, Kinds DEF IInv, TypeOK, At, ReadPcs, Reading
  <2> QED
    BY <1>6, <2>1 DEF At
<1>9. ASSUME NEW q \in Procs, q # p PROVE Fine(proc[q])'
  <2>1. proc[q] \in Operations /\ Fine(proc[q])
    BY DEF IInv, TypeOK
  <2>2. CASE v = Absent /\ (At(q, "select") \/ At(q, "legacy")) /\ proc[q].key = k
    <3>1. proc'[q] = [proc[q] EXCEPT !.there = FALSE] /\ proc[q] \in Reading
      BY <1>9, <2>1, <2>2, Kinds DEF Write, IInv, TypeOK, Misses, At, ReadPcs
    <3>2. ~ proc'[q].there /\ proc'[q].pc \in {"select", "legacy"}
      BY <2>2, <3>1 DEF Reading, At
    <3> QED
      BY <3>2 DEF Fine, Clean, Safe, ReadSafe, Missed
  <2>3. CASE ~ (v = Absent /\ (At(q, "select") \/ At(q, "legacy")) /\ proc[q].key = k)
    <3>1. proc'[q] = proc[q]
      BY <1>9, <2>3 DEF Write, IInv, TypeOK, Misses
    <3>2. Clean(proc[q])' /\ Missed(proc[q])'
      BY <1>3, <2>1, <3>1 DEF Fine, Clean, Missed
    <3>3. Safe(proc[q])'
      <4> SUFFICES ASSUME proc[q].pc = "rename", NEW j \in Keys, InFile(j)
                   PROVE  db'[j] # Absent \/ wrote'[j].value = Absent
        BY <1>3, <3>1 DEF Safe
      <4>1. db[j] # Absent \/ wrote[j].value = Absent
        BY <2>1 DEF Fine, Safe
      <4> QED
        BY <1>4, <4>1
    <3>4. ReadSafe(proc[q])'
      <4> SUFFICES ASSUME proc[q].pc \in {"select", "legacy"}, proc[q].there, ~ proc[q].raced
                   PROVE  /\ db'[proc[q].key] # Absent \/ InFile(proc[q].key)
                          /\ wrote'[proc[q].key].value # Absent
                          /\ proc[q].pc = "legacy" => InFile(proc[q].key) /\ \A r \in Procs : ~ At(r, "rename")
        BY <1>3, <1>8, <3>1 DEF ReadSafe, Present
      <4>1. /\ Present(proc[q].key) /\ wrote[proc[q].key].value # Absent
            /\ proc[q].pc = "legacy" => InFile(proc[q].key) /\ \A r \in Procs : ~ At(r, "rename")
        BY <2>1 DEF Fine, ReadSafe
      <4>2. proc[q].key \in Keys /\ (proc[q].key = k => v # Absent)
        BY <2>1, <2>3, Kinds DEF At, ReadPcs, Reading
      <4> QED
        BY <1>4, <4>1, <4>2 DEF Present
    <3> QED
      BY <3>2, <3>3, <3>4 DEF Fine
  <2> QED
    BY <2>2, <2>3
<1> QED
  BY <1>5, <1>7, <1>9 DEF IInv

\* What a write of the stale surface to key k does to the file and to what
\* the store wrote.
LEMMA LegacyEffect ==
  ASSUME TypeOK, NEW k \in Keys, NEW v \in Values,
         file' = [(IF file = NoFile THEN [j \in Keys |-> Absent] ELSE file) EXCEPT ![k] = v],
         wrote' = [wrote EXCEPT ![k] = IF @.value = Absent THEN [value |-> Never, stands |-> FALSE] ELSE @]
  PROVE  /\ InFile(k)' /\ \A j \in Keys : j # k => (InFile(j)' <=> InFile(j)) /\ wrote'[j] = wrote[j]
         /\ wrote[k].value # Absent => wrote'[k] = wrote[k]
         /\ wrote[k].value = Absent => wrote'[k] = [value |-> Never, stands |-> FALSE]
<1>1. file' \in [Keys -> Row] /\ file' # NoFile /\ file'[k] = v /\ v # Absent
  BY StoreAssumption DEF TypeOK, Row
<1>2. \A j \in Keys : j # k => file'[j] = IF file = NoFile THEN Absent ELSE file[j]
  BY DEF TypeOK, Row
<1> QED
  BY <1>1, <1>2 DEF InFile, TypeOK

LEMMA LegacyStep ==
  ASSUME IInv, TypeOK', LegacyWrite
  PROVE  IInv'
<1>1. PICK k \in Keys, v \in Values :
        /\ file' = [(IF file = NoFile THEN [j \in Keys |-> Absent] ELSE file) EXCEPT ![k] = v]
        /\ wrote' = [wrote EXCEPT ![k] = IF @.value = Absent THEN [value |-> Never, stands |-> FALSE] ELSE @]
        /\ proc' = [q \in Procs |-> IF proc[q].pc \in {"migrate", "check", "lock", "rename", "write"} /\ proc[q].key = k
                                    THEN [proc[q] EXCEPT !.clean = FALSE] ELSE proc[q]]
        /\ UNCHANGED << db, stamped, lock >>
        /\ lock = Free
  BY DEF LegacyWrite
<1>2. /\ InFile(k)' /\ \A j \in Keys : j # k => (InFile(j)' <=> InFile(j)) /\ wrote'[j] = wrote[j]
      /\ wrote[k].value # Absent => wrote'[k] = wrote[k]
      /\ wrote[k].value = Absent => wrote'[k] = [value |-> Never, stands |-> FALSE]
  BY <1>1, LegacyEffect DEF IInv
<1>3. \A q \in Procs : ~ At(q, "rename")
  BY <1>1, StoreAssumption DEF IInv, TypeOK
<1>4. StoreWritesStand'
  <2> SUFFICES ASSUME NEW j \in Keys, wrote'[j].stands
               PROVE  db[j] = wrote'[j].value /\ (wrote'[j].value = Absent => ~ (db[j] # Absent \/ InFile(j)'))
    BY <1>1 DEF StoreWritesStand, Present
  <2>1. wrote'[j] = wrote[j] /\ (j = k => wrote[j].value # Absent)
    BY <1>2
  <2> QED
    BY <1>2, <2>1 DEF IInv, StoreWritesStand, Present
<1>5. ASSUME NEW q \in Procs PROVE Fine(proc[q])'
  <2>1. proc[q] \in Operations /\ Fine(proc[q])
    BY DEF IInv, TypeOK
  <2>2. CASE proc[q].pc \in WritePcs
    <3>1. proc[q] \in Writing /\ proc[q].pc # "rename"
      BY <1>3, <2>1, <2>2, Kinds DEF At
    <3>2. proc'[q].pc = proc[q].pc /\ proc'[q].key = proc[q].key /\ (proc'[q].clean => proc[q].clean /\ proc[q].key # k)
      BY <1>1, <3>1 DEF Writing, WritePcs
    <3>3. Clean(proc[q])'
      BY <1>2, <2>1, <3>1, <3>2 DEF Fine, Clean, Writing
    <3> QED
      BY <3>1, <3>2, <3>3 DEF Fine, Safe, ReadSafe, Missed, Writing, WritePcs
  <2>3. CASE proc[q].pc \notin WritePcs
    <3>1. proc'[q] = proc[q]
      BY <1>1, <2>3 DEF WritePcs
    <3>2. Clean(proc[q])' /\ Safe(proc[q])' /\ Missed(proc[q])'
      BY <2>1, <2>3, <3>1 DEF Fine, Clean, Safe, Missed, WritePcs
    <3>3. ReadSafe(proc[q])'
      <4> SUFFICES ASSUME proc[q].pc \in {"select", "legacy"}, proc[q].there, ~ proc[q].raced
                   PROVE  /\ db[proc[q].key] # Absent \/ InFile(proc[q].key)'
                          /\ wrote'[proc[q].key].value # Absent
                          /\ proc[q].pc = "legacy" => InFile(proc[q].key)' /\ \A r \in Procs : ~ At(r, "rename")'
        BY <1>1, <3>1 DEF ReadSafe, Present
      <4>1. /\ Present(proc[q].key) /\ wrote[proc[q].key].value # Absent
            /\ proc[q].pc = "legacy" => InFile(proc[q].key)
        BY <2>1 DEF Fine, ReadSafe
      <4>2. proc[q].key \in Keys
        BY <2>1, Kinds DEF ReadPcs, Reading
      <4>3. \A r \in Procs : ~ At(r, "rename")'
        BY <1>1, StoreAssumption DEF TypeOK
      <4> QED
        BY <1>2, <3>1, <4>1, <4>2, <4>3 DEF Present
    <3> QED
      BY <3>2, <3>3 DEF Fine
  <2> QED
    BY <2>2, <2>3
<1> QED
  BY <1>4, <1>5 DEF IInv

LEMMA InvariantStep == IInv /\ [Next]_vars => IInv'
<1> SUFFICES ASSUME IInv, [Next]_vars PROVE IInv'
  OBVIOUS
<1>1. TypeOK'
  BY TypeStep DEF IInv
<1>2. CASE UNCHANGED vars
  BY <1>2 DEF vars, IInv, TypeOK, StoreWritesStand, Present, InFile, Fine, Clean, Safe, ReadSafe, Missed, At
<1>3. CASE LegacyWrite
  BY <1>1, <1>3, LegacyStep
<1>4. ASSUME NEW p \in Procs, Import(p) PROVE IInv'
  BY <1>1, <1>4, ImportStep
<1>5. ASSUME NEW p \in Procs, Rename(p) PROVE IInv'
  BY <1>1, <1>5, RenameStep
<1>6. ASSUME NEW p \in Procs, Write(p) PROVE IInv'
  BY <1>1, <1>6, WriteStep
<1>7. ASSUME NEW p \in Procs,
             \/ Open(p) \/ KvGet(p) \/ KvWrite(p) \/ Look(p) \/ Check(p) \/ NothingLeft(p)
             \/ SelectRow(p) \/ LegacyRead(p) \/ Crash(p)
      PROVE  IInv'
  BY <1>1, <1>7, Quiet
<1> QED
  BY <1>2, <1>3, <1>4, <1>5, <1>6, <1>7 DEF Next

LEMMA Invariant == Spec => []IInv
  BY InvariantInit, InvariantStep, PTL DEF Spec
-----------------------------------------------------------------------------
(***************************************************************************)
(* The theorems.                                                           *)
(***************************************************************************)

\* The state keeps its shape, and a lock held is held by the process that is
\* about to rename the file, whoever crashes.
THEOREM StoreTypeCorrect == Spec => []TypeOK
  BY Invariant, PTL DEF IInv

\* No import overwrites what the store wrote or brings back what it deleted,
\* for any number of processes, keys, crashes and stale writes.
THEOREM WritesStand == Spec => []StoreWritesStand
  BY Invariant, PTL DEF IInv

\* A read misses a key that is there all the time only across an import.
THEOREM MissesAreRaces == Spec => []MissedOnlyInMigration
<1>1. IInv => MissedOnlyInMigration
  BY DEF IInv, Fine, Missed, MissedOnlyInMigration, At
<1> QED
  BY <1>1, Invariant, PTL

\* Only a write of the store takes a key away.
LEMMA KeysStep == IInv /\ [Next]_vars => [\A k \in Keys : (Present(k) /\ ~ Present(k)') => wrote'[k].value = Absent]_vars
<1> SUFFICES ASSUME IInv, Next, NEW k \in Keys, Present(k), ~ Present(k)'
             PROVE  wrote'[k].value = Absent
  BY DEF vars
<1>1. ASSUME UNCHANGED << db, file >> PROVE FALSE
  BY <1>1 DEF Present, InFile
<1>2. ASSUME NEW p \in Procs, Import(p) PROVE FALSE
  BY <1>2 DEF Import, Imported, Present, InFile
<1>3. ASSUME NEW p \in Procs, Rename(p) PROVE wrote'[k].value = Absent
  <2>1. Safe(proc[p]) /\ At(p, "rename") /\ db' = db /\ wrote' = wrote
    BY <1>3 DEF IInv, Fine, Rename
  <2> QED
    BY <2>1 DEF Safe, At, Present
<1>4. ASSUME NEW p \in Procs, Write(p) PROVE wrote'[k].value = Absent
  BY <1>4 DEF Write, Present, InFile, IInv, TypeOK
<1>5. ASSUME LegacyWrite PROVE FALSE
  <2>1. PICK j \in Keys, v \in Values :
          /\ file' = [(IF file = NoFile THEN [i \in Keys |-> Absent] ELSE file) EXCEPT ![j] = v]
          /\ wrote' = [wrote EXCEPT ![j] = IF @.value = Absent THEN [value |-> Never, stands |-> FALSE] ELSE @]
          /\ db' = db
    BY <1>5 DEF LegacyWrite
  <2>2. InFile(k) => InFile(k)'
    BY <2>1, LegacyEffect DEF IInv
  <2> QED
    BY <2>1, <2>2 DEF Present
<1> QED
  BY <1>1, <1>2, <1>3, <1>4, <1>5 DEF Next, Open, KvGet, KvWrite, Look, Check, NothingLeft, SelectRow, LegacyRead, Crash

\* No key disappears, from the table or with the file, unless the store
\* deletes it.
THEOREM KeysAreKept == Spec => KeysSurvive
  BY Invariant, KeysStep, PTL DEF Spec, KeysSurvive
-----------------------------------------------------------------------------
(***************************************************************************)
(* The message bus: its invariant.                                         *)
(***************************************************************************)

\* The message was sent after all that the session was handed.
Unseen(s, m) == \A i \in DOMAIN handed[s] : handed[s][i] < m.serial

\* The table is finite, an id names a message, and ids are in order of time.
\* Ids of this database were given out since, so they are as few as serials;
\* a usable cursor can only be lost with every message.
Rows ==
  /\ IsFiniteSet(messages)
  /\ \A m, n \in messages : /\ m.id = n.id => m = n
                            /\ m.id < n.id => m.ts <= n.ts
  /\ nextId <= sent + 1
  /\ ~ replaced => \A s \in Readers : cursors[s] # None =>
       cursors[s].id < nextId /\ (HasCursor(s) \/ messages = {})
  /\ \A m \in messages : \A s \in m.live : HasCursor(s)

\* What a session has yet to be handed was sent after what it was handed: all
\* that is above a usable cursor, or recent without one, and always what is
\* younger than the last look.
Ahead(s) ==
  /\ cursors[s] # None => \A m \in messages : m.ts > cursors[s].ts => Unseen(s, m)
  /\ cursors[s] = None => \A m \in messages : m.ts >= Cutoff => Unseen(s, m)
  /\ cursors[s] # None /\ ~ HasCursor(s) => \A m \in messages : Unseen(s, m)
  /\ HasCursor(s) => \A m \in messages : m.id > cursors[s].id =>
       Unseen(s, m) /\ m.ts >= cursors[s].start.cutoff

BusInv == BusTypeOK /\ Rows /\ OnceInOrder /\ (\A s \in Readers : Ahead(s)) /\ NothingIsSkipped
-----------------------------------------------------------------------------
(***************************************************************************)
(* Rows in the order of their ids.                                         *)
(***************************************************************************)

\* What the ids of a set of rows have to be for ORDER BY id.
Keyed(rows) == /\ IsFiniteSet(rows)
               /\ \A m, n \in rows : m.id \in Nat /\ (m.id = n.id => m = n)

\* A row's rank is a place in the order, and higher ids have higher ranks.
LEMMA RankGrows ==
  ASSUME NEW rows, Keyed(rows), NEW m \in rows, NEW n \in rows
  PROVE  /\ Rank(rows, m) \in 1 .. Cardinality(rows)
         /\ m.id < n.id => Rank(rows, m) < Rank(rows, n)
<1> DEFINE below(x) == {y \in rows : y.id <= x.id}
<1>1. \A x \in rows : IsFiniteSet(below(x)) /\ Cardinality(below(x)) \in Nat
                      /\ Cardinality(below(x)) <= Cardinality(rows)
  <2> SUFFICES ASSUME NEW x \in rows
               PROVE  /\ IsFiniteSet(below(x)) /\ Cardinality(below(x)) \in Nat
                      /\ Cardinality(below(x)) <= Cardinality(rows)
    OBVIOUS
  <2>1. below(x) \in SUBSET rows
    OBVIOUS
  <2> HIDE DEF below
  <2> QED
    BY <2>1, FS_Subset, FS_CardinalityType DEF Keyed
<1>2. m \in below(m) /\ n \in below(n)
  BY DEF Keyed
<1>3. Cardinality(below(m)) # 0
  <2> HIDE DEF below
  <2> QED
    BY <1>1, <1>2, FS_EmptySet
<1>4. ASSUME m.id < n.id PROVE Cardinality(below(m)) < Cardinality(below(n))
  <2>1. below(m) \in SUBSET below(n) /\ n \notin below(m)
    BY <1>4 DEF Keyed
  <2> HIDE DEF below
  <2>2. Cardinality(below(m)) <= Cardinality(below(n)) /\ Cardinality(below(m)) # Cardinality(below(n))
    BY <1>1, <1>2, <2>1, FS_Subset
  <2> QED
    BY <1>1, <2>2
<1>5. Cardinality(rows) \in Nat
  BY FS_CardinalityType DEF Keyed
<1>6. Rank(rows, m) = Cardinality(below(m)) /\ Rank(rows, n) = Cardinality(below(n))
  BY DEF Rank
<1> HIDE DEF below
<1> QED
  BY <1>1, <1>3, <1>4, <1>5, <1>6

\* Each place in the order is taken.
LEMMA EveryRankTaken ==
  ASSUME NEW rows, Keyed(rows), NEW i \in 1 .. Cardinality(rows)
  PROVE  \E m \in rows : Rank(rows, m) = i
<1> DEFINE N == Cardinality(rows)
           f == [m \in rows |-> Rank(rows, m)]
<1>1. N \in Nat /\ IsFiniteSet(rows)
  BY FS_CardinalityType DEF Keyed
<1>2. IsFiniteSet(1 .. N) /\ Cardinality(1 .. N) = N
  BY <1>1, FS_Interval
<1>3. f \in Injection(rows, 1 .. N)
  <2>1. f \in [rows -> 1 .. N]
    BY RankGrows
  <2>2. \A m, n \in rows : f[m] = f[n] => m = n
    <3> SUFFICES ASSUME NEW m \in rows, NEW n \in rows, m # n PROVE Rank(rows, m) # Rank(rows, n)
      OBVIOUS
    <3>1. m.id < n.id \/ n.id < m.id
      BY DEF Keyed
    <3>2. /\ Rank(rows, m) \in 1 .. N /\ Rank(rows, n) \in 1 .. N
          /\ m.id < n.id => Rank(rows, m) < Rank(rows, n)
          /\ n.id < m.id => Rank(rows, n) < Rank(rows, m)
      BY RankGrows
    <3> QED
      BY <1>1, <3>1, <3>2
  <2> QED
    BY <2>1, <2>2 DEF Injection, IsInjective
<1> HIDE DEF f
<1>4. f \in Surjection(rows, 1 .. N)
  BY <1>1, <1>2, <1>3, FS_Injection
<1>5. \E m \in rows : f[m] = i
  BY <1>4 DEF Surjection
<1> QED
  BY <1>5 DEF f

\* InOrder lists the rows, each once and by increasing id.
LEMMA OrderedRows ==
  ASSUME NEW rows, Keyed(rows)
  PROVE  /\ InOrder(rows) \in Seq(rows) /\ Len(InOrder(rows)) = Cardinality(rows)
         /\ Cardinality(rows) \in Nat
         /\ DOMAIN InOrder(rows) = 1 .. Cardinality(rows)
         /\ \A i, j \in 1 .. Cardinality(rows) : i < j => InOrder(rows)[i].id < InOrder(rows)[j].id
         /\ \A m \in rows : \E i \in 1 .. Cardinality(rows) : InOrder(rows)[i] = m
<1> DEFINE N == Cardinality(rows)
           q == InOrder(rows)
<1>1. N \in Nat
  BY FS_CardinalityType DEF Keyed
<1>2. \A i \in 1 .. N : q[i] \in rows /\ Rank(rows, q[i]) = i
  <2> TAKE i \in 1 .. N
  <2>1. \E m \in rows : Rank(rows, m) = i
    BY EveryRankTaken
  <2>2. q[i] = CHOOSE m \in rows : Rank(rows, m) = i
    BY DEF InOrder
  <2> QED
    BY <2>1, <2>2
<1>3. q \in Seq(rows) /\ Len(q) = N /\ DOMAIN q = 1 .. N
  <2>1. q = [i \in 1 .. N |-> q[i]]
    BY DEF InOrder
  <2> HIDE DEF q
  <2>2. [i \in 1 .. N |-> q[i]] \in Seq(rows)
    BY <1>1, <1>2, IsASeq
  <2> QED
    BY <1>1, <2>1, <2>2
<1>4. ASSUME NEW i \in 1 .. N, NEW j \in 1 .. N, i < j PROVE q[i].id < q[j].id
  <2>1. q[i] \in rows /\ q[j] \in rows /\ Rank(rows, q[i]) = i /\ Rank(rows, q[j]) = j
    BY <1>2
  <2> HIDE DEF q
  <2>2. ~ (q[j].id < q[i].id)
    <3>1. q[j].id < q[i].id => Rank(rows, q[j]) < Rank(rows, q[i])
      BY <2>1, RankGrows
    <3> QED
      BY <1>1, <1>4, <2>1, <3>1
  <2>3. q[i] # q[j]
    BY <1>4, <2>1, <1>1
  <2> QED
    BY <2>1, <2>2, <2>3 DEF Keyed
<1>5. ASSUME NEW m \in rows PROVE \E i \in 1 .. N : q[i] = m
  <2> DEFINE r == Rank(rows, m)
  <2>1. r \in 1 .. N
    BY RankGrows
  <2>2. q[r] \in rows /\ Rank(rows, q[r]) = r
    BY <1>2, <2>1
  <2> HIDE DEF q
  <2>3. /\ q[r].id < m.id => Rank(rows, q[r]) < r
        /\ m.id < q[r].id => r < Rank(rows, q[r])
    BY <2>2, RankGrows
  <2>4. q[r].id \in Nat /\ m.id \in Nat /\ (q[r].id = m.id => q[r] = m)
    BY <2>2 DEF Keyed
  <2>5. q[r] = m
    BY <1>1, <2>1, <2>2, <2>3, <2>4
  <2> QED
    BY <2>1, <2>5
<1> QED
  BY <1>1, <1>3, <1>4, <1>5

\* TopId is the highest id, and 0 of an empty table.
LEMMA TopIdIsTop ==
  ASSUME NEW rows, Keyed(rows)
  PROVE  /\ TopId(rows) \in Nat
         /\ rows = {} => TopId(rows) = 0
         /\ rows # {} => \E m \in rows : m.id = TopId(rows)
         /\ \A m \in rows : m.id <= TopId(rows)
<1>1. CASE rows = {}
  BY <1>1 DEF TopId
<1>2. CASE rows # {}
  <2> DEFINE N == Cardinality(rows)
             top == InOrder(rows)[N]
             ids == {m.id : m \in rows}
  <2>1. N \in Nat \ {0} /\ IsFiniteSet(rows)
    BY <1>2, FS_CardinalityType, FS_EmptySet DEF Keyed
  <2>2. top \in rows
    BY <2>1, OrderedRows, ElementOfSeq
  <2>3. \A m \in rows : m.id <= top.id
    <3> TAKE m \in rows
    <3>1. PICK i \in 1 .. N : InOrder(rows)[i] = m
      BY OrderedRows
    <3>2. N \in 1 .. N /\ i \in 1 .. N /\ N \in Nat /\ i \in Nat
      BY <2>1
    <3>3. i < N => m.id < top.id
      BY <3>1, <3>2, OrderedRows
    <3>4. i = N \/ i < N
      BY <3>2
    <3>5. m.id \in Nat /\ top.id \in Nat
      BY <2>2 DEF Keyed
    <3> QED
      BY <3>1, <3>3, <3>4, <3>5
  <2> HIDE DEF top
  <2>4. top.id \in ids /\ \A x \in ids : top.id >= x
    BY <2>2, <2>3 DEF Keyed
  <2>5. Max(ids) \in ids /\ \A y \in ids : Max(ids) >= y
    <3> HIDE DEF ids
    <3> QED
      BY <2>4 DEF Max
  <2>6. TopId(rows) = Max(ids)
    BY <1>2 DEF TopId
  <2> HIDE DEF ids
  <2>7. TopId(rows) \in ids /\ \A y \in ids : y <= TopId(rows)
    <3>1. \A y \in ids : y \in Nat
      BY DEF ids, Keyed
    <3> QED
      BY <2>5, <2>6, <3>1
  <2> QED
    BY <1>2, <2>7 DEF ids, Keyed
<1> QED
  BY <1>1, <1>2
-----------------------------------------------------------------------------
(***************************************************************************)
(* What a session is handed.                                               *)
(***************************************************************************)

\* The invariant's facts in the form the proofs start from.
LEMMA BusFacts ==
  ASSUME BusInv
  PROVE  /\ now \in Nat /\ now <= MaxTime /\ sent \in Nat /\ sent <= MaxMessages
         /\ nextId \in Nat /\ nextId >= 1 /\ nextId <= sent + 1
         /\ Cutoff \in Int /\ Window \in Nat /\ Retention \in Nat /\ Window < Retention
         /\ MaxMessages \in Nat /\ MaxTime \in Nat
         /\ \A m \in messages :
              /\ m.id \in Nat /\ 1 <= m.id /\ m.id < nextId
              /\ m.ts \in Nat /\ m.ts <= now
              /\ m.serial \in Nat /\ 1 <= m.serial /\ m.serial <= sent
         /\ \A m, n \in messages : /\ m.id = n.id => m = n
                                   /\ m.id < n.id => m.ts <= n.ts
                                   /\ m.id < n.id <=> m.serial < n.serial
         /\ \A s \in Readers : handed[s] \in Seq(1 .. sent) /\ DOMAIN handed[s] = 1 .. Len(handed[s])
                               /\ Len(handed[s]) \in Nat
                               /\ \A i \in DOMAIN handed[s] : handed[s][i] \in 1 .. sent
         /\ Keyed(messages)
<1>1. \A m \in messages :
        /\ m.id \in Nat /\ 1 <= m.id /\ m.id < nextId
        /\ m.ts \in Nat /\ m.ts <= now
        /\ m.serial \in Nat /\ 1 <= m.serial /\ m.serial <= sent
  BY BusAssumption DEF BusInv, BusTypeOK
<1>2. \A m, n \in messages : /\ m.id = n.id => m = n
                             /\ m.id < n.id => m.ts <= n.ts
                             /\ m.id < n.id <=> m.serial < n.serial
  BY DEF BusInv, BusTypeOK, Rows
<1>3. Keyed(messages)
  BY <1>1, <1>2 DEF BusInv, Rows, Keyed
<1>4. ASSUME NEW s \in Readers
      PROVE  handed[s] \in Seq(1 .. sent) /\ DOMAIN handed[s] = 1 .. Len(handed[s])
             /\ Len(handed[s]) \in Nat /\ \A i \in DOMAIN handed[s] : handed[s][i] \in 1 .. sent
  <2>1. handed[s] \in Seq(1 .. sent)
    BY DEF BusInv, BusTypeOK
  <2> QED
    BY <2>1, LenProperties, ElementOfSeq
<1>5. /\ now \in Nat /\ now <= MaxTime /\ sent \in Nat /\ sent <= MaxMessages
      /\ nextId \in Nat /\ nextId >= 1 /\ nextId <= sent + 1
      /\ Window \in Nat /\ Retention \in Nat /\ Window < Retention
      /\ MaxMessages \in Nat /\ MaxTime \in Nat
  BY BusAssumption DEF BusInv, BusTypeOK, Rows
<1>6. Cutoff \in Int
  BY <1>5 DEF Cutoff
<1> QED
  BY <1>1, <1>2, <1>3, <1>4, <1>5, <1>6

\* Sets of rows of the table can be put in order.
LEMMA SomeRows ==
  ASSUME BusInv, NEW rows \in SUBSET messages
  PROVE  Keyed(rows)
<1>1. Keyed(messages)
  BY BusFacts
<1>2. IsFiniteSet(rows)
  BY <1>1, FS_Subset DEF Keyed
<1> QED
  BY <1>1, <1>2 DEF Keyed

\* A batch is a sequence of rows of the table by increasing id.
Batch(batch) ==
  /\ batch \in Seq(messages)
  /\ \A i, j \in 1 .. Len(batch) : i < j => batch[i].id < batch[j].id

\* The session's mail with the batch added, in order.
HandedMore(s, batch) ==
  /\ handed' \in [Readers -> Seq(1 .. sent)]
  /\ \A i, j \in DOMAIN handed'[s] : i < j => handed'[s][i] < handed'[s][j]
  /\ \A i \in DOMAIN handed'[s] : \/ \E j \in DOMAIN handed[s] : handed'[s][i] = handed[s][j]
                                  \/ \E j \in 1 .. Len(batch) : handed'[s][i] = batch[j].serial
  /\ ToSet(handed[s]) \subseteq ToSet(handed'[s])
  /\ \A j \in 1 .. Len(batch) : batch[j].serial \in ToSet(handed'[s])

\* Unseen messages that come by increasing id keep the session's mail in order.
LEMMA HandedGrows ==
  ASSUME BusInv, NEW s \in Readers, NEW batch, Batch(batch),
         \A i \in 1 .. Len(batch) : Unseen(s, batch[i]),
         handed' = [handed EXCEPT ![s] = handed[s] \o Serials(batch)]
  PROVE  HandedMore(s, batch)
<1> DEFINE h == handed[s]  b == Serials(batch)  t == handed'[s]
<1>1. /\ Len(batch) \in Nat /\ DOMAIN batch = 1 .. Len(batch)
      /\ \A i \in 1 .. Len(batch) : batch[i] \in messages
  BY LenProperties, ElementOfSeq DEF Batch
<1>2. \A i \in 1 .. Len(batch) : batch[i].serial \in 1 .. sent /\ batch[i].serial \in Nat
  BY <1>1, BusFacts
<1>3. /\ b \in Seq(1 .. sent) /\ Len(b) = Len(batch)
      /\ \A i \in 1 .. Len(batch) : b[i] = batch[i].serial
  <2>1. b = [i \in 1 .. Len(batch) |-> batch[i].serial]
    BY <1>1 DEF Serials
  <2> HIDE DEF b
  <2>2. [i \in 1 .. Len(batch) |-> batch[i].serial] \in Seq(1 .. sent)
    BY <1>1, <1>2, IsASeq
  <2> QED
    BY <1>1, <2>1, <2>2
<1>4. /\ h \in Seq(1 .. sent) /\ Len(h) \in Nat /\ DOMAIN h = 1 .. Len(h)
      /\ \A i \in 1 .. Len(h) : h[i] \in 1 .. sent
      /\ handed \in [Readers -> Seq(1 .. sent)] /\ sent \in Nat
  BY BusFacts DEF BusInv, BusTypeOK
<1>5. \A i, j \in 1 .. Len(h) : i < j => h[i] < h[j]
  BY <1>4 DEF BusInv, OnceInOrder
<1>6. \A i \in 1 .. Len(h), j \in 1 .. Len(batch) : h[i] < b[j]
  BY <1>3, <1>4 DEF Unseen
<1>7. \A i, j \in 1 .. Len(batch) : i < j => b[i] < b[j]
  BY <1>1, <1>3, BusFacts DEF Batch
<1>8. handed' = [handed EXCEPT ![s] = h \o b]
  OBVIOUS
<1> HIDE DEF h, b
<1>9. /\ h \o b \in Seq(1 .. sent) /\ Len(h \o b) = Len(h) + Len(batch)
      /\ \A i \in 1 .. Len(h) + Len(batch) : (h \o b)[i] = IF i <= Len(h) THEN h[i] ELSE b[i - Len(h)]
  <2>1. /\ h \o b \in Seq(1 .. sent) /\ Len(h \o b) = Len(h) + Len(b)
        /\ \A i \in 1 .. Len(h) + Len(b) : (h \o b)[i] = IF i <= Len(h) THEN h[i] ELSE b[i - Len(h)]
    BY <1>3, <1>4, ConcatProperties
  <2> QED
    BY <1>3, <2>1
<1>10. /\ t \in Seq(1 .. sent) /\ t = h \o b /\ handed' \in [Readers -> Seq(1 .. sent)]
  BY <1>4, <1>8, <1>9
<1> HIDE DEF t
<1>11. DOMAIN t = 1 .. (Len(h) + Len(batch))
  BY <1>9, <1>10, LenProperties
<1>12. \A i \in 1 .. Len(h) : i \in DOMAIN t /\ t[i] = h[i]
  BY <1>1, <1>4, <1>9, <1>10, <1>11
<1>13. ASSUME NEW i \in 1 .. Len(batch) PROVE Len(h) + i \in DOMAIN t /\ t[Len(h) + i] = b[i]
  <2>1. /\ Len(h) + i \in 1 .. Len(h) + Len(batch) /\ ~ (Len(h) + i <= Len(h))
        /\ (Len(h) + i) - Len(h) = i
    BY <1>1, <1>4
  <2> QED
    BY <1>9, <1>10, <1>11, <2>1
<1>14. ASSUME NEW i \in DOMAIN t
       PROVE  i \in 1 .. Len(h) \/ \E j \in 1 .. Len(batch) : i = Len(h) + j
  <2>1. CASE i <= Len(h)
    BY <1>1, <1>4, <1>11, <2>1
  <2>2. CASE ~ (i <= Len(h))
    <3>1. i - Len(h) \in 1 .. Len(batch) /\ i = Len(h) + (i - Len(h))
      BY <1>1, <1>4, <1>11, <2>2
    <3> QED
      BY <3>1
  <2> QED
    BY <2>1, <2>2
<1>15. ASSUME NEW i \in DOMAIN t, NEW j \in DOMAIN t, i < j PROVE t[i] < t[j]
  <2>1. CASE i \in 1 .. Len(h) /\ j \in 1 .. Len(h)
    BY <1>5, <1>12, <1>15, <2>1
  <2>2. ASSUME i \in 1 .. Len(h), NEW l \in 1 .. Len(batch), j = Len(h) + l PROVE t[i] < t[j]
    BY <1>6, <1>12, <1>13, <2>2
  <2>3. ASSUME NEW k \in 1 .. Len(batch), i = Len(h) + k, NEW l \in 1 .. Len(batch), j = Len(h) + l
        PROVE  t[i] < t[j]
    <3>1. k < l
      BY <1>1, <1>4, <1>15, <2>3
    <3> QED
      BY <1>7, <1>13, <2>3, <3>1
  <2>4. ASSUME NEW k \in 1 .. Len(batch), i = Len(h) + k PROVE ~ (j \in 1 .. Len(h))
    BY <1>1, <1>4, <1>15, <2>4
  <2> QED
    BY <1>14, <2>1, <2>2, <2>3, <2>4
<1>16. \A i \in DOMAIN t : \/ \E j \in DOMAIN h : t[i] = h[j]
                           \/ \E j \in 1 .. Len(batch) : t[i] = batch[j].serial
  BY <1>3, <1>4, <1>12, <1>13, <1>14
<1>17. ToSet(h) \subseteq ToSet(t)
  BY <1>4, <1>12 DEF ToSet
<1>18. \A j \in 1 .. Len(batch) : batch[j].serial \in ToSet(t)
  BY <1>3, <1>13 DEF ToSet
<1> QED
  BY <1>10, <1>15, <1>16, <1>17, <1>18 DEF h, t, HandedMore
-----------------------------------------------------------------------------
(***************************************************************************)
(* A read.                                                                 *)
(***************************************************************************)

\* Nothing that a session's part of the invariant speaks of has changed.
LEMMA AheadSame ==
  ASSUME NEW s \in Readers, Ahead(s), UNCHANGED << messages, now, replaced >>,
         cursors'[s] = cursors[s], handed'[s] = handed[s]
  PROVE  Ahead(s)' /\ (HasCursor(s)' <=> HasCursor(s)) /\ \A m : Due(s, m)' <=> Due(s, m)
<1>1. HasCursor(s)' <=> HasCursor(s)
  BY DEF HasCursor
<1>2. \A m : Unseen(s, m)' <=> Unseen(s, m)
  BY DEF Unseen
<1>3. Cutoff' = Cutoff
  BY DEF Cutoff
<1>4. Ahead(s)'
  BY <1>1, <1>2, <1>3 DEF Ahead
<1>5. \A m : Due(s, m)' <=> Due(s, m)
  BY DEF Due
<1> QED
  BY <1>1, <1>4, <1>5

\* A cursor that is written is there.
LEMMA CursorsAreNotNone ==
  ASSUME NEW id \in Nat, NEW ts \in Nat, NEW start \in [cutoff : Int, alone : BOOLEAN]
  PROVE  [id |-> id, ts |-> ts, start |-> start] # None
<1>1. [id |-> id, ts |-> ts, start |-> start] \in Cursors
  BY DEF Cursors
<1> QED
  BY <1>1, BusAssumption

\* A read that hands over unseen messages and moves the cursor past them and
\* past nothing else that is due.
LEMMA HandKeeps ==
  ASSUME BusInv, NEW s \in Readers, NEW batch, Batch(batch), NEW id \in Nat,
         NEW start \in [cutoff : -Window .. now, alone : BOOLEAN], Hand(s, batch, id, start),
         id <= TopId(messages),
         \A i \in 1 .. Len(batch) : Unseen(s, batch[i]) /\ batch[i].id <= id,
         \A m \in messages : m.id > id => Unseen(s, m) /\ m.ts >= start.cutoff,
         \A m \in ReadAddressed(s, ProjectOf[s]) :
           (m.id <= id /\ Due(s, m)' /\ m.serial \notin ToSet(handed'[s]))
             => m.session = None /\ \E n \in messages : n.id > m.id /\ n.session = s
  PROVE  BusInv'
<1>1. /\ handed' = [handed EXCEPT ![s] = @ \o Serials(batch)]
      /\ cursors' = [cursors EXCEPT ![s] = [id |-> id, ts |-> now, start |-> start]]
      /\ UNCHANGED << messages, nextId, now, sent, replaced >>
  BY DEF Hand
<1>2. HandedMore(s, batch)
  <2>1. \A i \in 1 .. Len(batch) : Unseen(s, batch[i])
    OBVIOUS
  <2>2. handed' = [handed EXCEPT ![s] = handed[s] \o Serials(batch)]
    BY <1>1
  <2> QED
    BY <2>1, <2>2, HandedGrows
<1>3. /\ Len(batch) \in Nat /\ \A i \in 1 .. Len(batch) : batch[i] \in messages
  BY LenProperties, ElementOfSeq DEF Batch
<1>4. id \in 0 .. MaxMessages /\ (messages # {} \/ id = 0) /\ (id < nextId)
  <2>1. /\ TopId(messages) \in Nat
        /\ messages = {} => TopId(messages) = 0
        /\ messages # {} => \E m \in messages : m.id = TopId(messages)
    BY BusFacts, TopIdIsTop
  <2> QED
    BY <2>1, BusFacts
<1>5. \A r \in Readers : r # s => cursors'[r] = cursors[r] /\ handed'[r] = handed[r]
  BY <1>1 DEF BusInv, BusTypeOK
<1>6. cursors'[s] = [id |-> id, ts |-> now, start |-> start]
  BY <1>1 DEF BusInv, BusTypeOK
<1>7. cursors'[s] # None
  BY <1>6, CursorsAreNotNone, BusFacts
<1>8. HasCursor(s)'
  BY <1>1, <1>6, <1>7 DEF HasCursor
<1>9. BusTypeOK'
  <2>1. cursors'[s] \in [id : 0 .. MaxMessages, ts : 0 .. now, start : [cutoff : -Window .. now, alone : BOOLEAN]]
    BY <1>4, <1>6, BusFacts
  <2>2. cursors' \in [Readers -> {None} \union [id : 0 .. MaxMessages, ts : 0 .. now,
                                                start : [cutoff : -Window .. now, alone : BOOLEAN]]]
    BY <1>1, <1>6, <2>1 DEF BusInv, BusTypeOK
  <2> QED
    BY <1>1, <1>2, <2>2 DEF BusInv, BusTypeOK, Projects, HandedMore
<1>10. \A r \in Readers : HasCursor(r) => HasCursor(r)'
  BY <1>1, <1>5, <1>8 DEF HasCursor
<1>11. Rows'
  <2>1. \A r \in Readers : cursors'[r] # None /\ ~ replaced =>
          cursors'[r].id < nextId /\ (HasCursor(r)' \/ messages = {})
    BY <1>4, <1>5, <1>6, <1>8, <1>10 DEF BusInv, Rows
  <2>2. \A m \in messages : \A r \in m.live : HasCursor(r)'
    <3>1. \A m \in messages : m.live \subseteq Readers
      BY DEF BusInv, BusTypeOK
    <3> QED
      BY <1>10, <3>1 DEF BusInv, Rows
  <2> QED
    BY <1>1, <2>1, <2>2 DEF BusInv, Rows
<1>12. OnceInOrder'
  BY <1>2, <1>5 DEF BusInv, OnceInOrder, HandedMore
<1>13. \A r \in Readers : r # s => Ahead(r)'
  BY <1>1, <1>5, AheadSame DEF BusInv
<1>14. Ahead(s)'
  <2>1. \A m \in messages : m.id > id => Unseen(s, m)' /\ m.ts >= start.cutoff
    <3> SUFFICES ASSUME NEW m \in messages, m.id > id PROVE Unseen(s, m)'
      OBVIOUS
    <3>1. Unseen(s, m)
      OBVIOUS
    <3>2. ASSUME NEW i \in 1 .. Len(batch) PROVE batch[i].serial < m.serial
      <4>1. batch[i] \in messages /\ batch[i].id <= id
        BY <1>3
      <4>2. batch[i].id \in Nat /\ m.id \in Nat
        BY <4>1, BusFacts
      <4>3. batch[i].id < m.id
        BY <4>1, <4>2
      <4> QED
        BY <4>1, <4>3, BusFacts
    <3> QED
      BY <1>2, <3>1, <3>2 DEF Unseen, HandedMore
  <2>2. ~ \E m \in messages : m.ts > now
    BY BusFacts
  <2> QED
    BY <1>1, <1>6, <1>7, <1>8, <2>1, <2>2 DEF Ahead
<1>15. NothingIsSkipped'
  <2>1. \A r \in Readers : ReadAddressed(r, ProjectOf[r])' = ReadAddressed(r, ProjectOf[r])
    BY <1>1 DEF ReadAddressed
  <2>2. ASSUME NEW r \in Readers, NEW m \in ReadAddressed(r, ProjectOf[r]),
               HasCursor(r)', m.id <= cursors'[r].id, Due(r, m)', m.serial \notin ToSet(handed'[r])
        PROVE  m.session = None /\ \E n \in messages : n.id > m.id /\ n.session = r
    <3>1. CASE r = s
      BY <1>6, <2>2, <3>1
    <3>2. CASE r # s
      <4>1. (HasCursor(r)' <=> HasCursor(r)) /\ (Due(r, m)' <=> Due(r, m))
        BY <1>1, <1>5, <3>2, AheadSame DEF BusInv
      <4> QED
        BY <1>5, <2>2, <3>2, <4>1 DEF BusInv, NothingIsSkipped
    <3> QED
      BY <3>1, <3>2
  <2> QED
    BY <1>1, <2>1, <2>2 DEF NothingIsSkipped
<1> QED
  BY <1>9, <1>11, <1>12, <1>13, <1>14, <1>15 DEF BusInv


\* What the session is handed in a step is as young as the start of its cursor.
Gated ==
  \A s \in Readers : \A m \in messages :
    (m.serial \in ToSet(handed'[s]) \ ToSet(handed[s])) => m.ts >= cursors'[s].start.cutoff

\* A read that hands over nothing older than the start it leaves is gated.
LEMMA HandIsGated ==
  ASSUME BusInv, NEW s \in Readers, NEW batch, Batch(batch), NEW id \in Nat,
         NEW start \in [cutoff : -Window .. now, alone : BOOLEAN], Hand(s, batch, id, start),
         \A i \in 1 .. Len(batch) : Unseen(s, batch[i]) /\ batch[i].ts >= start.cutoff
  PROVE  Gated
<1>1. HandedMore(s, batch)
  <2>1. \A i \in 1 .. Len(batch) : Unseen(s, batch[i])
    OBVIOUS
  <2>2. handed' = [handed EXCEPT ![s] = handed[s] \o Serials(batch)]
    BY DEF Hand
  <2> QED
    BY <2>1, <2>2, HandedGrows
<1>2. cursors'[s].start = start
  BY DEF Hand, BusInv, BusTypeOK
<1>3. \A i \in 1 .. Len(batch) : batch[i] \in messages
  BY LenProperties, ElementOfSeq DEF Batch
<1>4. ASSUME NEW m \in messages, m.serial \in ToSet(handed'[s]), m.serial \notin ToSet(handed[s])
      PROVE  m.ts >= start.cutoff
  <2>1. PICK j \in 1 .. Len(batch) : m.serial = batch[j].serial
    <3>1. PICK i \in DOMAIN handed'[s] : handed'[s][i] = m.serial
      BY <1>4 DEF ToSet
    <3>2. ~ \E j \in DOMAIN handed[s] : handed[s][j] = m.serial
      BY <1>4 DEF ToSet
    <3> QED
      BY <1>1, <3>1, <3>2 DEF HandedMore
  <2>2. batch[j] \in messages
    BY <1>3
  <2>3. m.id = batch[j].id
    <3>1. ~ (m.serial < batch[j].serial) /\ ~ (batch[j].serial < m.serial)
      <4>1. m.serial \in Nat
        BY BusFacts
      <4> QED
        BY <2>1, <4>1
    <3>2. ~ (m.id < batch[j].id) /\ ~ (batch[j].id < m.id)
      BY <2>2, <3>1, BusFacts
    <3>3. m.id \in Nat /\ batch[j].id \in Nat
      BY <2>2, BusFacts
    <3> QED
      BY <3>2, <3>3
  <2>4. m = batch[j]
    BY <2>2, <2>3, BusFacts
  <2> QED
    BY <2>4
<1>5. \A r \in Readers : r # s => handed'[r] = handed[r]
  BY DEF Hand, BusInv, BusTypeOK
<1> QED
  BY <1>2, <1>4, <1>5 DEF Gated

\* The first messages of an ordered set of rows.
LEMMA FirstRows ==
  ASSUME BusInv, NEW rows \in SUBSET messages, NEW k \in 0 .. Cardinality(rows)
  PROVE  /\ Batch(SubSeq(InOrder(rows), 1, k))
         /\ \A i \in 1 .. Len(SubSeq(InOrder(rows), 1, k)) : SubSeq(InOrder(rows), 1, k)[i] \in rows
<1> DEFINE q == InOrder(rows)  N == Cardinality(rows)  b == SubSeq(q, 1, k)
<1>1. /\ q \in Seq(rows) /\ Len(q) = N /\ N \in Nat
      /\ \A i, j \in 1 .. N : i < j => q[i].id < q[j].id
  BY SomeRows, OrderedRows
<1> HIDE DEF q
<1>2. \A i \in 1 .. N : q[i] \in rows
  BY <1>1, ElementOfSeq
<1>3. k \in Nat /\ k <= N
  BY <1>1
<1> HIDE DEF N
<1>4. /\ b \in Seq(rows) /\ Len(b) = k /\ \A i \in 1 .. k : b[i] = q[i]
  <2>1. \A i \in 1 .. k : q[i] \in rows
    BY <1>1, <1>2, <1>3
  <2>2. /\ b \in Seq(rows)
        /\ Len(b) = IF 1 <= k THEN k - 1 + 1 ELSE 0
        /\ \A i \in 1 .. k - 1 + 1 : b[i] = q[1 + i - 1]
    BY <1>3, <2>1, SubSeqProperties
  <2>3. k - 1 + 1 = k /\ \A i \in 1 .. k : 1 + i - 1 = i
    BY <1>3
  <2> HIDE DEF b
  <2> QED
    BY <1>3, <2>2, <2>3
<1> HIDE DEF b
<1>5. \A i \in 1 .. k : i \in 1 .. N
  BY <1>1, <1>3
<1>6. \A i, j \in 1 .. k : i < j => b[i].id < b[j].id
  BY <1>1, <1>4, <1>5
<1>7. \A i \in 1 .. k : b[i] \in rows
  BY <1>2, <1>4, <1>5
<1>8. Seq(rows) \subseteq Seq(messages)
  OBVIOUS
<1> QED
  BY <1>4, <1>6, <1>7, <1>8 DEF Batch, b, q

\* The first read of a session: what it skips is old, or a broadcast below
\* direct mail if the project is not known.
LEMMA FirstReadKeeps ==
  ASSUME BusInv, NEW s \in Readers, NEW project \in {ProjectOf[s], None}, FirstRead(s, project)
  PROVE  BusInv' /\ Gated
<1> DEFINE rows == {m \in ReadAddressed(s, project) : m.ts >= Cutoff}
           k == Min({StartCap, Len(InOrder(rows))})
           batch == SubSeq(InOrder(rows), 1, k)
           id == Landing(s, project)
           start == [cutoff |-> Cutoff, alone |-> project = None]
           direct == {m \in messages : m.session = s /\ m.sender # s /\ m.ts >= Cutoff}
           old == {m \in messages : m.ts < Cutoff}
<1>1. ~ HasCursor(s) /\ Hand(s, batch, id, start)
  BY DEF FirstRead
<1>2. rows \in SUBSET messages
  BY DEF ReadAddressed
<1>3. k \in 0 .. Cardinality(rows)
  <2>1. Len(InOrder(rows)) = Cardinality(rows) /\ Cardinality(rows) \in Nat
    BY <1>2, SomeRows, OrderedRows
  <2>2. StartCap \in Nat
    BY BusAssumption
  <2>3. \E x \in {StartCap, Cardinality(rows)} : \A y \in {StartCap, Cardinality(rows)} : x <= y
    BY <2>1, <2>2
  <2>4. k \in {StartCap, Cardinality(rows)} /\ k <= Cardinality(rows)
    BY <2>1, <2>2, <2>3 DEF Min
  <2> QED
    BY <2>1, <2>2, <2>4
<1> HIDE DEF k, rows
<1>4. Batch(batch) /\ \A i \in 1 .. Len(batch) : batch[i] \in rows
  BY <1>2, <1>3, FirstRows
<1> HIDE DEF batch
<1>5. \A m \in messages : m.ts >= Cutoff => Unseen(s, m)
  BY <1>1 DEF BusInv, Ahead
<1>6. \A m \in rows : m \in messages /\ Unseen(s, m) /\ m.ts >= Cutoff
  BY <1>2, <1>5 DEF rows
<1>7. /\ TopId(messages) \in Nat
      /\ \A m \in messages : m.id <= TopId(messages)
      /\ messages = {} => TopId(messages) = 0
  BY BusFacts, TopIdIsTop
<1>8. /\ direct \union old \in SUBSET messages
      /\ TopId(direct \union old) \in Nat
      /\ direct \union old = {} => TopId(direct \union old) = 0
      /\ direct \union old # {} => \E m \in direct \union old : m.id = TopId(direct \union old)
      /\ \A m \in direct \union old : m.id <= TopId(direct \union old)
  <2> DEFINE seen == direct \union old
  <2>1. seen \in SUBSET messages
    OBVIOUS
  <2> HIDE DEF direct, old
  <2>2. Keyed(seen)
    BY <2>1, SomeRows
  <2> QED
    BY <2>1, <2>2, TopIdIsTop
<1>9. id = IF project # None THEN TopId(messages) ELSE TopId(direct \union old)
  BY DEF Landing
<1> HIDE DEF id
<1>10. id \in Nat /\ id <= TopId(messages)
  <2>1. TopId(direct \union old) <= TopId(messages)
    BY <1>7, <1>8
  <2> QED
    BY <1>7, <1>8, <1>9, <2>1
<1>11. ASSUME NEW m \in rows PROVE m.id <= id
  <2>1. CASE project # None
    BY <1>6, <1>7, <1>9, <2>1
  <2>2. CASE project = None
    <3>1. m \in direct
      BY <1>6, <2>2 DEF rows, ReadAddressed
    <3> QED
      BY <1>8, <1>9, <2>2, <3>1
  <2> QED
    BY <2>1, <2>2
<1>12. ASSUME NEW m \in messages, m.id > id PROVE Unseen(s, m) /\ m.ts >= Cutoff
  <2>1. project = None
    BY <1>7, <1>9, <1>12, BusFacts
  <2>2. m \notin old
    <3>1. m \in old => m.id <= id
      BY <1>8, <1>9, <2>1
    <3>2. m.id \in Nat
      BY BusFacts
    <3> QED
      BY <1>10, <1>12, <3>1, <3>2
  <2>3. m.ts >= Cutoff
    BY <2>2, BusFacts
  <2> QED
    BY <1>5, <2>3
<1>13. start \in [cutoff : -Window .. now, alone : BOOLEAN] /\ start.cutoff = Cutoff /\ start.alone = (project = None)
  BY BusFacts DEF Cutoff
<1>14. cursors'[s].start = start
  BY <1>1 DEF Hand, BusInv, BusTypeOK
<1> HIDE DEF start
<1>15. ASSUME NEW m \in ReadAddressed(s, ProjectOf[s]), m.id <= id, Due(s, m)'
       PROVE  m.session = None /\ \E n \in messages : n.id > m.id /\ n.session = s
  <2>1. m \in messages
    BY DEF ReadAddressed
  <2>2. s \notin m.live
    BY <1>1, <2>1 DEF BusInv, Rows
  <2>3. m.session = None /\ project = None /\ m.ts >= Cutoff
    BY <1>13, <1>14, <1>15, <2>2 DEF Due
  <2>4. PICK n \in direct \union old : n.id = id
    <3>1. m.id \in Nat /\ 1 <= m.id
      BY <2>1, BusFacts
    <3>2. id = TopId(direct \union old)
      BY <1>9, <2>3
    <3>3. id # 0
      BY <1>10, <1>15, <3>1
    <3> QED
      BY <1>8, <3>2, <3>3
  <2>5. n \in messages
    BY <2>4
  <2>6. n \notin old
    <3> SUFFICES ASSUME n.ts < Cutoff PROVE FALSE
      BY <2>4
    <3>1. n.id # m.id
      BY <2>1, <2>3, <2>5, BusFacts
    <3>2. m.id < n.id
      BY <1>15, <2>1, <2>4, <2>5, <3>1, BusFacts
    <3>3. m.ts <= n.ts
      BY <2>1, <2>5, <3>2, BusFacts
    <3> QED
      BY <2>1, <2>3, <2>5, <3>3, BusFacts
  <2>7. n.session = s
    BY <2>4, <2>6
  <2>8. s # None
    BY BusAssumption
  <2>9. n.id # m.id
    BY <2>1, <2>3, <2>5, <2>7, <2>8, BusFacts
  <2>10. n.id > m.id
    BY <1>15, <2>1, <2>4, <2>5, <2>9, BusFacts
  <2> QED
    BY <2>3, <2>5, <2>7, <2>10
<1>16. BusInv'
  BY <1>1, <1>4, <1>6, <1>10, <1>11, <1>12, <1>13, <1>15, HandKeeps
<1>17. Gated
  BY <1>1, <1>4, <1>6, <1>10, <1>13, HandIsGated
<1> QED
  BY <1>16, <1>17

\* A later read hands over all that is addressed to the session above its
\* cursor, up to the last of it.
LEMMA LaterReadKeeps ==
  ASSUME BusInv, NEW s \in Readers, NEW project \in {ProjectOf[s], None}, LaterRead(s, project)
  PROVE  BusInv' /\ Gated
<1> DEFINE rows == {m \in ReadAddressed(s, project) : m.id > cursors[s].id}
           batch == InOrder(rows)
           id == IF batch = << >> THEN cursors[s].id ELSE Last(batch).id
           start == cursors[s].start
           N == Cardinality(rows)
<1>1. HasCursor(s) /\ Hand(s, batch, id, start)
  BY DEF LaterRead
<1>2. rows \in SUBSET messages
  BY DEF ReadAddressed
<1>3. /\ batch \in Seq(rows) /\ Len(batch) = N /\ N \in Nat /\ DOMAIN batch = 1 .. N
      /\ \A i, j \in 1 .. N : i < j => batch[i].id < batch[j].id
      /\ \A m \in rows : \E i \in 1 .. N : batch[i] = m
  BY <1>2, SomeRows, OrderedRows
<1>4. /\ cursors[s].id \in Nat /\ start \in [cutoff : -Window .. now, alone : BOOLEAN]
      /\ cursors[s].id <= TopId(messages)
  <2>1. cursors[s] \in [id : 0 .. MaxMessages, ts : 0 .. now, start : [cutoff : -Window .. now, alone : BOOLEAN]]
    BY <1>1 DEF BusInv, BusTypeOK, HasCursor
  <2> QED
    BY <1>1, <2>1, BusFacts DEF HasCursor
<1>5. \A m \in messages : m.id > cursors[s].id => Unseen(s, m) /\ m.ts >= start.cutoff
  BY <1>1 DEF BusInv, Ahead
<1>6. \A m \in rows : m \in messages /\ m.id > cursors[s].id
  BY <1>2 DEF rows
<1> HIDE DEF batch, rows
<1>7. \A i \in 1 .. N : batch[i] \in rows
  BY <1>3, ElementOfSeq
<1>8. Batch(batch)
  <2>1. Seq(rows) \subseteq Seq(messages)
    BY <1>2
  <2> QED
    BY <1>3, <2>1 DEF Batch
<1>9. batch = << >> <=> N = 0
  BY <1>3, EmptySeq
<1>10. N # 0 => batch[N] \in rows /\ id = batch[N].id
  <2>1. N # 0 => N \in 1 .. N
    BY <1>3
  <2> QED
    BY <1>3, <1>7, <1>9, <2>1 DEF Last
<1>11. N = 0 => id = cursors[s].id
  BY <1>9
<1> HIDE DEF id, start
<1>12. /\ TopId(messages) \in Nat /\ \A m \in messages : m.id <= TopId(messages)
  BY BusFacts, TopIdIsTop
<1>13. id \in Nat /\ id <= TopId(messages) /\ id >= cursors[s].id
  <2>1. CASE N = 0
    BY <1>4, <1>11, <2>1
  <2>2. CASE N # 0
    <3>1. batch[N] \in messages /\ batch[N].id > cursors[s].id /\ batch[N].id \in Nat
      BY <1>6, <1>10, <2>2, BusFacts
    <3> QED
      BY <1>4, <1>10, <1>12, <2>2, <3>1
  <2> QED
    BY <2>1, <2>2
<1>14. ASSUME NEW i \in 1 .. N PROVE batch[i].id <= id /\ Unseen(s, batch[i]) /\ batch[i].ts >= start.cutoff
  <2>1. batch[i] \in messages /\ batch[i].id > cursors[s].id /\ batch[i].id \in Nat
    BY <1>6, <1>7, BusFacts
  <2>2. N # 0 /\ N \in 1 .. N /\ (i = N \/ i < N)
    BY <1>3
  <2>3. batch[i].id <= batch[N].id
    <3>1. i < N => batch[i].id < batch[N].id
      BY <1>3, <2>2
    <3>2. batch[N].id \in Nat
      BY <1>6, <1>7, <2>2, BusFacts
    <3> QED
      BY <2>1, <2>2, <3>1, <3>2
  <2> QED
    BY <1>5, <1>10, <2>1, <2>2, <2>3
<1>15. \A m \in messages : m.id > id => Unseen(s, m) /\ m.ts >= start.cutoff
  <2> SUFFICES ASSUME NEW m \in messages, m.id > id PROVE m.id > cursors[s].id
    BY <1>5
  <2>1. m.id \in Nat
    BY BusFacts
  <2> QED
    BY <1>4, <1>13, <2>1
<1>16. \A m \in rows : m.serial \in ToSet(handed'[s])
  <2>1. HandedMore(s, batch)
    <3>1. handed' = [handed EXCEPT ![s] = handed[s] \o Serials(batch)]
      BY <1>1 DEF Hand
    <3>2. \A i \in 1 .. Len(batch) : Unseen(s, batch[i])
      BY <1>3, <1>14
    <3> QED
      BY <1>8, <3>1, <3>2, HandedGrows
  <2> QED
    BY <1>3, <2>1 DEF HandedMore
<1>17. ToSet(handed[s]) \subseteq ToSet(handed'[s])
  <2>1. HandedMore(s, batch)
    <3>1. handed' = [handed EXCEPT ![s] = handed[s] \o Serials(batch)]
      BY <1>1 DEF Hand
    <3>2. \A i \in 1 .. Len(batch) : Unseen(s, batch[i])
      BY <1>3, <1>14
    <3> QED
      BY <1>8, <3>1, <3>2, HandedGrows
  <2> QED
    BY <2>1 DEF HandedMore
<1>18. cursors'[s].start = start /\ replaced' = replaced
  BY <1>1 DEF Hand, BusInv, BusTypeOK
<1>19. ASSUME NEW m \in ReadAddressed(s, ProjectOf[s]), m.id <= id, Due(s, m)', m.serial \notin ToSet(handed'[s])
       PROVE  m.session = None /\ \E n \in messages : n.id > m.id /\ n.session = s
  <2>1. m \in messages /\ m.id \in Nat
    BY BusFacts DEF ReadAddressed
  <2>2. Due(s, m)
    BY <1>18, <1>19 DEF Due, start
  <2>3. CASE m.id <= cursors[s].id
    BY <1>1, <1>17, <1>19, <2>2, <2>3 DEF BusInv, NothingIsSkipped
  <2>4. CASE m.id > cursors[s].id
    <3>1. m \notin rows
      BY <1>16, <1>19
    <3>2. project = None /\ m.session = None
      <4>1. m.sender # s /\ (m.session = s \/ (m.session = None /\ m.project \in {ProjectOf[s], None}))
        BY DEF ReadAddressed
      <4>2. ~ (m \in ReadAddressed(s, project))
        BY <2>4, <3>1 DEF rows
      <4>3. project # ProjectOf[s] \/ ProjectOf[s] = None
        BY <4>2
      <4> QED
        BY <2>1, <4>1, <4>2, <4>3 DEF ReadAddressed
    <3>3. N # 0
      BY <1>4, <1>11, <1>19, <2>1, <2>4
    <3>4. batch[N] \in messages /\ batch[N].session = s /\ batch[N].id = id
      BY <1>6, <1>10, <3>2, <3>3 DEF rows, ReadAddressed
    <3>5. s # None
      BY BusAssumption
    <3>6. batch[N].id # m.id
      BY <2>1, <3>2, <3>4, <3>5, BusFacts
    <3>7. batch[N].id > m.id
      BY <1>13, <1>19, <2>1, <3>4, <3>6
    <3> QED
      BY <3>2, <3>4, <3>7
  <2> QED
    BY <1>4, <2>1, <2>3, <2>4
<1>20. BusInv'
  BY <1>1, <1>3, <1>4, <1>8, <1>13, <1>14, <1>15, <1>19, HandKeeps
<1>21. Gated
  BY <1>1, <1>3, <1>4, <1>8, <1>13, <1>14, HandIsGated
<1> QED
  BY <1>20, <1>21
-----------------------------------------------------------------------------
(***************************************************************************)
(* The other transactions.                                                 *)
(***************************************************************************)

LEMMA BusInitInv == BusInit => BusInv
<1> SUFFICES ASSUME BusInit PROVE BusInv
  OBVIOUS
<1>1. BusTypeOK
  <2>1. MaxMessages \in Nat /\ MaxTime \in Nat
    BY BusAssumption
  <2>2. << >> \in Seq(1 .. sent)
    BY EmptySeq
  <2>3. handed \in [Readers -> Seq(1 .. sent)]
    BY <2>2 DEF BusInit
  <2>4. cursors \in [Readers -> {None}] /\ messages = {} /\ nextId = 1 /\ sent = 0 /\ now = 0 /\ replaced = FALSE
    BY DEF BusInit
  <2>5. nextId \in 1 .. MaxMessages + 1 /\ sent \in 0 .. MaxMessages /\ now \in 0 .. MaxTime /\ replaced \in BOOLEAN
    <3>1. 1 \in 1 .. MaxMessages + 1 /\ 0 \in 0 .. MaxMessages /\ 0 \in 0 .. MaxTime
      BY <2>1
    <3>2. FALSE \in BOOLEAN
      OBVIOUS
    <3> QED
      BY <2>4, <3>1, <3>2
  <2>6. cursors \in [Readers -> {None} \union [id : 0 .. MaxMessages, ts : 0 .. now,
                                              start : [cutoff : -Window .. now, alone : BOOLEAN]]]
    BY <2>4
  <2>7. /\ messages \subseteq
             [id : 1 .. nextId - 1, ts : 0 .. now, sender : Sessions, session : Sessions \union {None},
              project : Projects \union {None}, serial : 1 .. sent, live : SUBSET Readers]
        /\ \A m, n \in messages : m.id < n.id <=> m.serial < n.serial
        /\ \A m \in messages : m.session = None \/ m.project = None
    BY <2>4
  <2> QED
    BY <2>3, <2>5, <2>6, <2>7 DEF BusTypeOK
<1>2. Rows
  BY FS_EmptySet DEF BusInit, Rows
<1>3. OnceInOrder
  BY DEF BusInit, OnceInOrder
<1>4. \A s \in Readers : Ahead(s)
  BY DEF BusInit, Ahead, HasCursor
<1>5. NothingIsSkipped
  BY DEF BusInit, NothingIsSkipped, ReadAddressed
<1> QED
  BY <1>1, <1>2, <1>3, <1>4, <1>5 DEF BusInv

\* TopId in terms of the rows: a cursor is usable if it is 0 or some row is
\* at or above it.
LEMMA UsableCursor ==
  ASSUME NEW s \in Readers, NEW rows, Keyed(rows), NEW c \in Nat
  PROVE  c <= TopId(rows) <=> c = 0 \/ \E m \in rows : c <= m.id
<1>1. /\ TopId(rows) \in Nat
      /\ rows = {} => TopId(rows) = 0
      /\ rows # {} => \E m \in rows : m.id = TopId(rows)
      /\ \A m \in rows : m.id <= TopId(rows)
  BY TopIdIsTop
<1>2. \A m \in rows : m.id \in Nat
  BY DEF Keyed
<1> QED
  BY <1>1, <1>2

\* A new row is above every cursor and later than all that was handed over.
LEMMA SendKeeps == ASSUME BusInv, SendMessage PROVE BusInv'
<1>1. PICK sender \in Sessions, target \in Targets :
        /\ sent < MaxMessages
        /\ messages' = messages \union
             {[id |-> nextId, ts |-> now, sender |-> sender, session |-> Stored(target).session,
               project |-> Stored(target).project, serial |-> sent + 1, live |-> {s \in Readers : HasCursor(s)}]}
  BY DEF SendMessage
<1> DEFINE new == [id |-> nextId, ts |-> now, sender |-> sender, session |-> Stored(target).session,
                   project |-> Stored(target).project, serial |-> sent + 1, live |-> {s \in Readers : HasCursor(s)}]
<1>2. /\ messages' = messages \union {new} /\ nextId' = nextId + 1 /\ sent' = sent + 1
      /\ UNCHANGED << cursors, now, handed, replaced >>
  BY <1>1 DEF SendMessage
<1>3. /\ new.id = nextId /\ new.ts = now /\ new.serial = sent + 1
      /\ new.live = {s \in Readers : HasCursor(s)}
      /\ new.session \in Sessions \union {None} /\ new.project \in Projects \union {None}
      /\ new.session = None \/ new.project = None
      /\ new \in [id : {nextId}, ts : {now}, sender : Sessions, session : Sessions \union {None},
                  project : Projects \union {None}, serial : {sent + 1}, live : SUBSET Readers]
  BY DEF Stored, Targets
<1> HIDE DEF new
<1>4. \A m \in messages : m.id < new.id /\ m.serial < new.serial /\ m.ts <= new.ts
  BY <1>3, BusFacts
<1>5. new.id \in Nat /\ new.serial \in Nat /\ new.ts \in Nat
  BY <1>3, BusFacts
<1>6. \A m, n \in messages' : /\ m.id = n.id => m = n
                              /\ m.id < n.id => m.ts <= n.ts
                              /\ m.id < n.id <=> m.serial < n.serial
  <2> SUFFICES ASSUME NEW m \in messages', NEW n \in messages'
               PROVE  /\ m.id = n.id => m = n
                      /\ m.id < n.id => m.ts <= n.ts
                      /\ m.id < n.id <=> m.serial < n.serial
    OBVIOUS
  <2>1. CASE m \in messages /\ n \in messages
    BY <2>1, BusFacts
  <2>2. CASE m \in messages /\ n = new
    <3>1. m.id \in Nat /\ m.serial \in Nat /\ m.ts \in Nat
      BY <2>2, BusFacts
    <3> QED
      BY <1>4, <1>5, <2>2, <3>1
  <2>3. CASE m = new /\ n \in messages
    <3>1. n.id \in Nat /\ n.serial \in Nat /\ n.ts \in Nat
      BY <2>3, BusFacts
    <3> QED
      BY <1>4, <1>5, <2>3, <3>1
  <2>4. CASE m = new /\ n = new
    BY <1>5, <2>4
  <2> QED
    BY <1>2, <2>1, <2>2, <2>3, <2>4
<1>7. BusTypeOK'
  <2>1. nextId' \in 1 .. MaxMessages + 1 /\ sent' \in 0 .. MaxMessages
    BY <1>1, <1>2, BusFacts
  <2>2. messages' \subseteq
          [id : 1 .. nextId' - 1, ts : 0 .. now, sender : Sessions, session : Sessions \union {None},
           project : Projects \union {None}, serial : 1 .. sent', live : SUBSET Readers]
    <3>1. nextId \in 1 .. nextId' - 1 /\ now \in 0 .. now /\ sent + 1 \in 1 .. sent'
          /\ 1 .. nextId - 1 \subseteq 1 .. nextId' - 1 /\ 1 .. sent \subseteq 1 .. sent'
      BY <1>2, BusFacts
    <3>2. messages \subseteq
            [id : 1 .. nextId - 1, ts : 0 .. now, sender : Sessions, session : Sessions \union {None},
             project : Projects \union {None}, serial : 1 .. sent, live : SUBSET Readers]
      BY DEF BusInv, BusTypeOK
    <3>3. messages \subseteq
            [id : 1 .. nextId' - 1, ts : 0 .. now, sender : Sessions, session : Sessions \union {None},
             project : Projects \union {None}, serial : 1 .. sent', live : SUBSET Readers]
      BY <3>1, <3>2
    <3>4. new \in
            [id : 1 .. nextId' - 1, ts : 0 .. now, sender : Sessions, session : Sessions \union {None},
             project : Projects \union {None}, serial : 1 .. sent', live : SUBSET Readers]
      BY <1>3, <3>1
    <3> QED
      BY <1>2, <3>3, <3>4
  <2>3. handed' \in [Readers -> Seq(1 .. sent')]
    <3>1. 1 .. sent \subseteq 1 .. sent'
      BY <1>2, BusFacts
    <3>2. Seq(1 .. sent) \subseteq Seq(1 .. sent')
      <4> DEFINE S == 1 .. sent  T == 1 .. sent'
      <4>1. S \subseteq T
        BY <3>1
      <4> HIDE DEF S, T
      <4>2. Seq(S) \subseteq Seq(T)
        BY <4>1
      <4> QED
        BY <4>2 DEF S, T
    <3>3. handed \in [Readers -> Seq(1 .. sent)]
      BY DEF BusInv, BusTypeOK
    <3> QED
      BY <1>2, <3>2, <3>3
  <2>4. \A m \in messages' : m.session = None \/ m.project = None
    BY <1>2, <1>3 DEF BusInv, BusTypeOK
  <2>5. now' \in 0 .. MaxTime /\ replaced' \in BOOLEAN
        /\ cursors' \in [Readers -> {None} \union [id : 0 .. MaxMessages, ts : 0 .. now',
                                                   start : [cutoff : -Window .. now', alone : BOOLEAN]]]
    BY <1>2 DEF BusInv, BusTypeOK
  <2> QED
    BY <1>2, <1>6, <2>1, <2>2, <2>3, <2>4, <2>5 DEF BusTypeOK, Projects
<1>8. Keyed(messages) /\ Keyed(messages') /\ IsFiniteSet(messages')
  <2>1. Keyed(messages)
    BY BusFacts
  <2>2. IsFiniteSet(messages')
    BY <1>2, <2>1, FS_AddElement DEF Keyed
  <2>3. \A m \in messages' : m.id \in Nat
    BY <1>2, <1>5, BusFacts
  <2> QED
    BY <1>6, <2>1, <2>2, <2>3 DEF Keyed
<1>9. \A s \in Readers : cursors[s] # None => cursors[s].id \in Nat
  BY DEF BusInv, BusTypeOK
<1>10. \A s \in Readers : HasCursor(s) => HasCursor(s)'
  <2>1. \A s \in Readers : cursors[s] # None /\ cursors[s].id <= TopId(messages) => cursors[s].id <= TopId(messages')
    BY <1>2, <1>8, <1>9, UsableCursor
  <2> QED
    BY <1>2, <2>1 DEF HasCursor
\* A cursor becomes usable again by the new row, which all of the old ones
\* are below.
<1>11. ASSUME NEW s \in Readers, ~ HasCursor(s), HasCursor(s)'
       PROVE  \A m \in messages : m.id < cursors[s].id
  <2>1. cursors[s] # None /\ cursors[s].id \in Nat
    BY <1>2, <1>9, <1>11 DEF HasCursor
  <2>2. ~ (cursors[s].id <= TopId(messages))
    BY <1>11, <2>1 DEF HasCursor
  <2>3. ~ \E m \in messages : cursors[s].id <= m.id
    BY <1>8, <2>1, <2>2, UsableCursor
  <2> QED
    BY <2>1, <2>3, BusFacts
<1>12. \A s \in Readers : HasCursor(s) => cursors[s].id < new.id
  <2> SUFFICES ASSUME NEW s \in Readers, HasCursor(s) PROVE cursors[s].id < new.id
    OBVIOUS
  <2>1. cursors[s].id \in Nat /\ cursors[s].id <= TopId(messages)
    BY <1>9 DEF HasCursor
  <2>2. cursors[s].id = 0 \/ \E m \in messages : cursors[s].id <= m.id
    BY <1>8, <2>1, UsableCursor
  <2>3. new.id \in Nat /\ new.id # 0
    BY <1>3, BusFacts
  <2> QED
    BY <1>4, <2>1, <2>2, <2>3, BusFacts
<1>13. ASSUME NEW s \in Readers, cursors[s] # None, ~ replaced
       PROVE  cursors[s].id < new.id /\ HasCursor(s)'
  <2>1. cursors[s].id < new.id /\ cursors[s].id \in Nat
    BY <1>3, <1>9, <1>13 DEF BusInv, Rows
  <2>2. new \in messages' /\ cursors[s].id <= new.id
    BY <1>2, <1>5, <2>1
  <2>3. cursors[s].id <= TopId(messages')
    BY <1>8, <2>1, <2>2, UsableCursor
  <2> QED
    BY <1>2, <1>13, <2>1, <2>3 DEF HasCursor
<1>14. Rows'
  <2>1. nextId' <= sent' + 1
    BY <1>2, BusFacts
  <2>2. ~ replaced => \A s \in Readers : cursors[s] # None => cursors[s].id < nextId' /\ HasCursor(s)'
    BY <1>2, <1>3, <1>5, <1>9, <1>13
  <2>3. \A m \in messages' : \A s \in m.live : HasCursor(s)'
    <3>1. \A m \in messages : \A s \in m.live : s \in Readers /\ HasCursor(s)
      BY DEF BusInv, Rows, BusTypeOK
    <3> QED
      BY <1>2, <1>3, <1>10, <3>1
  <2> QED
    BY <1>2, <1>6, <1>8, <2>1, <2>2, <2>3 DEF Rows
<1>15. \A s \in Readers : \A m : Unseen(s, m)' <=> Unseen(s, m)
  BY <1>2 DEF Unseen
<1>16. \A s \in Readers : Unseen(s, new)
  <2> SUFFICES ASSUME NEW s \in Readers, NEW i \in DOMAIN handed[s] PROVE handed[s][i] < new.serial
    BY DEF Unseen
  <2>1. handed[s][i] \in 1 .. sent /\ sent \in Nat
    BY BusFacts
  <2> QED
    BY <1>3, <2>1
<1>17. ASSUME NEW s \in Readers PROVE Ahead(s)'
  <2>1. Ahead(s)
    BY DEF BusInv
  <2>2. cursors[s] # None => new.ts >= cursors[s].start.cutoff
    <3>1. cursors[s] # None => cursors[s].start.cutoff \in -Window .. now
      BY DEF BusInv, BusTypeOK
    <3> QED
      BY <1>3, <3>1, BusFacts
  <2>3. HasCursor(s)' => \A m \in messages' : m.id > cursors[s].id => Unseen(s, m) /\ m.ts >= cursors[s].start.cutoff
    <3>1. CASE HasCursor(s)
      BY <1>2, <1>16, <2>1, <2>2, <3>1 DEF Ahead, HasCursor
    <3>2. CASE ~ HasCursor(s) /\ HasCursor(s)'
      <4>1. \A m \in messages : ~ (m.id > cursors[s].id)
        BY <1>2, <1>9, <1>11, <3>2, BusFacts DEF HasCursor
      <4>2. cursors[s] # None
        BY <1>2, <3>2 DEF HasCursor
      <4> QED
        BY <1>2, <1>16, <2>2, <4>1, <4>2
    <3> QED
      BY <3>1, <3>2
  <2>4. cursors[s] # None => \A m \in messages' : m.ts > cursors[s].ts => Unseen(s, m)
    BY <1>2, <1>16, <2>1 DEF Ahead
  <2>5. cursors[s] = None => \A m \in messages' : m.ts >= Cutoff => Unseen(s, m)
    BY <1>2, <1>16, <2>1 DEF Ahead
  <2>6. cursors[s] # None /\ ~ HasCursor(s)' => \A m \in messages' : Unseen(s, m)
    BY <1>2, <1>10, <1>16, <2>1 DEF Ahead
  <2>7. Cutoff' = Cutoff /\ cursors' = cursors
    BY <1>2 DEF Cutoff
  <2> QED
    BY <1>15, <2>3, <2>4, <2>5, <2>6, <2>7 DEF Ahead
<1>18. OnceInOrder'
  BY <1>2 DEF BusInv, OnceInOrder
<1>19. NothingIsSkipped'
  <2>1. \A s \in Readers : \A m : Due(s, m)' <=> Due(s, m)
    BY <1>2 DEF Due
  <2>2. ASSUME NEW s \in Readers, NEW m \in ReadAddressed(s, ProjectOf[s])', HasCursor(s)',
               m.id <= cursors[s].id, Due(s, m), m.serial \notin ToSet(handed[s])
        PROVE  m.session = None /\ \E n \in messages' : n.id > m.id /\ n.session = s
    <3>1. m \in messages \/ m = new
      BY <1>2 DEF ReadAddressed
    <3>2. cursors[s] # None /\ cursors[s].id \in Nat
      BY <1>2, <1>9, <2>2 DEF HasCursor
    <3>3. CASE m \in messages /\ HasCursor(s)
      <4>1. m \in ReadAddressed(s, ProjectOf[s])
        BY <2>2, <3>3 DEF ReadAddressed
      <4>2. m.session = None /\ \E n \in messages : n.id > m.id /\ n.session = s
        BY <2>2, <3>3, <4>1 DEF BusInv, NothingIsSkipped
      <4> QED
        BY <1>2, <4>2
    <3>4. CASE m \in messages /\ ~ HasCursor(s)
      <4>1. s \notin m.live
        BY <3>4 DEF BusInv, Rows
      <4>2. ~ replaced
        BY <2>2, <4>1 DEF Due
      <4> QED
        BY <3>2, <3>4, <4>2 DEF BusInv, Rows
    <3>5. CASE m = new /\ HasCursor(s)
      BY <1>5, <1>12, <2>2, <3>2, <3>5
    <3>6. CASE m = new /\ ~ HasCursor(s)
      <4>1. ~ replaced
        BY <1>3, <2>2, <3>6 DEF Due
      <4> QED
        BY <1>5, <1>13, <2>2, <3>2, <3>6, <4>1
    <3> QED
      BY <3>1, <3>3, <3>4, <3>5, <3>6
  <2> QED
    BY <1>2, <2>1, <2>2 DEF NothingIsSkipped
<1> QED
  BY <1>7, <1>14, <1>17, <1>18, <1>19 DEF BusInv

\* The prune removes the oldest rows, and those have the lowest ids.
LEMMA PruneMessagesKeeps == ASSUME BusInv, PruneMessages PROVE BusInv'
<1>1. /\ messages' = {m \in messages : m.ts >= now - Retention}
      /\ UNCHANGED << nextId, cursors, now, sent, handed, replaced >>
  BY DEF PruneMessages
<1>2. messages' \subseteq messages /\ \A m \in messages : m.ts >= now - Retention => m \in messages'
  BY <1>1
<1>3. Keyed(messages) /\ Keyed(messages')
  BY <1>2, BusFacts, SomeRows
<1>4. \A s \in Readers : cursors[s] # None => cursors[s].id \in Nat
  BY DEF BusInv, BusTypeOK
<1>5. BusTypeOK'
  BY <1>1, <1>2 DEF BusInv, BusTypeOK, Projects
<1>6. \A s \in Readers : HasCursor(s)' => HasCursor(s)
  <2>1. \A s \in Readers : cursors[s] # None /\ cursors[s].id <= TopId(messages') => cursors[s].id <= TopId(messages)
    BY <1>2, <1>3, <1>4, UsableCursor
  <2> QED
    BY <1>1, <2>1 DEF HasCursor
\* A cursor is only lost with all rows: the oldest ids are pruned first.
<1>7. ASSUME NEW s \in Readers, HasCursor(s), ~ HasCursor(s)' PROVE messages' = {}
  <2>1. cursors[s] # None /\ cursors[s].id \in Nat /\ cursors[s].id <= TopId(messages)
    BY <1>4, <1>7 DEF HasCursor
  <2>2. ~ (cursors[s].id <= TopId(messages'))
    BY <1>1, <1>7, <2>1 DEF HasCursor
  <2>3. cursors[s].id # 0 /\ ~ \E m \in messages' : cursors[s].id <= m.id
    BY <1>3, <2>1, <2>2, UsableCursor
  <2>4. PICK top \in messages : cursors[s].id <= top.id
    BY <1>3, <2>1, <2>3, UsableCursor
  <2>5. ASSUME NEW m \in messages' PROVE FALSE
    <3>1. m \in messages /\ m.id < cursors[s].id
      BY <1>2, <2>1, <2>3, <2>5, BusFacts
    <3>2. m.id < top.id
      BY <2>1, <2>4, <3>1, BusFacts
    <3>3. m.ts <= top.ts /\ m.ts \in Nat /\ top.ts \in Nat
      BY <2>4, <3>1, <3>2, BusFacts
    <3>4. m.ts >= now - Retention
      BY <1>1, <2>5
    <3>5. top.ts >= now - Retention
      BY <3>3, <3>4, BusFacts
    <3>6. top \in messages'
      BY <1>2, <3>5
    <3> QED
      BY <2>3, <2>4, <3>6
  <2> QED
    BY <2>5
<1>8. Rows'
  <2>1. \A m \in messages' : \A s \in m.live : HasCursor(s)'
    <3>1. \A m \in messages : \A s \in m.live : s \in Readers /\ HasCursor(s)
      BY DEF BusInv, Rows, BusTypeOK
    <3> QED
      BY <1>2, <1>7, <3>1
  <2>2. ~ replaced => \A s \in Readers : cursors[s] # None =>
          cursors[s].id < nextId /\ (HasCursor(s)' \/ messages' = {})
    BY <1>2, <1>7 DEF BusInv, Rows
  <2> QED
    BY <1>1, <1>2, <1>3, <2>1, <2>2 DEF BusInv, Rows, Keyed
<1>9. \A s \in Readers : \A m : (Unseen(s, m)' <=> Unseen(s, m)) /\ (Due(s, m)' <=> Due(s, m))
  BY <1>1 DEF Unseen, Due
<1>10. Cutoff' = Cutoff
  BY <1>1 DEF Cutoff
<1>11. \A s \in Readers : Ahead(s)'
  BY <1>1, <1>2, <1>6, <1>7, <1>9, <1>10 DEF BusInv, Ahead
<1>12. OnceInOrder'
  BY <1>1 DEF BusInv, OnceInOrder
<1>13. NothingIsSkipped'
  <2> SUFFICES ASSUME NEW s \in Readers, NEW m \in ReadAddressed(s, ProjectOf[s])', HasCursor(s)',
                      m.id <= cursors[s].id, Due(s, m), m.serial \notin ToSet(handed[s])
               PROVE  m.session = None /\ \E n \in messages' : n.id > m.id /\ n.session = s
    BY <1>1, <1>9 DEF NothingIsSkipped
  <2>1. m \in messages' /\ m \in messages /\ m \in ReadAddressed(s, ProjectOf[s])
    BY <1>2 DEF ReadAddressed
  <2>2. m.session = None /\ \E n \in messages : n.id > m.id /\ n.session = s
    BY <1>6, <2>1 DEF BusInv, NothingIsSkipped
  <2>3. PICK n \in messages : n.id > m.id /\ n.session = s
    BY <2>2
  <2>4. m.id < n.id
    BY <2>1, <2>3, BusFacts
  <2>5. m.ts <= n.ts /\ m.ts \in Nat /\ n.ts \in Nat /\ m.ts >= now - Retention
    BY <1>1, <2>1, <2>4, BusFacts
  <2>6. n.ts >= now - Retention
    BY <2>5, BusFacts
  <2> QED
    BY <1>2, <2>2, <2>3, <2>6
<1> QED
  BY <1>5, <1>8, <1>11, <1>12, <1>13 DEF BusInv


\* Pruned cursors leave the live sets; all else of a row stays.
LEMMA PruneCursorsKeeps == ASSUME BusInv, PruneCursors PROVE BusInv'
<1> DEFINE old == {s \in Readers : cursors[s] # None /\ cursors[s].ts < now - Retention}
           Pruned(m) == [m EXCEPT !.live = @ \ old]
<1>1. /\ cursors' = [s \in Readers |-> IF s \in old THEN None ELSE cursors[s]]
      /\ messages' = {Pruned(m) : m \in messages}
      /\ UNCHANGED << nextId, now, sent, handed, replaced >>
  BY DEF PruneCursors
<1>2. \A s \in Readers : s \in old => cursors'[s] = None
  BY <1>1
<1>3. \A s \in Readers : s \notin old => cursors'[s] = cursors[s]
  BY <1>1
<1>4. \A s \in old : s \in Readers /\ cursors[s] # None /\ cursors[s].ts < now - Retention
  OBVIOUS
<1>5. \A s \in Readers : cursors[s] # None => cursors[s].id \in Nat /\ cursors[s].ts \in Nat
  BY DEF BusInv, BusTypeOK
<1> HIDE DEF old
<1>6. messages \subseteq
        [id : 1 .. nextId - 1, ts : 0 .. now, sender : Sessions, session : Sessions \union {None},
         project : Projects \union {None}, serial : 1 .. sent, live : SUBSET Readers]
  BY DEF BusInv, BusTypeOK
<1>7. \A m \in messages :
        /\ Pruned(m) \in
             [id : 1 .. nextId - 1, ts : 0 .. now, sender : Sessions, session : Sessions \union {None},
              project : Projects \union {None}, serial : 1 .. sent, live : SUBSET Readers]
        /\ Pruned(m).id = m.id /\ Pruned(m).ts = m.ts /\ Pruned(m).sender = m.sender
        /\ Pruned(m).session = m.session /\ Pruned(m).project = m.project /\ Pruned(m).serial = m.serial
        /\ Pruned(m).live = m.live \ old
  BY <1>6
<1>8. (\A m \in messages : Pruned(m) \in messages') /\ \A r \in messages' : \E m \in messages : r = Pruned(m)
  BY <1>1
<1>9. IsFiniteSet(messages')
  <2> DEFINE g == [m \in messages |-> Pruned(m)]
  <2>1. g \in Surjection(messages, messages')
    BY <1>8 DEF Surjection
  <2>2. IsFiniteSet(messages)
    BY DEF BusInv, Rows
  <2> HIDE DEF g
  <2> QED
    BY <2>1, <2>2, FS_Surjection
<1> HIDE DEF Pruned
<1>10. \A m, n \in messages' : /\ m.id = n.id => m = n
                               /\ m.id < n.id => m.ts <= n.ts
                               /\ m.id < n.id <=> m.serial < n.serial
  <2> SUFFICES ASSUME NEW a \in messages, NEW b \in messages
               PROVE  /\ Pruned(a).id = Pruned(b).id => Pruned(a) = Pruned(b)
                      /\ Pruned(a).id < Pruned(b).id => Pruned(a).ts <= Pruned(b).ts
                      /\ Pruned(a).id < Pruned(b).id <=> Pruned(a).serial < Pruned(b).serial
    BY <1>8
  <2>1. /\ a.id = b.id => a = b
        /\ a.id < b.id => a.ts <= b.ts
        /\ a.id < b.id <=> a.serial < b.serial
    BY BusFacts
  <2> QED
    BY <1>7, <2>1
<1>11. BusTypeOK'
  <2>1. messages' \subseteq
          [id : 1 .. nextId - 1, ts : 0 .. now, sender : Sessions, session : Sessions \union {None},
           project : Projects \union {None}, serial : 1 .. sent, live : SUBSET Readers]
    BY <1>7, <1>8
  <2>2. \A m \in messages' : m.session = None \/ m.project = None
    BY <1>7, <1>8 DEF BusInv, BusTypeOK
  <2>3. cursors' \in [Readers -> {None} \union [id : 0 .. MaxMessages, ts : 0 .. now,
                                                start : [cutoff : -Window .. now, alone : BOOLEAN]]]
    BY <1>1 DEF BusInv, BusTypeOK
  <2> QED
    BY <1>1, <1>10, <2>1, <2>2, <2>3 DEF BusInv, BusTypeOK, Projects
<1>12. Keyed(messages) /\ Keyed(messages')
  <2>1. Keyed(messages)
    BY BusFacts
  <2>2. \A m \in messages' : m.id \in Nat
    BY <1>7, <1>8, BusFacts
  <2> QED
    BY <1>9, <1>10, <2>1, <2>2 DEF Keyed
<1>13. \A s \in Readers : s \notin old => (HasCursor(s)' <=> HasCursor(s))
  <2>1. \A s \in Readers : cursors[s] # None =>
          (cursors[s].id <= TopId(messages') <=> cursors[s].id <= TopId(messages))
    <3> SUFFICES ASSUME NEW s \in Readers, cursors[s] # None
                 PROVE  cursors[s].id <= TopId(messages') <=> cursors[s].id <= TopId(messages)
      OBVIOUS
    <3>1. (\E m \in messages' : cursors[s].id <= m.id) <=> \E m \in messages : cursors[s].id <= m.id
      BY <1>7, <1>8
    <3> QED
      BY <1>5, <1>12, <3>1, UsableCursor
  <2> QED
    BY <1>3, <2>1 DEF HasCursor
<1>14. \A s \in Readers : s \in old => ~ HasCursor(s)'
  BY <1>2 DEF HasCursor
<1>15. Rows'
  <2>1. \A m \in messages' : \A s \in m.live : HasCursor(s)'
    <3> SUFFICES ASSUME NEW m \in messages, NEW s \in Pruned(m).live PROVE HasCursor(s)'
      BY <1>8
    <3>1. s \in m.live /\ s \notin old
      BY <1>7
    <3>2. s \in Readers /\ HasCursor(s)
      BY <1>6, <3>1 DEF BusInv, Rows
    <3> QED
      BY <1>13, <3>1, <3>2
  <2>2. ~ replaced => \A s \in Readers : cursors'[s] # None =>
          cursors'[s].id < nextId /\ (HasCursor(s)' \/ messages' = {})
    <3>1. messages = {} => messages' = {}
      BY <1>8
    <3> QED
      BY <1>2, <1>3, <1>13, <3>1 DEF BusInv, Rows
  <2>3. nextId <= sent + 1
    BY BusFacts
  <2> QED
    BY <1>1, <1>9, <1>10, <2>1, <2>2, <2>3 DEF Rows
<1>16. ASSUME NEW s \in Readers, NEW r \in messages'
       PROVE  \E m \in messages : /\ r.id = m.id /\ r.ts = m.ts
                                  /\ Unseen(s, r)' <=> Unseen(s, m)
  <2>1. PICK m \in messages : r = Pruned(m)
    BY <1>8
  <2>2. r.id = m.id /\ r.ts = m.ts /\ r.serial = m.serial
    BY <1>7, <2>1
  <2>3. Unseen(s, r)' <=> Unseen(s, m)
    BY <1>1, <2>2 DEF Unseen
  <2> QED
    BY <2>2, <2>3
<1>17. Cutoff' = Cutoff
  BY <1>1 DEF Cutoff
<1>18. ASSUME NEW s \in Readers PROVE Ahead(s)'
  <2>1. Ahead(s)
    BY DEF BusInv
  <2>2. CASE s \in old
    <3>1. \A m \in messages' : m.ts >= Cutoff => Unseen(s, m)'
      <4> SUFFICES ASSUME NEW m \in messages, m.ts >= Cutoff PROVE Unseen(s, m)
        BY <1>16
      <4>1. cursors[s] # None /\ cursors[s].ts < now - Retention /\ cursors[s].ts \in Nat
        BY <1>4, <1>5, <2>2
      <4>2. /\ m.ts \in Nat /\ m.ts >= now - Window
            /\ now \in Nat /\ Window \in Nat /\ Retention \in Nat /\ Window < Retention
        BY BusFacts DEF Cutoff
      <4>3. m.ts > cursors[s].ts
        BY <4>1, <4>2
      <4> QED
        BY <2>1, <4>1, <4>3 DEF Ahead
    <3>2. cursors'[s] = None /\ ~ HasCursor(s)'
      BY <1>2, <1>14, <2>2
    <3> QED
      BY <1>17, <3>1, <3>2 DEF Ahead
  <2>3. CASE s \notin old
    <3>1. cursors'[s] = cursors[s] /\ (HasCursor(s)' <=> HasCursor(s))
      BY <1>3, <1>13, <2>3
    <3>2. cursors[s] # None => \A m \in messages' : m.ts > cursors[s].ts => Unseen(s, m)'
      BY <1>16, <2>1 DEF Ahead
    <3>3. cursors[s] = None => \A m \in messages' : m.ts >= Cutoff => Unseen(s, m)'
      BY <1>16, <2>1 DEF Ahead
    <3>4. cursors[s] # None /\ ~ HasCursor(s) => \A m \in messages' : Unseen(s, m)'
      BY <1>16, <2>1 DEF Ahead
    <3>5. HasCursor(s) => \A m \in messages' : m.id > cursors[s].id =>
            Unseen(s, m)' /\ m.ts >= cursors[s].start.cutoff
      BY <1>16, <2>1 DEF Ahead
    <3> QED
      BY <1>17, <3>1, <3>2, <3>3, <3>4, <3>5 DEF Ahead
  <2> QED
    BY <2>2, <2>3
<1>19. OnceInOrder'
  BY <1>1 DEF BusInv, OnceInOrder
<1>20. NothingIsSkipped'
  <2> SUFFICES ASSUME NEW s \in Readers, NEW r \in ReadAddressed(s, ProjectOf[s])', HasCursor(s)',
                      r.id <= cursors'[s].id, Due(s, r)', r.serial \notin ToSet(handed'[s])
               PROVE  r.session = None /\ \E n \in messages' : n.id > r.id /\ n.session = s
    BY DEF NothingIsSkipped
  <2>1. PICK m \in messages : r = Pruned(m)
    BY <1>8 DEF ReadAddressed
  <2>2. s \notin old /\ HasCursor(s) /\ cursors'[s] = cursors[s] /\ replaced' = replaced /\ handed' = handed
    BY <1>1, <1>3, <1>13, <1>14
  <2>3. m \in ReadAddressed(s, ProjectOf[s])
    BY <1>7, <2>1 DEF ReadAddressed
  <2>4. Due(s, m)
    BY <1>7, <2>1, <2>2 DEF Due
  <2>5. m.id <= cursors[s].id /\ m.serial \notin ToSet(handed[s])
    BY <1>7, <2>1, <2>2
  <2>6. m.session = None /\ \E n \in messages : n.id > m.id /\ n.session = s
    BY <2>2, <2>3, <2>4, <2>5 DEF BusInv, NothingIsSkipped
  <2> QED
    BY <1>7, <1>8, <2>1, <2>6
<1> QED
  BY <1>11, <1>15, <1>18, <1>19, <1>20 DEF BusInv

\* Without rows no cursor is usable but one at 0, and nothing is skipped.
LEMMA ReplaceDatabaseKeeps == ASSUME BusInv, ReplaceDatabase PROVE BusInv'
<1>1. messages' = {} /\ nextId' = 1 /\ replaced' = TRUE /\ UNCHANGED << cursors, now, sent, handed >>
  BY DEF ReplaceDatabase
<1>2. BusTypeOK'
  <2>1. nextId' \in 1 .. MaxMessages + 1
    BY <1>1, BusFacts
  <2> QED
    BY <1>1, <2>1 DEF BusInv, BusTypeOK
<1>3. Rows'
  <2>1. IsFiniteSet({}) /\ 1 <= sent + 1
    BY FS_EmptySet, BusFacts
  <2> QED
    BY <1>1, <2>1 DEF Rows
<1>4. \A s \in Readers : Ahead(s)'
  BY <1>1 DEF Ahead
<1>5. OnceInOrder' /\ NothingIsSkipped'
  BY <1>1 DEF BusInv, OnceInOrder, NothingIsSkipped, ReadAddressed
<1> QED
  BY <1>2, <1>3, <1>4, <1>5 DEF BusInv

\* With the clock the window moves on, and fewer rows are recent.
LEMMA TickKeeps == ASSUME BusInv, Tick PROVE BusInv'
<1>1. now < MaxTime /\ now' = now + 1 /\ UNCHANGED << messages, nextId, cursors, sent, handed, replaced >>
  BY DEF Tick
<1>2. 0 .. now \subseteq 0 .. now' /\ -Window .. now \subseteq -Window .. now' /\ now' \in 0 .. MaxTime
  BY <1>1, BusFacts
<1>3. BusTypeOK'
  <2>1. messages' \subseteq
          [id : 1 .. nextId - 1, ts : 0 .. now', sender : Sessions, session : Sessions \union {None},
           project : Projects \union {None}, serial : 1 .. sent, live : SUBSET Readers]
    <3>1. messages \subseteq
            [id : 1 .. nextId - 1, ts : 0 .. now, sender : Sessions, session : Sessions \union {None},
             project : Projects \union {None}, serial : 1 .. sent, live : SUBSET Readers]
      BY DEF BusInv, BusTypeOK
    <3> QED
      BY <1>1, <1>2, <3>1
  <2>2. cursors' \in [Readers -> {None} \union [id : 0 .. MaxMessages, ts : 0 .. now',
                                                start : [cutoff : -Window .. now', alone : BOOLEAN]]]
    <3>1. cursors \in [Readers -> {None} \union [id : 0 .. MaxMessages, ts : 0 .. now,
                                                 start : [cutoff : -Window .. now, alone : BOOLEAN]]]
      BY DEF BusInv, BusTypeOK
    <3>2. \A s \in Readers : cursors[s] \in {None} \union [id : 0 .. MaxMessages, ts : 0 .. now',
                                                          start : [cutoff : -Window .. now', alone : BOOLEAN]]
      BY <1>2, <3>1
    <3> QED
      BY <1>1, <3>1, <3>2
  <2> QED
    BY <1>1, <1>2, <2>1, <2>2 DEF BusInv, BusTypeOK, Projects
<1>4. \A s \in Readers : HasCursor(s)' <=> HasCursor(s)
  BY <1>1 DEF HasCursor
<1>5. Rows'
  <2>1. \A m \in messages : \A s \in m.live : s \in Readers
    BY DEF BusInv, BusTypeOK
  <2> QED
    BY <1>1, <1>4, <2>1 DEF BusInv, Rows
<1>6. \A s \in Readers : \A m : (Unseen(s, m)' <=> Unseen(s, m)) /\ (Due(s, m)' <=> Due(s, m))
  BY <1>1 DEF Unseen, Due
<1>7. \A m \in messages : m.ts >= Cutoff' => m.ts >= Cutoff
  BY <1>1, BusFacts DEF Cutoff
<1>8. \A s \in Readers : Ahead(s)'
  BY <1>1, <1>4, <1>6, <1>7 DEF BusInv, Ahead
<1>9. OnceInOrder'
  BY <1>1 DEF BusInv, OnceInOrder
<1>10. NothingIsSkipped'
  <2>1. \A s \in Readers : ReadAddressed(s, ProjectOf[s])' = ReadAddressed(s, ProjectOf[s])
    BY <1>1 DEF ReadAddressed
  <2> QED
    BY <1>1, <1>4, <1>6, <2>1 DEF BusInv, NothingIsSkipped
<1> QED
  BY <1>3, <1>5, <1>8, <1>9, <1>10 DEF BusInv

\* A stuttering step.
LEMMA BusQuiet == ASSUME BusInv, UNCHANGED busVars PROVE BusInv'
<1>1. UNCHANGED << messages, nextId, cursors, now, sent, handed, replaced >>
  BY DEF busVars
<1>2. \A s \in Readers : Ahead(s)' /\ (HasCursor(s)' <=> HasCursor(s)) /\ \A m : Due(s, m)' <=> Due(s, m)
  BY <1>1, AheadSame DEF BusInv
<1>3. BusTypeOK' /\ OnceInOrder'
  BY <1>1 DEF BusInv, BusTypeOK, OnceInOrder, Projects
<1>4. Rows'
  <2>1. \A m \in messages : \A s \in m.live : s \in Readers
    BY DEF BusInv, BusTypeOK
  <2> QED
    BY <1>1, <1>2, <2>1 DEF BusInv, Rows
<1>5. NothingIsSkipped'
  <2>1. \A s \in Readers : ReadAddressed(s, ProjectOf[s])' = ReadAddressed(s, ProjectOf[s])
    BY <1>1 DEF ReadAddressed
  <2> QED
    BY <1>1, <1>2, <2>1 DEF BusInv, NothingIsSkipped
<1> QED
  BY <1>2, <1>3, <1>4, <1>5 DEF BusInv
-----------------------------------------------------------------------------
(***************************************************************************)
(* The bus: its invariant and what it says of the mail.                    *)
(***************************************************************************)

\* Only a read hands anything over, and each read stays above the start of
\* the cursor it leaves behind.
LEMMA BusStep == ASSUME BusInv, [BusNext]_busVars PROVE BusInv' /\ Gated
<1>1. ASSUME DeliverForSession PROVE BusInv' /\ Gated
  <2>1. PICK s \in Readers : \E project \in {ProjectOf[s], None} : FirstRead(s, project) \/ LaterRead(s, project)
    BY <1>1 DEF DeliverForSession
  <2>2. PICK project \in {ProjectOf[s], None} : FirstRead(s, project) \/ LaterRead(s, project)
    BY <2>1
  <2>3. CASE FirstRead(s, project)
    BY <2>3, FirstReadKeeps
  <2>4. CASE LaterRead(s, project)
    BY <2>4, LaterReadKeeps
  <2> QED
    BY <2>2, <2>3, <2>4
<1>2. ASSUME handed' = handed PROVE Gated
  BY <1>2 DEF Gated
<1>3. CASE SendMessage
  BY <1>2, <1>3, SendKeeps DEF SendMessage
<1>4. CASE PruneMessages
  BY <1>2, <1>4, PruneMessagesKeeps DEF PruneMessages
<1>5. CASE PruneCursors
  BY <1>2, <1>5, PruneCursorsKeeps DEF PruneCursors
<1>6. CASE ReplaceDatabase
  BY <1>2, <1>6, ReplaceDatabaseKeeps DEF ReplaceDatabase
<1>7. CASE Tick
  BY <1>2, <1>7, TickKeeps DEF Tick
<1>8. CASE UNCHANGED busVars
  BY <1>2, <1>8, BusQuiet DEF busVars
<1> QED
  BY <1>1, <1>3, <1>4, <1>5, <1>6, <1>7, <1>8 DEF BusNext

\* The invariant of the message bus: the rows and cursors fit together and
\* all that a session has yet to be handed was sent after what it was handed.
THEOREM BusInvariant == BusSpec => []BusInv
<1>1. BusInit => BusInv
  BY BusInitInv
<1>2. BusInv /\ [BusNext]_busVars => BusInv'
  BY BusStep
<1> QED
  BY <1>1, <1>2, PTL DEF BusSpec

\* The tables keep their shape: ids are unique and in order of sending, and a
\* message that send_message stored has one target.
THEOREM MailIsTyped == BusSpec => []BusTypeOK
<1>1. BusInv => BusTypeOK
  BY DEF BusInv
<1> QED
  BY <1>1, BusInvariant, PTL

\* deliver_for_session hands a session its mail in the order of sending and
\* never twice, for any number of sessions, messages and hooks, across pruned
\* cursors and a replaced database.
THEOREM MailGoesOutOnce == BusSpec => []OnceInOrder
<1>1. BusInv => OnceInOrder
  BY DEF BusInv
<1> QED
  BY <1>1, BusInvariant, PTL

\* A cursor passes no mail that is due and was not handed over, except a
\* broadcast below later direct mail.
THEOREM NoMailIsSkipped == BusSpec => []NothingIsSkipped
<1>1. BusInv => NothingIsSkipped
  BY DEF BusInv
<1> QED
  BY <1>1, BusInvariant, PTL

\* No read hands a session mail older than the window was at the read that
\* began its cursor's life.
THEOREM BacklogIsGated == BusSpec => BacklogStaysGated
<1>1. BusInv /\ [BusNext]_busVars => [Gated]_busVars
  BY BusStep
<1>2. BusSpec => [][Gated]_busVars
  BY <1>1, BusInvariant, PTL DEF BusSpec
<1> QED
  BY <1>2 DEF BacklogStaysGated, Gated
=============================================================================
