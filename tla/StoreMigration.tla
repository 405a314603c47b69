--------------------------- MODULE StoreMigration ----------------------------
(***************************************************************************)
(* The lazy migration of a legacy JSON file into a key-value table of      *)
(* badger_store.py, under the hooks and servers that read and write the    *)
(* table, crash anywhere, and share the file with a stale surface: an      *)
(* older version that still writes the file, under its .write.lock.        *)
(*                                                                         *)
(* One family of kind "map", which has its table for itself.  A SQLite     *)
(* transaction is one action, and so are the steps of a read that are      *)
(* between two looks at the table or the file.  Times are abstracted to    *)
(* what the code compares: whether the file is newer than the import.      *)
(***************************************************************************)
EXTENDS Naturals

CONSTANTS Procs, Keys, Values, Absent, NoFile, Never, Free

ASSUME StoreAssumption == Free \notin Procs /\ Absent \notin Values /\ NoFile \notin [Keys -> Values \union {Absent}]

VARIABLES
  db,       \* the table: a value or Absent per key
  stamped,  \* whether meta holds the table's migration stamp
  file,     \* the legacy file: a value or Absent per key, or NoFile
  newer,    \* whether the file's mtime is after the stamp
  lock,     \* the process that holds .write.lock, or Free
  proc,     \* per process the operation it is in
  wrote     \* history: per key what the store last wrote since the stale surface did
            \* (Absent: deleted), or Never; and whether that must stand

vars == << db, stamped, file, newer, lock, proc, wrote >>

Row == Values \union {Absent}
Rest == [pc |-> "closed"]

Init ==
  /\ db = [k \in Keys |-> Absent] /\ stamped = FALSE
  /\ file \in [Keys -> Row] \union {NoFile} /\ newer = FALSE
  /\ lock = Free
  /\ proc = [p \in Procs |-> Rest]
  /\ wrote = [k \in Keys |-> [value |-> Never, stands |-> FALSE]]

At(p, pc) == proc[p].pc = pc
Goto(p, pc) == proc' = [proc EXCEPT ![p].pc = pc]
GiveUp(p) == proc' = [proc EXCEPT ![p] = Rest]

InFile(k) == file # NoFile /\ file[k] # Absent

Present(k) == db[k] # Absent \/ InFile(k)

\* The file was written after its import (D5c).
Resurrected == file # NoFile /\ stamped /\ newer

-----------------------------------------------------------------------------
(***************************************************************************)
(* Operations begin: a store that found the file resurrected when it was   *)
(* opened refuses them all, so it is as good as closed.                    *)
(***************************************************************************)

Open(p) ==
  /\ At(p, "closed")
  /\ ~ Resurrected
  /\ Goto(p, "idle")
  /\ UNCHANGED << db, stamped, file, newer, lock, wrote >>

\* kv_get; there and raced are history: whether the key has been there ever
\* since, and whether the file was imported meanwhile.
KvGet(p) ==
  /\ proc[p].pc \in {"idle", "missed"}
  /\ \E k \in Keys :
       proc' = [proc EXCEPT ![p] = [pc |-> "select", key |-> k, raced |-> FALSE,
                                    there |-> Present(k) /\ wrote[k].value # Absent]]
  /\ UNCHANGED << db, stamped, file, newer, lock, wrote >>

\* kv_set, kv_update (any value, as the function may return any) and
\* kv_delete (Absent) migrate first.  clean is history: whether no stale
\* surface has written the key since.
KvWrite(p) ==
  /\ proc[p].pc \in {"idle", "missed"}
  /\ \E k \in Keys, v \in Row :
       proc' = [proc EXCEPT ![p] = [pc |-> "migrate", key |-> k, value |-> v, clean |-> TRUE]]
  /\ UNCHANGED << db, stamped, file, newer, lock, wrote >>

-----------------------------------------------------------------------------
(***************************************************************************)
(* _migrate_family.                                                        *)
(***************************************************************************)

\* There is nothing to migrate, or the check of the file's age is next.
Look(p) ==
  /\ At(p, "migrate")
  /\ Goto(p, IF file = NoFile THEN "write" ELSE "check")
  /\ UNCHANGED << db, stamped, file, newer, lock, wrote >>

\* A newer file is refused; so is, by accident, a file that another process
\* has migrated since Look: its age cannot be read any more.
Check(p) ==
  /\ At(p, "check")
  /\ IF stamped /\ (file = NoFile \/ newer) THEN GiveUp(p) ELSE Goto(p, "lock")
  /\ UNCHANGED << db, stamped, file, newer, lock, wrote >>

\* Mutant: the file's rows replace the table's.
Imported_Replaces == [k \in Keys |-> IF file[k] # Absent THEN file[k] ELSE db[k]]

\* Mutant: a stamped table is taken for migrated.
Imported_Once == IF stamped THEN db ELSE [k \in Keys |-> IF db[k] # Absent THEN db[k] ELSE file[k]]

\* INSERT OR IGNORE: what the table has, it keeps.
Imported == [k \in Keys |-> IF db[k] # Absent THEN db[k] ELSE file[k]]

SeesImport(q) == IF At(q, "select") \/ At(q, "legacy") THEN [proc[q] EXCEPT !.raced = TRUE] ELSE proc[q]

\* Under the lock, the rows and the stamp are committed together.
Import(p) ==
  /\ At(p, "lock") /\ lock = Free /\ file # NoFile
  /\ db' = Imported /\ stamped' = TRUE /\ newer' = FALSE
  /\ lock' = p
  /\ proc' = [q \in Procs |-> IF q = p THEN [proc[p] EXCEPT !.pc = "rename"] ELSE SeesImport(q)]
  /\ UNCHANGED << file, wrote >>

\* Another process has migrated the file while this one waited.
NothingLeft(p) ==
  /\ At(p, "lock") /\ lock = Free /\ file = NoFile
  /\ Goto(p, "write")
  /\ UNCHANGED << db, stamped, file, newer, lock, wrote >>

\* The file becomes *.migrated.
Rename(p) ==
  /\ At(p, "rename")
  /\ file' = NoFile
  /\ lock' = Free
  /\ Goto(p, "write")
  /\ UNCHANGED << db, stamped, newer, wrote >>

-----------------------------------------------------------------------------
(***************************************************************************)
(* Operations end.                                                         *)
(***************************************************************************)

Misses(k) == [q \in Procs |-> IF (At(q, "select") \/ At(q, "legacy")) /\ proc[q].key = k
                              THEN [proc[q] EXCEPT !.there = FALSE] ELSE proc[q]]

\* The transaction of kv_set, kv_update and kv_delete.
Write(p) ==
  LET k == proc[p].key
      v == proc[p].value
      others == IF v = Absent THEN Misses(k) ELSE proc
  IN  /\ At(p, "write")
      /\ db' = [db EXCEPT ![k] = v]
      /\ wrote' = [wrote EXCEPT ![k] = [value |-> v, stands |-> v # Absent \/ proc[p].clean]]
      /\ proc' = [others EXCEPT ![p] = [pc |-> "idle"]]
      /\ UNCHANGED << stamped, file, newer, lock >>

\* kv_get looks for the row,
SelectRow(p) ==
  /\ At(p, "select")
  /\ IF db[proc[p].key] # Absent THEN proc' = [proc EXCEPT ![p] = [pc |-> "idle"]] ELSE Goto(p, "legacy")
  /\ UNCHANGED << db, stamped, file, newer, lock, wrote >>

\* Mutant: the legacy file is only read before the first import.
LegacyRead_Unstamped(p) ==
  /\ At(p, "legacy")
  /\ \/ ~ stamped /\ InFile(proc[p].key) /\ proc' = [proc EXCEPT ![p] = [pc |-> "idle"]]
     \/ ~ (~ stamped /\ InFile(proc[p].key)) /\ Goto(p, "missed")
  /\ UNCHANGED << db, stamped, file, newer, lock, wrote >>

\* and without one for the key in the legacy file, if that is not newer.
LegacyRead(p) ==
  /\ At(p, "legacy")
  /\ \/ Resurrected /\ GiveUp(p)
     \/ ~ Resurrected /\ InFile(proc[p].key) /\ proc' = [proc EXCEPT ![p] = [pc |-> "idle"]]
     \/ ~ Resurrected /\ ~ InFile(proc[p].key) /\ Goto(p, "missed")
  /\ UNCHANGED << db, stamped, file, newer, lock, wrote >>

-----------------------------------------------------------------------------
(***************************************************************************)
(* Crashes, and the stale surface.                                         *)
(***************************************************************************)

\* Mutant: the lock outlives its holder.
Crash_Locked(p) ==
  /\ ~ At(p, "closed")
  /\ GiveUp(p)
  /\ UNCHANGED << db, stamped, file, newer, lock, wrote >>

\* A process dies or closes its store; a flock dies with it.
Crash(p) ==
  /\ ~ At(p, "closed")
  /\ GiveUp(p)
  /\ lock' = IF lock = p THEN Free ELSE lock
  /\ UNCHANGED << db, stamped, file, newer, wrote >>

\* The stale surface rewrites its document with one key changed.
LegacyWrite ==
  \E k \in Keys, v \in Values :
    /\ lock = Free
    /\ file' = [(IF file = NoFile THEN [j \in Keys |-> Absent] ELSE file) EXCEPT ![k] = v]
    /\ newer' = stamped
    /\ wrote' = [wrote EXCEPT ![k] = IF @.value = Absent THEN [value |-> Never, stands |-> FALSE] ELSE @]
    /\ proc' = [q \in Procs |-> IF proc[q].pc \in {"migrate", "check", "lock", "rename", "write"} /\ proc[q].key = k
                                THEN [proc[q] EXCEPT !.clean = FALSE] ELSE proc[q]]
    /\ UNCHANGED << db, stamped, lock >>

Next ==
  \/ \E p \in Procs :
       \/ Open(p) \/ KvGet(p) \/ KvWrite(p)
       \/ Look(p) \/ Check(p) \/ Import(p) \/ NothingLeft(p) \/ Rename(p)
       \/ Write(p) \/ SelectRow(p) \/ LegacyRead(p)
       \/ Crash(p)
  \/ LegacyWrite

Spec == Init /\ [][Next]_vars

-----------------------------------------------------------------------------
(***************************************************************************)
(* Properties.                                                             *)
(***************************************************************************)

Operations ==
  {Rest, [pc |-> "idle"]}
  \union [pc : {"select", "legacy", "missed"}, key : Keys, there : BOOLEAN, raced : BOOLEAN]
  \union [pc : {"migrate", "check", "lock", "rename", "write"}, key : Keys, value : Row, clean : BOOLEAN]

\* The shape of the state; the lock is held by the process that is about to
\* rename the file, and by nobody who is dead.
TypeOK ==
  /\ db \in [Keys -> Row] /\ file \in [Keys -> Row] \union {NoFile}
  /\ stamped \in BOOLEAN /\ newer \in BOOLEAN
  /\ proc \in [Procs -> Operations]
  /\ wrote \in [Keys -> [value : Row \union {Never}, stands : BOOLEAN]]
  /\ lock \in Procs \union {Free} /\ \A p \in Procs : lock = p <=> At(p, "rename")

\* What the store wrote stands: no import, repeated after a crash or delayed
\* by the lock, overwrites a value or brings a deleted key back (unless the
\* stale surface wrote that key during the delete, or later).
StoreWritesStand ==
  \A k \in Keys :
    wrote[k].stands =>
      /\ db[k] = wrote[k].value
      /\ wrote[k].value = Absent => ~ Present(k)

\* Whatever crashes, a key disappears only by being deleted: until then it
\* is in the table or in the file that is still to be imported.
KeysSurvive == [][\A k \in Keys : (Present(k) /\ ~ Present(k)') => wrote'[k].value = Absent]_vars

\* A read misses a key that is there all the time only if the file was
\* imported while the read was under way, before its look at the file.
MissedOnlyInMigration ==
  \A p \in Procs : (At(p, "missed") /\ proc[p].there) => proc[p].raced

\* A stale surface's write after the import is left for its owner to
\* reconcile: no import takes it for legacy data (_raise_on_resurrection,
\* D5c).  Check looks before the lock is taken, so this does not hold.
StaleWritesAreRefused == [][newer => newer']_vars
=============================================================================
