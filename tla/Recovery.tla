------------------------------ MODULE Recovery ------------------------------
(***************************************************************************)
(* The restore of a backup by aspmctl (cmd/aspmctl/recovery_restore.go): it*)
(* creates the objects and the database schema of a backup in an empty     *)
(* destination, and keeps a journal file from which a separate cleanup     *)
(* removes what an interrupted restore made.                               *)
(*                                                                         *)
(* objects and schema are the destination: who created each object and the *)
(* schema, and whether the schema holds the whole dump.  role tells whether*)
(* an application role is connected, journal is the file of each restore,  *)
(* and proc the process that works on it, with its own copy of the record. *)
(* A process may stop at every step, a journal write may fail, and a       *)
(* request may take effect although its answer is an error.  retried is    *)
(* history: the objects whose creation was answered by a failed            *)
(* precondition because the storage client had sent the request again.     *)
(*                                                                         *)
(* The objects of the backup are numbered in the order of its index.  Other*)
(* is the application, which also creates the schema; what a role does with*)
(* a schema it finds is left out.  An object keeps the content of the      *)
(* backup.  At most one process works on a journal, and a request whose    *)
(* caller stopped takes effect before the next command or not at all.      *)
(***************************************************************************)
EXTENDS Naturals, FiniteSets

CONSTANTS
  Restores,    \* journal files
  ObjectCount, \* objects of the backup
  MaxApplies,  \* bound on the runs of restore apply
  MaxCleanups, \* bound on the runs of restore cleanup
  Other,
  Nothing

VARIABLES objects, schema, role, journal, proc, retried, applies, cleanups

destination == <<objects, schema, role>>
bounds == <<applies, cleanups>>
recoveryVars == <<destination, journal, proc, retried, bounds>>

Keys == 1..ObjectCount

\* recoveryRestoreState, and the schema of the destination.
JournalRecord ==
  [phase : {"applying", "failed", "verified"}, created : SUBSET Keys, pending : Keys \cup {Nothing},
   schema : {"absent", "pending", "created"}]

SchemaRecord == [by : Restores \cup {Other}, loaded : {"no", "yes"}]

\* Nothing is no journal, object number, schema or restore; Other is no restore.
ASSUME RecoveryAssumption ==
  /\ ObjectCount \in Nat
  /\ Nothing \notin Restores \cup {Other} \cup Keys
  /\ Nothing \notin JournalRecord /\ Nothing \notin SchemaRecord
  /\ Other \notin Restores

\* A journal as restore apply first writes it.
Fresh == [phase |-> "applying", created |-> {}, pending |-> Nothing, schema |-> "absent"]

Idle == [pc |-> "idle", at |-> 1, record |-> Fresh]

\* writeCanonicalJSON of record, after which the process goes on at pc.  An
\* error ends a cleanup at once and a restore through its deferred write.
Save(r, record, pc, saved) ==
  /\ journal' = IF saved THEN [journal EXCEPT ![r] = record] ELSE journal
  /\ proc' = [proc EXCEPT
       ![r] = IF saved THEN [@ EXCEPT !.pc = pc, !.record = record]
              ELSE IF record.phase = "failed" THEN Idle
              ELSE [@ EXCEPT !.pc = "failing", !.record = record]]

Goto(r, pc) == proc' = [proc EXCEPT ![r].pc = pc]

RecoveryInit ==
  /\ objects = [k \in Keys |-> Nothing]
  /\ schema = Nothing
  /\ role = "stopped"
  /\ journal = [r \in Restores |-> Nothing]
  /\ proc = [r \in Restores |-> Idle]
  /\ retried = {}
  /\ applies = 0
  /\ cleanups = 0

-----------------------------------------------------------------------------
(* restore apply *)

\* The destination is found empty and without application connections, by the
\* plan and again before the journal.
Preflight(r) ==
  /\ proc[r].pc = "idle" /\ journal[r] = Nothing
  /\ applies < MaxApplies
  /\ role = "stopped"
  /\ schema = Nothing
  /\ \A k \in Keys : objects[k] = Nothing
  /\ applies' = applies + 1
  /\ Goto(r, "prepared")
  /\ UNCHANGED <<destination, journal, retried, cleanups>>

\* Nothing was made yet: when the first write fails, the restore just ends.
Open(r) ==
  /\ proc[r].pc = "prepared"
  /\ journal' = [journal EXCEPT ![r] = Fresh]
  /\ Goto(r, "object")
  /\ UNCHANGED <<destination, retried, bounds>>

\* Mutant: the key is marked in memory only, and reaches the file with the
\* next checkpoint.
MarkLater(r, saved) ==
  /\ proc[r].pc = "object" /\ proc[r].at \in Keys
  /\ proc' = [proc EXCEPT ![r].pc = "put", ![r].record.pending = proc[r].at]
  /\ UNCHANGED <<destination, journal, retried, bounds>>

\* The key of the next object is journalled before the object is created.
Mark(r, saved) ==
  /\ proc[r].pc = "object" /\ proc[r].at \in Keys
  /\ Save(r, [proc[r].record EXCEPT !.pending = proc[r].at], "put", saved)
  /\ UNCHANGED <<destination, retried, bounds>>

\* PutObject with If-None-Match creates the object.
Put(r) ==
  /\ proc[r].pc = "put" /\ objects[proc[r].at] = Nothing
  /\ objects' = [objects EXCEPT ![proc[r].at] = r]
  /\ Goto(r, "check")
  /\ UNCHANGED <<schema, role, journal, retried, bounds>>

\* PutObject is answered by a failed precondition, and the key is taken off
\* the journal: the object was there, or the client's first request, whose
\* answer was lost, has just created it.
PutRefused(r, saved) ==
  LET k == proc[r].at IN
  /\ proc[r].pc = "put"
  /\ objects' = [objects EXCEPT ![k] = IF @ = Nothing THEN r ELSE @]
  /\ retried' = IF objects[k] = Nothing THEN retried \cup {<<r, k>>} ELSE retried
  /\ Save(r, [proc[r].record EXCEPT !.pending = Nothing], "failing", saved)
  /\ UNCHANGED <<schema, role, bounds>>

\* PutObject ends with another error; it may have created the object.
PutLost(r) ==
  /\ proc[r].pc = "put"
  /\ \/ UNCHANGED objects
     \/ objects[proc[r].at] = Nothing /\ objects' = [objects EXCEPT ![proc[r].at] = r]
  /\ Goto(r, "failing")
  /\ UNCHANGED <<schema, role, journal, retried, bounds>>

\* The object is read back, and its key moves to the created ones.
CheckpointObject(r, saved) ==
  LET k == proc[r].at
      record == [proc[r].record EXCEPT !.created = @ \cup {k}, !.pending = Nothing]
  IN
  /\ proc[r].pc = "check" /\ objects[k] # Nothing
  /\ journal' = IF saved THEN [journal EXCEPT ![r] = record] ELSE journal
  /\ proc' = [proc EXCEPT ![r] =
       [pc |-> IF saved THEN "object" ELSE "failing", at |-> k + 1, record |-> record]]
  /\ UNCHANGED <<destination, retried, bounds>>

\* So is the schema.
MarkSchema(r, saved) ==
  /\ proc[r].pc = "object" /\ proc[r].at \notin Keys
  /\ Save(r, [proc[r].record EXCEPT !.schema = "pending"], "create", saved)
  /\ UNCHANGED <<destination, retried, bounds>>

\* CREATE SCHEMA; its answer may be lost.
CreateSchema(r, answered) ==
  /\ proc[r].pc = "create" /\ schema = Nothing
  /\ schema' = [by |-> r, loaded |-> "no"]
  /\ Goto(r, IF answered THEN "load" ELSE "failing")
  /\ UNCHANGED <<objects, role, journal, retried, bounds>>

\* pg_restore fills the schema; it is not one transaction.
LoadDump(r) ==
  /\ proc[r].pc = "load" /\ schema # Nothing /\ schema.loaded = "no"
  /\ schema' = [schema EXCEPT !.loaded = "yes"]
  /\ Goto(r, "loaded")
  /\ UNCHANGED <<objects, role, journal, retried, bounds>>

RecordSchema(r, saved) ==
  /\ proc[r].pc = "loaded" /\ schema # Nothing /\ schema.loaded = "yes"
  /\ Save(r, [proc[r].record EXCEPT !.schema = "created"], "verify", saved)
  /\ UNCHANGED <<destination, retried, bounds>>

\* No application is connected; inventory and objects equal those of the backup.
Verify(r, saved) ==
  /\ proc[r].pc = "verify" /\ role = "stopped" /\ schema # Nothing /\ schema.loaded = "yes"
  /\ \A k \in Keys : objects[k] # Nothing
  /\ Save(r, [proc[r].record EXCEPT !.phase = "verified"], "idle", saved)
  /\ UNCHANGED <<destination, retried, bounds>>

\* A request or a comparison of the restore fails, and nothing was changed.
Fail(r) ==
  /\ proc[r].pc \in {"object", "check", "create", "load", "loaded", "verify"}
  /\ Goto(r, "failing")
  /\ UNCHANGED <<destination, journal, retried, bounds>>

\* The deferred write of a restore that ends with an error; its own error is
\* ignored, which Stop stands for.
Failed(r) ==
  /\ proc[r].pc = "failing"
  /\ journal' = [journal EXCEPT ![r] = [proc[r].record EXCEPT !.phase = "failed"]]
  /\ proc' = [proc EXCEPT ![r] = Idle]
  /\ UNCHANGED <<destination, retried, bounds>>

-----------------------------------------------------------------------------
(* restore cleanup *)

BeginCleanup(r) ==
  /\ proc[r].pc = "idle" /\ journal[r] # Nothing
  /\ journal[r].phase # "verified" /\ role = "stopped"
  /\ cleanups < MaxCleanups
  /\ cleanups' = cleanups + 1
  /\ Save(r, [journal[r] EXCEPT !.phase = "failed"], "clean", TRUE)
  /\ UNCHANGED <<destination, retried, applies>>

\* The keys still to remove: the created ones and the pending one, which is
\* the last.
Remaining(r) == proc[r].record.created \cup ({proc[r].record.pending} \ {Nothing})

\* The object under the next key is read.
Look(r) ==
  /\ proc[r].pc = "clean"
  /\ \E k \in Remaining(r) :
       /\ \A j \in Remaining(r) : k <= j
       /\ proc' = [proc EXCEPT ![r].at = k,
                               ![r].pc = IF objects[k] = Nothing THEN "deleted" ELSE "delete"]
  /\ UNCHANGED <<destination, journal, retried, bounds>>

Delete(r) ==
  /\ proc[r].pc = "delete"
  /\ objects' = [objects EXCEPT ![proc[r].at] = Nothing]
  /\ Goto(r, "deleted")
  /\ UNCHANGED <<schema, role, journal, retried, bounds>>

\* recordCleanedRestoreObject
RecordCleaned(r, saved) ==
  LET k == proc[r].at IN
  /\ proc[r].pc = "deleted"
  /\ Save(r, [proc[r].record EXCEPT !.created = @ \ {k},
                                    !.pending = IF @ = k THEN Nothing ELSE @], "clean", saved)
  /\ UNCHANGED <<destination, retried, bounds>>

\* Is there a schema of the name?
LookSchema(r) ==
  /\ proc[r].pc = "clean" /\ Remaining(r) = {}
  /\ proc[r].record.schema \in {"pending", "created"}
  /\ Goto(r, IF schema = Nothing THEN "dropped" ELSE "drop")
  /\ UNCHANGED <<destination, journal, retried, bounds>>

\* Whichever schema has the name is dropped; if there is none any more, the
\* cleanup fails and stops.
DropSchema(r) ==
  /\ proc[r].pc = "drop"
  /\ schema # Nothing
  /\ schema' = Nothing
  /\ Goto(r, "dropped")
  /\ UNCHANGED <<objects, role, journal, retried, bounds>>

RecordDropped(r, saved) ==
  /\ proc[r].pc = "dropped"
  /\ Save(r, [proc[r].record EXCEPT !.schema = "absent"], "clean", saved)
  /\ UNCHANGED <<destination, retried, bounds>>

RemoveJournal(r) ==
  /\ proc[r].pc = "clean" /\ Remaining(r) = {} /\ proc[r].record.schema = "absent"
  /\ journal' = [journal EXCEPT ![r] = Nothing]
  /\ proc' = [proc EXCEPT ![r] = Idle]
  /\ UNCHANGED <<destination, retried, bounds>>

-----------------------------------------------------------------------------
\* The process crashes; also a cleanup that ends with an error, and a first or
\* deferred journal write that fails.
Stop(r) ==
  /\ proc[r].pc # "idle"
  /\ proc' = [proc EXCEPT ![r] = Idle]
  /\ UNCHANGED <<destination, journal, retried, bounds>>

\* An application role is started and initializes the schema it is configured
\* for (CREATE SCHEMA IF NOT EXISTS).
StartRole ==
  /\ role = "stopped"
  /\ role' = "running"
  /\ schema' = IF schema = Nothing THEN [by |-> Other, loaded |-> "no"] ELSE schema
  /\ UNCHANGED <<objects, journal, proc, retried, bounds>>

StopRole ==
  /\ role = "running"
  /\ role' = "stopped"
  /\ UNCHANGED <<objects, schema, journal, proc, retried, bounds>>

Apply(r) ==
  \/ Preflight(r) \/ Open(r) \/ Put(r) \/ PutLost(r) \/ LoadDump(r) \/ Fail(r) \/ Failed(r)
  \/ \E saved \in BOOLEAN :
       \/ Mark(r, saved) \/ PutRefused(r, saved) \/ CheckpointObject(r, saved)
       \/ MarkSchema(r, saved) \/ CreateSchema(r, saved) \/ RecordSchema(r, saved)
       \/ Verify(r, saved)

Cleanup(r) ==
  \/ BeginCleanup(r) \/ Look(r) \/ Delete(r) \/ LookSchema(r) \/ DropSchema(r) \/ RemoveJournal(r)
  \/ \E saved \in BOOLEAN : RecordCleaned(r, saved) \/ RecordDropped(r, saved)

RecoveryNext == (\E r \in Restores : Apply(r) \/ Cleanup(r) \/ Stop(r)) \/ StartRole \/ StopRole

RecoverySpec == RecoveryInit /\ [][RecoveryNext]_recoveryVars

-----------------------------------------------------------------------------
(* Properties *)

\* A restore that has no journal and no process has left nothing of its own in
\* the destination, wherever it or its cleanups stopped and whatever another
\* restore did: each object it created was journalled before and until it was
\* removed, and so was its schema.  The exception is an object whose creation
\* the storage client repeated after a lost answer: restoreObjects takes the
\* failed precondition of the repetition for an object of somebody else.
CleanupIsComplete ==
  \A r \in Restores : journal[r] = Nothing /\ proc[r].pc = "idle" =>
    /\ \A k \in Keys : objects[k] = r => <<r, k>> \in retried
    /\ schema # Nothing => schema.by # r
=============================================================================
