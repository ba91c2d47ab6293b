------------------------------- MODULE Imports -------------------------------
(***************************************************************************)
(* Intake of scanner reports and the import queue: acceptImport, the import   *)
(* worker (claimImport, processImport) and the revocation of a role, which    *)
(* fails the pending imports of the user in the same transaction.            *)
(*                                                                         *)
(* Uploads run concurrently; between their preflight and their final          *)
(* transaction only the shared object store is used.  A worker holds what it  *)
(* claimed in memory and may be shut down, stall past its lease or crash.     *)
(*                                                                         *)
(* available_at only delays a claim and claims are never forced, so it is     *)
(* left out; lease_until is on one side or the other of the database clock.   *)
(***************************************************************************)
EXTENDS Naturals, FiniteSets

CONSTANTS
  Uploads,        \* requests; an accepted one names the import it created
  ScanOf,         \* the source and scan of an upload: the identity of a run
  ContentOf,      \* report digest and metadata digest of an upload
  ActorOf,        \* who uploads
  Users,
  Workers,
  importAttempts,
  Nobody

ASSUME ImportConstants ==
  /\ ActorOf \in [Uploads -> Users]
  /\ DOMAIN ScanOf = Uploads /\ DOMAIN ContentOf = Uploads
  /\ importAttempts \in Nat \ {0}
  /\ Nobody \notin Workers \cup Uploads

VARIABLES
  import,    \* the imports table; an import has the name of its upload
  objects,   \* the report objects in the object store
  upload,    \* how far each request is, and the import it was answered with
  writers,   \* users whose role is admin or analyst
  worker,    \* what each worker has in memory
  applied    \* how often the report of an import was reconciled

importVars == <<import, objects, upload, writers, worker, applied>>

-----------------------------------------------------------------------------
ImportRow(s, n, a, w, l) ==
  [state |-> s, fence |-> n, attempts |-> a, worker |-> w, lease |-> l]

Pending == {"queued", "processing"}
Ended == {"succeeded", "failed"}

UploadAt(pc, i) == [pc |-> pc, answer |-> i]

\* retry: whether the failure that the worker will record may be tried again.
WorkerAt(pc, i, n, retry) == [pc |-> pc, import |-> i, fence |-> n, retry |-> retry]
IdleWorker == WorkerAt("idle", Nobody, 0, "no")

Init ==
  /\ import = [i \in Uploads |-> ImportRow("absent", 0, 0, Nobody, "none")]
  /\ objects = {}
  /\ upload = [q \in Uploads |-> UploadAt("new", Nobody)]
  /\ writers = Users
  /\ worker = [w \in Workers |-> IdleWorker]
  /\ applied = [i \in Uploads |-> 0]

-----------------------------------------------------------------------------
\* sourceScan: the import of this source and scan.
Existing(q) == {i \in Uploads : import[i].state # "absent" /\ ScanOf[i] = ScanOf[q]}

\* What the check of an upload finds: a replay is answered with the import that
\* exists if the content is the same and the replay window is open.
Answers(q) ==
  {UploadAt("refused", Nobody)} \cup
  {UploadAt("accepted", i) : i \in {j \in Existing(q) : ContentOf[j] = ContentOf[q]}}

Goes(q, at) == upload' = [upload EXCEPT ![q] = at]

\* The preflight transaction.
Preflight(q) ==
  /\ upload[q].pc = "new"
  /\ \/ ActorOf[q] \in writers /\ Existing(q) = {} /\ Goes(q, UploadAt("put", Nobody))
     \/ ActorOf[q] \in writers /\ Existing(q) # {} /\ \E a \in Answers(q) : Goes(q, a)
     \/ ActorOf[q] \notin writers /\ Goes(q, UploadAt("refused", Nobody))
  /\ UNCHANGED <<import, objects, writers, worker, applied>>

\* storage.put, without any lock.  A failed put may leave an object.
Put(q, stored, answered) ==
  /\ upload[q].pc = "put"
  /\ answered => stored
  /\ objects' = IF stored THEN objects \cup {q} ELSE objects
  /\ Goes(q, UploadAt(IF answered THEN "insert" ELSE "refused", Nobody))
  /\ UNCHANGED <<import, writers, worker, applied>>

\* Mutant: the final transaction relies on the checks of the preflight.
InsertUnchecked(q, committed, answered) ==
  /\ upload[q].pc = "insert"
  /\ answered => committed
  /\ import' = IF committed THEN [import EXCEPT ![q] = ImportRow("queued", 0, 0, Nobody, "none")]
               ELSE import
  /\ Goes(q, IF answered THEN UploadAt("accepted", q) ELSE UploadAt("refused", Nobody))
  /\ UNCHANGED <<objects, writers, worker, applied>>

\* The final transaction inserts the import.  committed and answered differ
\* when the answer of the commit is lost.
Insert(q, committed, answered) ==
  /\ upload[q].pc = "insert"
  /\ ActorOf[q] \in writers /\ Existing(q) = {}
  /\ answered => committed
  /\ import' = IF committed THEN [import EXCEPT ![q] = ImportRow("queued", 0, 0, Nobody, "none")]
               ELSE import
  /\ Goes(q, IF answered THEN UploadAt("accepted", q) ELSE UploadAt("refused", Nobody))
  /\ UNCHANGED <<objects, writers, worker, applied>>

\* The final transaction finds the import of a concurrent upload, or the role
\* is gone.
InsertAnswered(q) ==
  /\ upload[q].pc = "insert"
  /\ ActorOf[q] \notin writers \/ Existing(q) # {}
  /\ \E a \in (IF ActorOf[q] \in writers THEN Answers(q) ELSE {UploadAt("refused", Nobody)}) :
       Goes(q, a)
  /\ UNCHANGED <<import, objects, writers, worker, applied>>

\* The process that serves the request dies.
UploadLost(q) ==
  /\ upload[q].pc \in {"put", "insert"}
  /\ Goes(q, UploadAt("refused", Nobody))
  /\ UNCHANGED <<import, objects, writers, worker, applied>>

-----------------------------------------------------------------------------
\* Mutant: only the imports no worker has are failed.
RevokeQueued(u) ==
  /\ u \in writers
  /\ writers' = writers \ {u}
  /\ import' = [i \in Uploads |->
       IF ActorOf[i] = u /\ import[i].state = "queued"
       THEN ImportRow("failed", import[i].fence + 1, import[i].attempts, Nobody, "none")
       ELSE import[i]]
  /\ UNCHANGED <<objects, upload, worker, applied>>

\* changeUserRole to viewer: the pending imports of the user fail with it.
Revoke(u) ==
  /\ u \in writers
  /\ writers' = writers \ {u}
  /\ import' = [i \in Uploads |->
       IF ActorOf[i] = u /\ import[i].state \in Pending
       THEN ImportRow("failed", import[i].fence + 1, import[i].attempts, Nobody, "none")
       ELSE import[i]]
  /\ UNCHANGED <<objects, upload, worker, applied>>

Grant(u) ==
  /\ u \notin writers
  /\ writers' = writers \cup {u}
  /\ UNCHANGED <<import, objects, upload, worker, applied>>

-----------------------------------------------------------------------------
Exhausted(i) ==
  /\ import[i].attempts >= importAttempts
  /\ \/ import[i].state = "queued"
     \/ import[i].state = "processing" /\ import[i].lease = "expired"

\* Mutant: an expired lease is not claimed again.
ClaimableQueued(i) ==
  import[i].attempts < importAttempts /\ import[i].state = "queued"

Claimable(i) ==
  /\ import[i].attempts < importAttempts
  /\ \/ import[i].state = "queued"
     \/ import[i].state = "processing" /\ import[i].lease = "expired"

Becomes(w, at) == worker' = [worker EXCEPT ![w] = at]

\* The first statement of claimImport, committed on its own.
Sweep(w) ==
  /\ worker[w].pc = "idle"
  /\ Becomes(w, WorkerAt("claim", Nobody, 0, "no"))
  /\ import' = [i \in Uploads |->
       IF Exhausted(i)
       THEN ImportRow("failed", import[i].fence, import[i].attempts, Nobody, "none")
       ELSE import[i]]
  /\ UNCHANGED <<objects, upload, writers, applied>>

\* The second statement.
Claim(w, i) ==
  /\ worker[w].pc = "claim" /\ Claimable(i)
  /\ Becomes(w, WorkerAt("read", i, import[i].fence + 1, "yes"))
  /\ import' = [import EXCEPT ![i] =
       ImportRow("processing", import[i].fence + 1, import[i].attempts + 1, w, "live")]
  /\ UNCHANGED <<objects, upload, writers, applied>>

ClaimNothing(w) ==
  /\ worker[w].pc = "claim" /\ ~\E i \in Uploads : Claimable(i)
  /\ Becomes(w, IdleWorker)
  /\ UNCHANGED <<import, objects, upload, writers, applied>>

\* The row still carries the fence of this claim.
Fenced(w) ==
  LET r == import[worker[w].import] IN
  r.state = "processing" /\ r.worker = w /\ r.fence = worker[w].fence

\* authorizeImport
Mine(w) ==
  /\ ActorOf[worker[w].import] \in writers
  /\ Fenced(w) /\ import[worker[w].import].lease = "live"

At(w, pc, retry) == WorkerAt(pc, worker[w].import, worker[w].fence, retry)

\* readAuthorizedReport and Parse: a report that was read under the claim and
\* parsed, or a failure to record; retry is "no" when it cannot be repaired.
Read(w) ==
  /\ worker[w].pc = "read"
  /\ \/ Mine(w) /\ worker[w].import \in objects /\ Becomes(w, At(w, "reconcile", "yes"))
     \/ \E retry \in {"yes", "no"} : Becomes(w, At(w, "fail", retry))
  /\ UNCHANGED <<import, objects, upload, writers, applied>>

\* reconcile: effects and receipt in one transaction under the membership lock.
\* When the answer of the commit is lost the worker goes on as if it failed.
Commit(w, answered) ==
  LET i == worker[w].import IN
  /\ worker[w].pc = "reconcile" /\ Mine(w)
  /\ import' = [import EXCEPT ![i] =
       ImportRow("succeeded", import[i].fence, import[i].attempts, Nobody, "none")]
  /\ applied' = [applied EXCEPT ![i] = applied[i] + 1]
  /\ Becomes(w, IF answered THEN IdleWorker ELSE At(w, "fail", "yes"))
  /\ UNCHANGED <<objects, upload, writers>>

CommitFails(w) ==
  /\ worker[w].pc = "reconcile"
  /\ Becomes(w, At(w, "fail", "yes"))
  /\ UNCHANGED <<import, objects, upload, writers, applied>>

\* The claim or the authority of the actor is gone.  failRevokedImport fails
\* the row if it still carries the fence.
Denied(w) ==
  LET i == worker[w].import
      revoked == ActorOf[i] \notin writers
  IN
  /\ worker[w].pc \in {"read", "reconcile"} /\ ~Mine(w)
  /\ import' = IF revoked /\ Fenced(w)
               THEN [import EXCEPT ![i] =
                      ImportRow("failed", import[i].fence, import[i].attempts, Nobody, "none")]
               ELSE import
  /\ Becomes(w, IdleWorker)
  /\ UNCHANGED <<objects, upload, writers, applied>>

\* Record a failure; nothing is written without the lease.
Fail(w) ==
  LET i == worker[w].import
      again == worker[w].retry = "yes" /\ import[i].attempts < importAttempts
  IN
  /\ worker[w].pc = "fail"
  /\ import' = IF Fenced(w) /\ import[i].lease = "live"
               THEN [import EXCEPT ![i] = ImportRow(IF again THEN "queued" ELSE "failed",
                                            import[i].fence, import[i].attempts, Nobody, "none")]
               ELSE import
  /\ Becomes(w, IdleWorker)
  /\ UNCHANGED <<objects, upload, writers, applied>>

\* A clean shutdown gives the import back, whatever the lease.
Release(w) ==
  LET i == worker[w].import IN
  /\ worker[w].pc \in {"read", "reconcile", "fail"}
  /\ import' = IF Fenced(w)
               THEN [import EXCEPT ![i] =
                      ImportRow("queued", import[i].fence, import[i].attempts, Nobody, "none")]
               ELSE import
  /\ Becomes(w, IdleWorker)
  /\ UNCHANGED <<objects, upload, writers, applied>>

\* The process dies.  (Between the two statements of a claim it has nothing to
\* lose.)
WorkerCrash(w) ==
  /\ worker[w].pc \in {"read", "reconcile", "fail"}
  /\ Becomes(w, IdleWorker)
  /\ UNCHANGED <<import, objects, upload, writers, applied>>

ImportLeaseExpires(i) ==
  /\ import[i].state = "processing" /\ import[i].lease = "live"
  /\ import' = [import EXCEPT ![i] =
       ImportRow("processing", import[i].fence, import[i].attempts, import[i].worker, "expired")]
  /\ UNCHANGED <<objects, upload, writers, worker, applied>>

-----------------------------------------------------------------------------
Upload(q) ==
  \/ Preflight(q)
  \/ \E stored, answered \in BOOLEAN : Put(q, stored, answered)
  \/ \E committed, answered \in BOOLEAN : Insert(q, committed, answered)
  \/ InsertAnswered(q)
  \/ UploadLost(q)

Poll(w) == Sweep(w) \/ (\E i \in Uploads : Claim(w, i)) \/ ClaimNothing(w)

Process(w) ==
  \/ Read(w)
  \/ \E answered \in BOOLEAN : Commit(w, answered)
  \/ CommitFails(w)
  \/ Denied(w)
  \/ Fail(w)
  \/ Release(w)
  \/ WorkerCrash(w)

Next ==
  \/ \E q \in Uploads : Upload(q)
  \/ \E u \in Users : Revoke(u) \/ Grant(u)
  \/ \E w \in Workers : Poll(w) \/ Process(w)
  \/ \E i \in Uploads : ImportLeaseExpires(i)

Spec == Init /\ [][Next]_importVars

-----------------------------------------------------------------------------
ImportRows == [state : Pending \cup Ended \cup {"absent"}, fence : Nat, attempts : Nat,
               worker : Workers \cup {Nobody}, lease : {"none", "live", "expired"}]

Requests == [pc : {"new", "put", "insert", "accepted", "refused"}, answer : Uploads \cup {Nobody}]
Claims == [pc : {"idle", "claim", "read", "reconcile", "fail"}, import : Uploads \cup {Nobody},
           fence : Nat, retry : {"yes", "no"}]

\* Types of the table (its CHECK constraints), of requests and of workers.
TypeOK ==
  /\ import \in [Uploads -> ImportRows]
  /\ objects \subseteq Uploads
  /\ upload \in [Uploads -> Requests]
  /\ writers \subseteq Users
  /\ worker \in [Workers -> Claims]
  /\ applied \in [Uploads -> Nat]

\* An acknowledged upload names the only import of its scan, with its content,
\* and the original evidence of that import is stored.
AcknowledgedIsDurable ==
  \A q \in Uploads :
    upload[q].pc = "accepted" =>
      LET i == upload[q].answer IN
      Existing(q) = {i} /\ i \in objects /\ ContentOf[i] = ContentOf[q]

\* No import waits or runs for a user who may not write: revoking a role fails
\* the pending ones, and no upload inserts one behind the revocation.
PendingHasAuthority ==
  \A i \in Uploads : import[i].state \in Pending => ActorOf[i] \in writers

\* A report takes effect once if its import succeeded, and never otherwise,
\* whatever was claimed again, released, lost or answered late.
AppliedOnce ==
  \A i \in Uploads : applied[i] = IF import[i].state = "succeeded" THEN 1 ELSE 0

\* An ended import stays as it is: granting the role again does not resurrect
\* it, nor does a worker that comes back late.
EndIsFinal ==
  [][\A i \in Uploads : import[i].state \in Ended => import'[i] = import[i]]_importVars

\* Every accepted import ends, although workers may crash each time and answers
\* of the database may be lost.
EveryImportEnds ==
  []<>(\A i \in Uploads : import[i].state \notin Pending)
=============================================================================
