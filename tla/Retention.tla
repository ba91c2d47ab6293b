------------------------------ MODULE Retention ------------------------------
(***************************************************************************)
(* What retention runs do to evidence: archiving and restoring observations,  *)
(* expiring raw reports and archived observations, and deleting archive       *)
(* objects that no row refers to.  Every operation is a series of             *)
(* transactions and storage calls; other workers, readers of the evidence,     *)
(* holds and decisions come in between.                                     *)
(*                                                                         *)
(* Resources are imports (raw report in the object store) and observations    *)
(* (data in the row, or in an archive object).  An archive key is derived      *)
(* from the content, so that an observation has one archive object and one    *)
(* entry in the publication ledger.  Protection (a hold, a decision, a note,  *)
(* an active correlation, an assessment) is one bit per resource.            *)
(*                                                                         *)
(* Storage calls run under withRetentionLease: the lease is renewed first,    *)
(* and the call may still land after the lease is lost.                     *)
(***************************************************************************)
EXTENDS RetentionRuns

CONSTANTS
  Observations,
  Imports,
  Previews,         \* what approved previews select: see ASSUME
  Histories,        \* what happened to the evidence before: see ASSUME
  MaxClaims,        \* bound on the claims of all runs together
  MaxProtections,   \* bound on protections placed
  MaxViews          \* bound on the readings of evidence

Resources == Observations \cup Imports

\* What a preview selects: an action and the resource it is for.
Selections ==
  ({"archive-history", "expire-archive", "delete-orphan"} \X Observations)
    \cup ({"expire-raw-report"} \X Imports)

Restoration(x) == <<<<"restore-archive", x>>>>

\* A run executes a preview or restores one observation.
ASSUME RetentionConstants ==
  /\ Observations \cap Imports = {}
  /\ \A m \in Previews : m \in Seq(Selections)
  /\ Previews \cup {Restoration(x) : x \in Observations} \subseteq Manifests
  /\ \A h \in Histories :
       \A x \in Resources : h[x] \in {"fresh", "archived", "expired", "lost", "damaged"}
  /\ {MaxClaims, MaxProtections, MaxViews} \subseteq Nat

VARIABLES
  step,         \* how far each worker is with its item, and the revisions it read
  bound,        \* the ledger revision that the items of a run were approved for
  row,          \* evidence columns of the observations and imports tables
  object,       \* the object of a resource: "absent", "intact" or "corrupt"
  publication,  \* the archive_publications ledger
  protected,    \* resources with some reason for protection
  view,         \* what a reader of evidence has in memory
  late,         \* resources where a call landed too late, see InForce
  damaged,      \* resources whose object the store lost or damaged
  placed,       \* protections placed, up to MaxProtections
  claims,       \* claims, up to MaxClaims
  views         \* readings, up to MaxViews

evidenceVars ==
  <<step, bound, row, object, publication, protected, view, late, damaged, placed, claims, views>>

\* What no step of a worker on its item touches.
asideVars == <<bound, protected, view, damaged, placed, claims, views>>

vars == <<runVars, evidenceVars>>

-----------------------------------------------------------------------------
\* The availability of evidence that is held as an object.
Stored(x) == IF x \in Observations THEN "archived" ELSE "available"

NoView == [resource |-> "none", revision |-> 0]

EvidenceRow(a, n, t, archive) ==
  [availability |-> a, revision |-> n, transition |-> t, archive |-> archive]

Entry(s, n, age) == [state |-> s, revision |-> n, age |-> age]

StepAt(pc, n, entry) == [pc |-> pc, revision |-> n, publication |-> entry]
NoStep == StepAt("none", 0, 0)

\* The evidence of a resource after its history.  "lost" and "damaged" happened
\* to a stored object, and nobody has noticed yet.
FirstRow(x, h) ==
  EvidenceRow(IF h = "fresh" THEN "available" ELSE IF h = "expired" THEN "expired" ELSE Stored(x),
              1, "none", IF x \in Observations /\ h # "fresh" THEN "referenced" ELSE "none")

FirstObject(x, h) ==
  IF h = "damaged" THEN "corrupt"
  ELSE IF h = "archived" \/ (h = "fresh" /\ x \in Imports) THEN "intact" ELSE "absent"

FirstPublication(h) ==
  Entry(IF h = "fresh" THEN "none" ELSE IF h = "expired" THEN "deleted" ELSE "referenced",
        0, "fresh")

Init ==
  /\ RunsInit
  /\ step = [w \in Workers |-> NoStep]
  /\ bound = [r \in Runs |-> <<>>]
  /\ \E h \in Histories :
       /\ row = [x \in Resources |-> FirstRow(x, h[x])]
       /\ object = [x \in Resources |-> FirstObject(x, h[x])]
       /\ publication = [x \in Observations |-> FirstPublication(h[x])]
       /\ damaged = {x \in Resources : h[x] \in {"lost", "damaged"}}
  /\ protected = {}
  /\ view = NoView
  /\ late = {}
  /\ placed = 0
  /\ claims = 0
  /\ views = 0

-----------------------------------------------------------------------------
\* buildRetentionSnapshot, as approveRetentionPreview and the preview before it
\* see it: what each class of items is selected by.  The time from approval to
\* execution is the time the run may wait in the queue.
HotHistory(x) == row[x].availability = "available"
RawReport(x) == row[x].availability = "available"
ArchivedEvidence(x) == row[x].availability = "archived"
OrphanArchive(x) == publication[x].state \in {"publishing", "orphan"} /\ publication[x].age = "old"

Eligible(action, x) ==
  CASE action = "archive-history"   -> HotHistory(x)
    [] action = "expire-raw-report" -> RawReport(x)
    [] action = "expire-archive"    -> ArchivedEvidence(x)
    [] action = "delete-orphan"     -> OrphanArchive(x)

QueueExecution(r, m) ==
  /\ \A i \in DOMAIN m : Eligible(m[i][1], m[i][2])
  /\ Enqueue(r, m)
  /\ bound' = [bound EXCEPT ![r] = [i \in DOMAIN m |->
       IF m[i][1] = "delete-orphan" THEN publication[m[i][2]].revision ELSE 0]]
  /\ UNCHANGED <<step, row, object, publication, protected, view, late, damaged, placed, claims, views>>

QueueRestore(r, x) ==
  /\ row[x].availability = "archived"
  /\ row[x].transition = "none"
  /\ Enqueue(r, Restoration(x))
  /\ UNCHANGED evidenceVars

-----------------------------------------------------------------------------
\* observationProtection and importProtection: whether there is any reason.
Protection(x) == x \in protected

\* The steps of a worker.
Target(w) == ItemOf(w).resource

At(w, pc) == task[w].pc = "start" /\ step[w].pc = pc

\* processRetentionItem begins with an action of its item.
Starts(w, actions) == At(w, "none") /\ ItemOf(w).action \in actions

\* It goes on: where, and with which revisions of the row and of the ledger.
Continue(w, pc, revision, entry) ==
  /\ step' = [step EXCEPT ![w] = StepAt(pc, revision, entry)]
  /\ UNCHANGED runVars

Goto(w, pc) == Continue(w, pc, step[w].revision, step[w].publication)

\* It returns an outcome, for finishRetentionItem to record.
Conclude(w, s) == Process(w, s) /\ step' = [step EXCEPT ![w] = NoStep]

\* The update of a row's availability that all paths share.
Marked(x, s) ==
  [row EXCEPT ![x] = EvidenceRow(s, @.revision + 1, "none", @.archive)]

\* The update that leaves the transition as it is.
Labelled(x, s) ==
  [row EXCEPT ![x] = EvidenceRow(s, @.revision + 1, @.transition, @.archive)]

Published(x, s) ==
  [publication EXCEPT ![x] = Entry(s, @.revision + 1, "fresh")]

\* deleteOrphanArchive keeps the publication row locked around its storage calls.
Locked(x) ==
  \E w \in Workers : (At(w, "orphan") \/ At(w, "orphaned")) /\ Target(w) = x

\* Whether a step of a worker lands while what it rests on still holds: the
\* claim, the row and the ledger entry of a put, the transition of a delete, the
\* object that was seen before the transition is cleared.
InForce(w, x) ==
  /\ lockRetentionRun(w)
  /\ At(w, "put") => /\ publication[x].revision = step[w].publication
                     /\ row[x].revision = step[w].revision
  /\ At(w, "delete") => row[x].transition = "expiring"
  /\ At(w, "clear") => object[x] # "absent"

Landed(w, x) == late' = IF InForce(w, x) THEN late ELSE late \cup {x}

Missing(x) == IF object[x] = "absent" THEN "missing" ELSE "corrupt"

-----------------------------------------------------------------------------
\* archiveObservation, archiveAuditEvent
StartArchive(w) ==
  LET x == Target(w)
  IN /\ Starts(w, {"archive-history"})
     /\ \/ /\ row[x].availability = "archived"
           /\ Conclude(w, "succeeded")
        \/ /\ row[x].availability \notin {"archived", "available"}
           /\ Conclude(w, "protected")
        \/ /\ row[x].availability = "available"
           /\ IF Protection(x)
              THEN Conclude(w, "protected")
              ELSE Continue(w, "begin", row[x].revision, 0)
     /\ UNCHANGED <<asideVars, row, object, publication, late>>

\* beginArchivePublication, and the renewal of the lease for putArchive.
Begin(w) ==
  LET x == Target(w)
  IN /\ At(w, "begin") /\ lockRetentionRun(w) /\ ~Locked(x)
     /\ publication' = Published(x, "publishing")
     /\ Continue(w, "put", step[w].revision, publication[x].revision + 1)
     /\ UNCHANGED <<asideVars, row, object, late>>

\* putArchive writes the object and reads it back.
Put(w) ==
  LET x == Target(w)
  IN /\ At(w, "put")
     /\ object' = [object EXCEPT ![x] = "intact"]
     /\ Landed(w, x)
     /\ Goto(w, "commit")
     /\ UNCHANGED <<asideVars, row, publication>>

\* Mutant: the ledger entry of a write that was not used is closed.
CommitForgetsOrphan(w) ==
  LET x == Target(w)
  IN /\ At(w, "commit") /\ lockRetentionRun(w) /\ ~Locked(x)
     /\ publication[x].revision = step[w].publication
     /\ \/ /\ Protection(x)
           /\ publication' = Published(x, "deleted")
           /\ Conclude(w, "protected")
           /\ UNCHANGED row
        \/ /\ ~Protection(x)
           /\ row[x].revision = step[w].revision
           /\ row[x].availability = "available"
           /\ row' = [row EXCEPT ![x] = EvidenceRow("archived", @.revision + 1, "none", "referenced")]
           /\ publication' = Published(x, "referenced")
           /\ Conclude(w, "succeeded")
     /\ UNCHANGED <<asideVars, object, late>>

\* The transaction that makes the row refer to the archive.
CommitArchive(w) ==
  LET x == Target(w)
  IN /\ At(w, "commit") /\ lockRetentionRun(w) /\ ~Locked(x)
     /\ publication[x].revision = step[w].publication
     /\ \/ /\ Protection(x)
           /\ publication' = Published(x, "orphan")
           /\ Conclude(w, "protected")
           /\ UNCHANGED row
        \/ /\ ~Protection(x)
           /\ row[x].revision = step[w].revision
           /\ row[x].availability = "available"
           /\ row' = [row EXCEPT ![x] = EvidenceRow("archived", @.revision + 1, "none", "referenced")]
           /\ publication' = Published(x, "referenced")
           /\ Conclude(w, "succeeded")
     /\ UNCHANGED <<asideVars, object, late>>

-----------------------------------------------------------------------------
\* expireRawReport and expireObservationArchive.  With the transition already
\* recorded, the first look at the protection decides as the one before the
\* delete does (Recheck).
StartExpire(w) ==
  LET x == Target(w)
      a == row[x].availability
  IN /\ Starts(w, {"expire-raw-report", "expire-archive"})
     /\ \/ /\ a = "expired"
           /\ Conclude(w, "succeeded")
        \/ /\ a \in {"missing", "corrupt"}
           /\ Conclude(w, a)
        \/ /\ a \notin {"expired", "missing", "corrupt", Stored(x)}
           /\ Conclude(w, "protected")
        \/ /\ a = Stored(x)
           /\ IF row[x].transition = "none" /\ Protection(x)
              THEN Conclude(w, "protected")
              ELSE Continue(w, IF row[x].transition = "none" THEN "read" ELSE "recheck",
                            row[x].revision, 0)
     /\ UNCHANGED <<asideVars, row, object, publication, late>>

\* The object must be intact before the expiry begins.  An import that is no
\* longer at the revision read is left to the next claim; for an observation
\* the update changes no row and the item still ends.
ReadObject(w) ==
  LET x == Target(w)
  IN /\ At(w, "read") /\ lockRetentionRun(w)
     /\ IF object[x] = "intact"
        THEN Goto(w, "mark") /\ UNCHANGED row
        ELSE /\ x \in Imports => row[x].revision = step[w].revision
             /\ row' = IF row[x].revision = step[w].revision THEN Marked(x, Missing(x)) ELSE row
             /\ Conclude(w, Missing(x))
     /\ UNCHANGED <<asideVars, object, publication, late>>

Mark(w) ==
  LET x == Target(w)
  IN /\ At(w, "mark") /\ lockRetentionRun(w)
     /\ \/ /\ Protection(x)
           /\ Conclude(w, "protected")
           /\ UNCHANGED row
        \/ /\ ~Protection(x)
           /\ row[x].revision = step[w].revision
           /\ row[x].availability = Stored(x)
           /\ row[x].transition = "none"
           /\ row' = [row EXCEPT ![x] =
                EvidenceRow(@.availability, @.revision + 1, "expiring", @.archive)]
           /\ Continue(w, "recheck", step[w].revision + 1, 0)
     /\ UNCHANGED <<asideVars, object, publication, late>>

\* Mutant: a transition means that the object is deleted.
RecheckTrustsTransition(w) ==
  /\ At(w, "recheck") /\ lockRetentionRun(w)
  /\ Goto(w, IF Protection(Target(w)) THEN "expire" ELSE "delete")
  /\ UNCHANGED <<asideVars, row, object, publication, late>>

\* The last look at the protection, and the renewal of the lease for what comes
\* next: the delete, or a look for the object.
Recheck(w) ==
  /\ At(w, "recheck") /\ lockRetentionRun(w)
  /\ Goto(w, IF Protection(Target(w)) THEN "presence" ELSE "delete")
  /\ UNCHANGED <<asideVars, row, object, publication, late>>

\* rawEvidencePresent and archiveEvidencePresent: a protected object that is
\* gone was deleted by an earlier claim, and the expiry goes on.
Presence(w) ==
  /\ At(w, "presence") /\ lockRetentionRun(w)
  /\ Goto(w, IF object[Target(w)] = "absent" THEN "expire" ELSE "clear")
  /\ UNCHANGED <<asideVars, row, object, publication, late>>

\* clearImportTransition and clearObservationTransition
ClearTransition(w) ==
  LET x == Target(w)
  IN /\ At(w, "clear") /\ lockRetentionRun(w)
     /\ row' = IF row[x].transition = "expiring"
               THEN Marked(x, row[x].availability) ELSE row
     /\ Landed(w, x)
     /\ Conclude(w, "protected")
     /\ UNCHANGED <<asideVars, object, publication>>

DeleteObject(w) ==
  LET x == Target(w)
  IN /\ At(w, "delete")
     /\ object' = [object EXCEPT ![x] = "absent"]
     /\ Landed(w, x)
     /\ Goto(w, "expire")
     /\ UNCHANGED <<asideVars, row, publication>>

Expire(w) ==
  LET x == Target(w)
  IN /\ At(w, "expire") /\ lockRetentionRun(w)
     /\ row[x].revision = step[w].revision
     /\ row[x].transition = "expiring"
     /\ row' = Marked(x, "expired")
     /\ IF x \in Observations /\ publication[x].state # "deleted"
        THEN ~Locked(x) /\ publication' = Published(x, "deleted")
        ELSE UNCHANGED publication
     /\ Conclude(w, "succeeded")
     /\ UNCHANGED <<asideVars, object, late>>

-----------------------------------------------------------------------------
\* restoreObservation
StartRestore(w) ==
  LET x == Target(w)
  IN /\ Starts(w, {"restore-archive"})
     /\ \/ /\ row[x].availability = "available"
           /\ Conclude(w, "succeeded")
        \/ /\ row[x].availability = "expired" \/ row[x].transition # "none"
           /\ Conclude(w, "protected")
        \/ /\ row[x].availability \in {"archived", "missing", "corrupt"}
           /\ row[x].transition = "none"
           /\ Continue(w, "fetch", row[x].revision, 0)
     /\ UNCHANGED <<asideVars, row, object, publication, late>>

Fetch(w) ==
  LET x == Target(w)
  IN /\ At(w, "fetch") /\ lockRetentionRun(w)
     /\ IF object[x] = "intact"
        THEN Goto(w, "restore") /\ UNCHANGED row
        ELSE /\ row' = IF row[x].revision = step[w].revision
                       THEN Labelled(x, Missing(x)) ELSE row
             /\ Conclude(w, Missing(x))
     /\ UNCHANGED <<asideVars, object, publication, late>>

Restore(w) ==
  LET x == Target(w)
  IN /\ At(w, "restore") /\ lockRetentionRun(w)
     /\ row[x].revision = step[w].revision
     /\ row[x].availability \in {"archived", "missing", "corrupt"}
     /\ row' = Marked(x, "available")
     /\ Conclude(w, "succeeded")
     /\ UNCHANGED <<asideVars, object, publication, late>>

-----------------------------------------------------------------------------
\* Mutant: the approved preview is trusted, nothing is looked at again.
OrphanTrustsPreview(w) ==
  /\ Starts(w, {"delete-orphan"})
  /\ lockRetentionRun(w) /\ ~Locked(Target(w))
  /\ Goto(w, "orphan")
  /\ UNCHANGED <<asideVars, row, object, publication, late>>

\* deleteOrphanArchive: one transaction, with the storage calls inside.
OrphanCheck(w) ==
  LET x == Target(w)
  IN /\ Starts(w, {"delete-orphan"})
     /\ lockRetentionRun(w) /\ ~Locked(x)
     /\ IF \/ publication[x].revision # bound[task[w].run][task[w].item]
           \/ publication[x].state \notin {"publishing", "orphan"}
           \/ publication[x].age = "fresh"
        THEN Conclude(w, "protected") /\ UNCHANGED publication
        ELSE IF row[x].archive = "referenced"
        THEN Conclude(w, "protected") /\ publication' = Published(x, "referenced")
        ELSE Goto(w, "orphan") /\ UNCHANGED publication
     /\ UNCHANGED <<asideVars, row, object, late>>

OrphanDelete(w) ==
  /\ At(w, "orphan")
  /\ object' = [object EXCEPT ![Target(w)] = "absent"]
  /\ Goto(w, "orphaned")
  /\ UNCHANGED <<asideVars, row, publication, late>>

OrphanFinish(w) ==
  /\ At(w, "orphaned")
  /\ publication' = Published(Target(w), "deleted")
  /\ Conclude(w, "succeeded")
  /\ UNCHANGED <<asideVars, row, object, late>>

-----------------------------------------------------------------------------
\* Mutant: an expiry that is under way does not stop a reader.
ViewDuringExpiry(x) ==
  /\ view = NoView
  /\ views < MaxViews
  /\ views' = views + 1
  /\ row[x].availability # "expired"
  /\ x \in Observations => row[x].availability # "available"
  /\ view' = [resource |-> x, revision |-> row[x].revision]
  /\ UNCHANGED <<runVars, step, bound, row, object, publication, protected, late, damaged, placed, claims>>

\* importResource and observationEvidence: the row, later the object and what
\* was found out about it.
View(x) ==
  /\ view = NoView
  /\ views < MaxViews
  /\ views' = views + 1
  /\ row[x].availability # "expired"
  /\ row[x].transition = "none"
  /\ x \in Observations => row[x].availability # "available"
  /\ view' = [resource |-> x, revision |-> row[x].revision]
  /\ UNCHANGED <<runVars, step, bound, row, object, publication, protected, late, damaged, placed, claims>>

ViewObject(x) ==
  /\ view.resource = x
  /\ row' = IF row[x].revision # view.revision THEN row
            ELSE IF object[x] # "intact"
            THEN Labelled(x, Missing(x))
            ELSE IF row[x].availability \in {"missing", "corrupt"}
            THEN Labelled(x, Stored(x))
            ELSE row
  /\ view' = NoView
  /\ UNCHANGED <<runVars, step, bound, object, publication, protected, late, damaged, placed, claims, views>>

\* createRetentionHold, and every decision, note or assessment that protects.
\* Protection of expired evidence makes no difference any more and is left out.
Protect(x) ==
  /\ x \notin protected
  /\ row[x].availability # "expired"
  /\ placed < MaxProtections
  /\ placed' = placed + 1
  /\ protected' = protected \cup {x}
  /\ UNCHANGED <<runVars, step, bound, row, object, publication, view, late, damaged, claims, views>>

Unprotect(x) ==
  /\ x \in protected
  /\ protected' = protected \ {x}
  /\ UNCHANGED <<runVars, step, bound, row, object, publication, view, late, damaged, placed, claims, views>>

\* orphanArchiveGrace, a day, has passed since the ledger entry changed.  It
\* outlasts storage calls and leases (five minutes at most): no put for the
\* object is under way, and no claim in force waits to commit one.
Age(x) ==
  /\ publication[x].state # "none"
  /\ publication[x].age = "fresh"
  /\ \A w \in Workers : (At(w, "put") \/ At(w, "commit")) /\ Target(w) = x =>
       At(w, "commit") /\ ~lockRetentionRun(w)
  /\ publication' = [publication EXCEPT ![x] = Entry(@.state, @.revision, "old")]
  /\ UNCHANGED <<runVars, step, bound, row, object, protected, view, late, damaged, placed, claims, views>>

-----------------------------------------------------------------------------
Work(w) ==
  \/ StartArchive(w) \/ Begin(w) \/ Put(w) \/ CommitArchive(w)
  \/ StartExpire(w) \/ ReadObject(w) \/ Mark(w) \/ Recheck(w)
  \/ Presence(w) \/ ClearTransition(w) \/ DeleteObject(w) \/ Expire(w)
  \/ StartRestore(w) \/ Fetch(w) \/ Restore(w)
  \/ OrphanCheck(w) \/ OrphanDelete(w) \/ OrphanFinish(w)

ClaimRun(w, r) ==
  /\ claims < MaxClaims
  /\ claims' = claims + 1
  /\ Claim(w, r)
  /\ UNCHANGED <<step, bound, row, object, publication, protected, view, late, damaged, placed, views>>

ExhaustRun(w, r) == Exhaust(w, r) /\ UNCHANGED evidenceVars

Leave(w) ==
  /\ FinishItem(w) \/ RetryItem(w) \/ Abandon(w)
  /\ step' = [step EXCEPT ![w] = NoStep]
  /\ UNCHANGED <<asideVars, row, object, publication, late>>

Next ==
  \/ \E w \in Workers : Work(w) \/ Leave(w) \/ \E r \in Runs : ClaimRun(w, r) \/ ExhaustRun(w, r)
  \/ \E r \in Runs :
       \/ \E m \in Previews : QueueExecution(r, m)
       \/ \E x \in Observations : QueueRestore(r, x)
       \/ LeaseEnds(r) /\ UNCHANGED evidenceVars
  \/ \E x \in Resources :
       View(x) \/ ViewObject(x) \/ Protect(x) \/ Unprotect(x)
  \/ \E x \in Observations : Age(x)

Spec == Init /\ [][Next]_vars

-----------------------------------------------------------------------------

Undisturbed(x) == x \notin late \cup damaged

\* "archived: normalized observation bytes are retrievable": evidence that its
\* row says is stored is in the object store, whatever archiving, expiry,
\* orphan cleanup and restoration run at the same time.
StoredIsReadable ==
  \A x \in Resources :
    row[x].availability = Stored(x) /\ row[x].transition = "none" /\ Undisturbed(x)
      => object[x] = "intact"

\* "without relabeling it as accidental missing evidence": a row is marked
\* missing or corrupt only after its object was lost or damaged, or a delete
\* landed too late (MissingWasLost is about those), never because a reader or
\* a worker met an expiry half way.
MissingIsAccident ==
  \A x \in Resources :
    row[x].availability \in {"missing", "corrupt"} => ~Undisturbed(x)

\* "expired: an approved retention operation removed the selected bytes": no
\* object is left behind an expired row.
ExpiredIsGone ==
  \A x \in Resources :
    row[x].availability = "expired" /\ Undisturbed(x) => object[x] = "absent"

\* The publication ledger leaves no orphan gap: an archive object no row
\* refers to is offered by some later preview as delete-orphan.
LedgerKnowsOrphans ==
  \A x \in Observations :
    object[x] # "absent" /\ row[x].archive = "none" /\ Undisturbed(x)
      => publication[x].state \in {"publishing", "orphan"}

\* Work on evidence implements the queue of runs: whatever happens between claim
\* and outcome, its steps are steps of the queue or none (proved in
\* RetentionProofs).
RunsAsQueued == RunsSpec

\* "missing: the referenced object is unexpectedly absent": evidence whose
\* object nothing but retention touched is never marked missing.
MissingWasLost ==
  \A x \in Resources :
    row[x].availability \in {"missing", "corrupt"} => x \in damaged
=============================================================================
