----------------------------- MODULE Collection -----------------------------
(***************************************************************************)
(* Source collection: workers read a repository's records from a provider  *)
(* (GitHub alerts, Azure DevOps artifacts), store the raw evidence in S3   *)
(* and then publish the collection, the repository's asset and the         *)
(* evidence metadata in one transaction.  A collected report can then be   *)
(* imported.                                                               *)
(*                                                                         *)
(* A collection is attempted once: a failed or abandoned attempt is not    *)
(* queued again.  What may happen under a running attempt is the point of  *)
(* the model: its lease expires, its source is changed, the requester      *)
(* loses the role, the name resolves to another repository.                *)
(*                                                                         *)
(* finalizeSource is two steps, the locks it takes and its commit, so that *)
(* what those locks exclude is visible; other transactions are one step.   *)
(***************************************************************************)
EXTENDS Naturals, FiniteSets

CONSTANTS
    Workers,        \* collection workers
    Sources,        \* source connections
    Repositories,   \* stable repository identities at the provider
    Pages,          \* limits.Pages: pages read after the repository itself
    MaxJobs,        \* bound: collections enqueued
    MaxChanges      \* bound: changes of the configuration

ASSUME CollectionConstants == MaxJobs \in Nat /\ Pages \in Nat

None == "none"
Jobs == 1..MaxJobs

VARIABLES
    member,     \* may the requester write in the workspace: "yes" or "no"
    source,     \* source_connections
    job,        \* source_collections, with the number of their records
    link,       \* source_repository_assets: the asset of a repository, or 0
    made,       \* assets created so far; they are numbered in that order
    objects,    \* evidence objects in the store: <<collection, ordinal>>
    worker,     \* process memory of the workers
    import,     \* the collection a running importSourceRecord reads, or 0
    imported    \* collections whose report was accepted as an import

rows == <<member, source, job, link, made>>
imports == <<import, imported>>
vars == <<member, source, job, link, made, objects, worker, import, imported>>

-----------------------------------------------------------------------------
(* Rows, locks and authority *)

NoJob == [state |-> "none", source |-> None, rev |-> 0, owner |-> None, fence |-> 0,
          lease |-> "none", repository |-> None, asset |-> 0, records |-> 0]

Finished == {"succeeded", "partial"}
Ended == Finished \cup {"failed", "blocked"}

Idle == [phase |-> "idle", job |-> 0, fence |-> 0, pinned |-> None, repository |-> None,
         records |-> 0, native |-> "none", put |-> 0, cause |-> "none", asset |-> 0]

\* The workers inside a finalizing transaction, and what they have locked.
Committing == {w \in Workers : worker[w].phase = "committing"}
SourceLocked(s) == \E w \in Committing : job[worker[w].job].source = s
RepositoryLocked(r) == \E w \in Committing : worker[w].repository = r
JobLocked(j) == \E w \in Committing : worker[w].job = j

\* sourceAuthority: the requester may still write, the source is enabled and is
\* the one the collection was queued for.
Authority(j) ==
    LET s == source[job[j].source] IN
    member = "yes" /\ s.enabled = "yes" /\ s.rev = job[j].rev

\* sourceLease: the worker still owns the collection.
Owns(w) ==
    LET r == job[worker[w].job] IN
    /\ r.state = "collecting"
    /\ r.owner = w /\ r.fence = worker[w].fence
    /\ r.lease = "live"

-----------------------------------------------------------------------------
(* Administration *)

\* Changed sources, a lost role and deleted assets; bounds the model.
Changes ==
    Cardinality({s \in Sources : source[s].rev > 1}) + (IF member = "no" THEN 1 ELSE 0)
    + made - Cardinality({r \in Repositories : link[r] # 0})

\* updateSource: any change of name, repository, token or state is a revision;
\* the pinned repository identity stays.  The row lock waits for a commit.
UpdateSource(s, enabled) ==
    /\ Changes < MaxChanges
    /\ ~SourceLocked(s)
    /\ source' = [source EXCEPT ![s].rev = @ + 1, ![s].enabled = enabled]
    /\ UNCHANGED <<member, job, link, made, objects, worker, imports>>

\* The requester is demoted; finalizeSource holds the membership row.
Demote ==
    /\ member = "yes" /\ Changes < MaxChanges
    /\ Committing = {}
    /\ member' = "no"
    /\ UNCHANGED <<source, job, link, made, objects, worker, imports>>

\* Deleting an asset deletes its link to the repository.
DeleteAsset(r) ==
    /\ link[r] # 0 /\ Changes < MaxChanges
    /\ \A w \in Committing : worker[w].asset # link[r]
    /\ link' = [link EXCEPT ![r] = 0]
    /\ UNCHANGED <<member, source, job, made, objects, worker, imports>>

\* A new idempotency key; a replay returns the stored collection.
EnqueueSourceCollection(j, s) ==
    /\ job[j].state = "none"
    /\ \A k \in Jobs : k < j => job[k].state # "none"
    /\ member = "yes" /\ source[s].enabled = "yes"
    /\ job' = [job EXCEPT ![j] = [NoJob EXCEPT !.state = "queued", !.source = s,
                                               !.rev = source[s].rev]]
    /\ UNCHANGED <<member, source, link, made, objects, worker, imports>>

-----------------------------------------------------------------------------
(* claimSource *)

\* Mutant: an abandoned collection is not claimed again.
ClaimableQueued ==
    {j \in Jobs : job[j].state = "queued" /\ ~SourceLocked(job[j].source)}

\* Queued, or abandoned; a row another transaction holds is skipped, and the
\* claim of a queued one waits for its source.
Claimable ==
    {j \in Jobs :
        \/ job[j].state = "queued" /\ ~SourceLocked(job[j].source)
        \/ job[j].state = "collecting" /\ job[j].lease = "expired" /\ ~JobLocked(j)}

\* What the claim does to the row it found.
ClaimJob(w, j) ==
    LET ends(state) == [job[j] EXCEPT !.state = state, !.owner = w, !.fence = @ + 1,
                                      !.lease = "none"] IN
    \/ /\ job[j].state = "collecting"
       /\ job' = [job EXCEPT ![j] = ends("failed")]
       /\ UNCHANGED worker
    \/ /\ job[j].state = "queued" /\ ~Authority(j)
       /\ job' = [job EXCEPT ![j] = ends("blocked")]
       /\ UNCHANGED worker
    \/ /\ job[j].state = "queued" /\ Authority(j)
       /\ job' = [job EXCEPT ![j] = [ends("collecting") EXCEPT !.lease = "live"]]
       /\ worker' = [worker EXCEPT ![w] =
            [Idle EXCEPT !.phase = "claimed", !.job = j, !.fence = job[j].fence + 1,
                         !.pinned = source[job[j].source].pinned]]

\* The oldest of them is claimed.
Claim(w) ==
    /\ worker[w].phase = "idle"
    /\ \E j \in Claimable : (\A k \in Claimable : j <= k) /\ ClaimJob(w, j)
    /\ UNCHANGED <<member, source, link, made, objects, imports>>

-----------------------------------------------------------------------------
(* ProcessNext, after the claim *)

\* The attempt is over; "cause" is the state it will be settled with.
Give(w, cause) ==
    worker' = [worker EXCEPT ![w] = [Idle EXCEPT !.phase = "denied", !.job = worker[w].job,
                                                 !.fence = worker[w].fence, !.cause = cause]]

\* sourceFailure: a lost authority blocks the collection, anything else fails it.
Denial(w) == IF Authority(worker[w].job) THEN "failed" ELSE "blocked"

\* The credential cannot be opened, or no collector serves the profile.
Unusable(w, cause) ==
    /\ worker[w].phase = "claimed"
    /\ Give(w, cause)
    /\ UNCHANGED <<rows, objects, imports>>

Start(w) ==
    /\ worker[w].phase = "claimed"
    /\ IF Authority(worker[w].job) /\ Owns(w)
       THEN worker' = [worker EXCEPT ![w].phase = "reading"]
       ELSE Give(w, Denial(w))
    /\ UNCHANGED <<rows, objects, imports>>

\* watchSource, every 100 ms while the provider is read and evidence is put.
Watch(w) ==
    /\ worker[w].phase \in {"reading", "putting"}
    /\ ~(Authority(worker[w].job) /\ Owns(w))
    /\ Give(w, Denial(w))
    /\ UNCHANGED <<rows, objects, imports>>

\* The repository itself is the first record.
ReadRepository(w, r) ==
    /\ worker[w].phase = "reading" /\ worker[w].records = 0 /\ worker[w].native = "none"
    /\ worker' = [worker EXCEPT ![w].repository = r, ![w].records = 1]
    /\ UNCHANGED <<rows, objects, imports>>

\* A page of records: the last one, or one with a link to the next.  The page
\* after the limit is not read and leaves the collection incomplete.
ReadPage(w, last) ==
    /\ worker[w].phase = "reading" /\ worker[w].records > 0 /\ worker[w].native = "none"
    /\ worker' = [worker EXCEPT
            ![w].records = @ + 1,
            ![w].native = IF last THEN "complete"
                          ELSE IF worker[w].records >= Pages THEN "error" ELSE "none"]
    /\ UNCHANGED <<rows, objects, imports>>

\* A request fails: what was read so far is the result.
ReadFails(w) ==
    /\ worker[w].phase = "reading" /\ worker[w].native = "none"
    /\ worker' = [worker EXCEPT ![w].native = "error"]
    /\ UNCHANGED <<rows, objects, imports>>

\* validateSourceResult, and the identity the source was pinned to at the claim.
Validate(w) ==
    LET m == worker[w] IN
    /\ m.phase = "reading" /\ m.native # "none"
    /\ IF m.records = 0 \/ m.pinned \notin {None, m.repository}
       THEN Give(w, "failed")
       ELSE worker' = [worker EXCEPT ![w].phase = "putting", ![w].pinned = None]
    /\ UNCHANGED <<rows, objects, imports>>

\* publishSourceRecords, one object at a time.
Put(w) ==
    LET m == worker[w] IN
    /\ m.phase = "putting" /\ m.put < m.records
    /\ objects' = objects \cup {<<m.job, m.put>>}
    /\ worker' = [worker EXCEPT ![w].put = @ + 1]
    /\ UNCHANGED <<rows, imports>>

\* The store does not acknowledge the object, which it may have kept.
PutFails(w, kept) ==
    LET m == worker[w] IN
    /\ m.phase = "putting" /\ m.put < m.records
    /\ objects' = IF kept THEN objects \cup {<<m.job, m.put>>} ELSE objects
    /\ Give(w, "failed")
    /\ UNCHANGED <<rows, imports>>

\* The shutdown of the worker ends the attempt wherever it is.
Shutdown(w) ==
    /\ worker[w].phase \in {"claimed", "reading", "putting", "committing"}
    /\ Give(w, "failed")
    /\ UNCHANGED <<rows, objects, imports>>

-----------------------------------------------------------------------------
(* finalizeSource *)

\* Mutant: finalizes while evidence is still being put.
FinalizeEarly(w) ==
    LET m == worker[w]
        s == job[m.job].source IN
    /\ m.phase = "putting"
    /\ ~SourceLocked(s) /\ ~RepositoryLocked(m.repository)
    /\ IF Authority(m.job) /\ Owns(w) /\ source[s].pinned \in {None, m.repository}
       THEN worker' = [worker EXCEPT ![w].phase = "committing", ![w].asset = link[m.repository]]
       ELSE Give(w, Denial(w))
    /\ UNCHANGED <<rows, objects, imports>>

\* The membership, source and collection rows and the identity of the
\* repository are locked and everything is checked again.
FinalizeBegin(w) ==
    LET m == worker[w]
        s == job[m.job].source IN
    /\ m.phase = "putting" /\ m.put = m.records
    /\ ~SourceLocked(s) /\ ~RepositoryLocked(m.repository)
    /\ IF Authority(m.job) /\ Owns(w) /\ source[s].pinned \in {None, m.repository}
       THEN worker' = [worker EXCEPT ![w].phase = "committing", ![w].asset = link[m.repository]]
       ELSE Give(w, Denial(w))
    /\ UNCHANGED <<rows, objects, imports>>

\* The asset is created when the repository has none, the identity pinned and
\* the records inserted; the lease must still be live.  An acknowledgement that
\* is lost sends the worker down the failure path of a committed collection.
FinalizeCommit(w, acknowledged) ==
    LET m == worker[w]
        asset == IF m.asset = 0 THEN made + 1 ELSE m.asset IN
    /\ m.phase = "committing" /\ Owns(w)
    /\ job' = [job EXCEPT ![m.job] =
            [@ EXCEPT !.state = IF m.native = "complete" THEN "succeeded" ELSE "partial",
                      !.lease = "none", !.repository = m.repository,
                      !.asset = asset, !.records = m.records]]
    /\ link' = [link EXCEPT ![m.repository] = asset]
    /\ made' = IF m.asset = 0 THEN made + 1 ELSE made
    /\ source' = [source EXCEPT ![job[m.job].source].pinned = m.repository]
    /\ IF acknowledged THEN worker' = [worker EXCEPT ![w] = Idle] ELSE Give(w, "failed")
    /\ UNCHANGED <<member, objects, imports>>

\* The lease ran out under the inserts: the transaction is rolled back.
FinalizeLost(w) ==
    /\ worker[w].phase = "committing" /\ ~Owns(w)
    /\ Give(w, "failed")
    /\ UNCHANGED <<rows, objects, imports>>

\* Mutant: settles by owner and fence alone.
SettleAnyState(w) ==
    LET m == worker[w]
        mine == job[m.job].owner = w /\ job[m.job].fence = m.fence IN
    /\ m.phase = "denied"
    /\ job' = IF mine THEN [job EXCEPT ![m.job] =
                        [@ EXCEPT !.state = m.cause, !.lease = "none", !.repository = None,
                                  !.asset = 0, !.records = 0]]
              ELSE job
    /\ worker' = [worker EXCEPT ![w] = Idle]
    /\ UNCHANGED <<member, source, link, made, objects, imports>>

\* settleSource; it needs the fence but not a live lease.
Settle(w) ==
    LET m == worker[w]
        mine == /\ job[m.job].state = "collecting"
                /\ job[m.job].owner = w /\ job[m.job].fence = m.fence IN
    /\ m.phase = "denied"
    /\ job' = IF mine THEN [job EXCEPT ![m.job].state = m.cause, ![m.job].lease = "none"]
              ELSE job
    /\ worker' = [worker EXCEPT ![w] = Idle]
    /\ UNCHANGED <<member, source, link, made, objects, imports>>

\* The settling transaction fails: the row is left to the lease.
SettleFails(w) ==
    /\ worker[w].phase = "denied"
    /\ worker' = [worker EXCEPT ![w] = Idle]
    /\ UNCHANGED <<rows, objects, imports>>

Crash(w) ==
    /\ worker[w].phase # "idle"
    /\ worker' = [worker EXCEPT ![w] = Idle]
    /\ UNCHANGED <<rows, objects, imports>>

LeaseExpires(j) ==
    /\ job[j].lease = "live"
    /\ job' = [job EXCEPT ![j].lease = "expired"]
    /\ UNCHANGED <<member, source, link, made, objects, worker, imports>>

-----------------------------------------------------------------------------
(* importSourceRecord *)

\* checkSourceImportAuthority: the report of a collection is imported only
\* while the collection could still be made, into an asset that still exists.
MayImport(j) ==
    /\ job[j].state \in Finished
    /\ Authority(j)
    /\ job[j].asset = link[job[j].repository]

ImportBegin(j) ==
    /\ import = 0
    /\ MayImport(j)
    /\ import' = j
    /\ UNCHANGED <<rows, objects, worker, imported>>

\* The evidence has been read; the import is accepted under the same authority.
ImportAccept ==
    /\ import # 0
    /\ imported' = IF MayImport(import) THEN imported \cup {import} ELSE imported
    /\ import' = 0
    /\ UNCHANGED <<rows, objects, worker>>

-----------------------------------------------------------------------------
Init ==
    /\ member = "yes"
    /\ source = [s \in Sources |-> [rev |-> 1, enabled |-> "yes", pinned |-> None]]
    /\ job = [j \in Jobs |-> NoJob]
    /\ link = [r \in Repositories |-> 0]
    /\ made = 0
    /\ objects = {}
    /\ worker = [w \in Workers |-> Idle]
    /\ import = 0 /\ imported = {}

Work(w) ==
    \/ Claim(w) \/ Start(w) \/ \E cause \in {"blocked", "failed"} : Unusable(w, cause)
    \/ \E r \in Repositories : ReadRepository(w, r)
    \/ \E last \in BOOLEAN : ReadPage(w, last)
    \/ ReadFails(w) \/ Validate(w) \/ Put(w) \/ \E kept \in BOOLEAN : PutFails(w, kept)
    \/ FinalizeBegin(w) \/ \E acknowledged \in BOOLEAN : FinalizeCommit(w, acknowledged)
    \/ FinalizeLost(w) \/ Settle(w) \/ SettleFails(w)

Administer ==
    \/ \E s \in Sources, enabled \in {"yes", "no"} : UpdateSource(s, enabled)
    \/ Demote
    \/ \E r \in Repositories : DeleteAsset(r)
    \/ \E j \in Jobs, s \in Sources : EnqueueSourceCollection(j, s)

Next ==
    \/ Administer
    \/ \E w \in Workers : Work(w) \/ Watch(w) \/ Shutdown(w) \/ Crash(w)
    \/ \E j \in Jobs : LeaseExpires(j) \/ ImportBegin(j)
    \/ ImportAccept

Spec == Init /\ [][Next]_vars

\* The workers keep polling, a provider request ends at the latest at the
\* client's timeout, and leases run out.
Fairness ==
    /\ \A w \in Workers : WF_vars(Work(w))
    /\ \A j \in Jobs : WF_vars(LeaseExpires(j))

FairSpec == Spec /\ Fairness

-----------------------------------------------------------------------------
(* Properties *)

\* A published collection has all of its evidence in the store and any other
\* shows none, wherever puts, commits and acknowledgements were lost.
EvidenceIsStored ==
    \A j \in Jobs :
        IF job[j].state \in Finished
        THEN /\ job[j].records > 0
             /\ \A n \in 0..(job[j].records - 1) : <<j, n>> \in objects
        ELSE job[j].records = 0

\* Nothing is published for a source that is disabled or changed, or for a
\* requester who lost the role, although the attempt began before; and what is
\* published or settled stays as it is.
PublishedUnderAuthority ==
    [][\A j \in Jobs :
        /\ job[j].state \notin Finished /\ job'[j].state \in Finished => Authority(j)
        /\ j \in imported' \ imported =>
            /\ Authority(j)
            /\ job[j].asset = link[job[j].repository]
        /\ job[j].state \in Ended => job'[j] = job[j]]_vars

\* Every collection that is queued ends, whoever crashes or waits for whose
\* locks: again and again there is a moment when none is pending.
EveryCollectionEnds ==
    []<>(\A j \in Jobs : job[j].state \notin {"queued", "collecting"})
=============================================================================
