--------------------------- MODULE IngestionProofs ---------------------------
(***************************************************************************)
(* Imports: the queue applies a report once, under the authority of its       *)
(* actor.  Reconcile: the authority of the source projection, for any reports *)
(* in any order.  Ingestion: the projection shows the imports that succeeded. *)
(***************************************************************************)
EXTENDS Ingestion, TLAPS

\* A worker that is past its claim has an import in memory.
Holding == \A w \in Workers :
  worker[w].pc \in {"read", "reconcile", "fail"} => worker[w].import \in Uploads

\* Rows and requests about to insert one have their report stored.
Stored ==
  /\ \A q \in Uploads : upload[q].pc = "insert" => q \in objects
  /\ \A i \in Uploads : import[i].state # "absent" => i \in objects

OnePerScan == \A i, j \in Uploads :
  import[i].state # "absent" /\ import[j].state # "absent" /\ ScanOf[i] = ScanOf[j] => i = j

Answered == \A q \in Uploads :
  upload[q].pc = "accepted" =>
    /\ upload[q].answer \in Uploads /\ import[upload[q].answer].state # "absent"
    /\ ScanOf[upload[q].answer] = ScanOf[q] /\ ContentOf[upload[q].answer] = ContentOf[q]

Sound == TypeOK /\ Holding
Durable == Stored /\ OnePerScan /\ Answered
Applied == PendingHasAuthority /\ AppliedOnce

-----------------------------------------------------------------------------
\* What one step may do to the row of an import.
RowKept(i) == import'[i] = import[i] /\ applied'[i] = applied[i]
RowInserted(i) ==
  /\ import[i].state = "absent" /\ import'[i].state = "queued" /\ ActorOf[i] \in writers
  /\ applied'[i] = applied[i] /\ upload[i].pc = "insert" /\ Existing(i) = {}
  /\ \A j \in Uploads \ {i} : import'[j] = import[j]
RowMoves(i) ==
  /\ import[i].state \in Pending /\ import'[i].state \in Pending \cup {"failed"}
  /\ applied'[i] = applied[i]
RowSucceeds(i) ==
  /\ import[i].state \in Pending /\ import'[i].state = "succeeded"
  /\ applied'[i] = applied[i] + 1

RowSteps == \A i \in Uploads : RowKept(i) \/ RowInserted(i) \/ RowMoves(i) \/ RowSucceeds(i)
-----------------------------------------------------------------------------
LEMMA RowTyped ==
  ASSUME NEW s \in Pending \cup Ended \cup {"absent"}, NEW n \in Nat, NEW a \in Nat,
         NEW w \in Workers \cup {Nobody}, NEW l \in {"none", "live", "expired"}
  PROVE  /\ ImportRow(s, n, a, w, l) \in ImportRows
         /\ ImportRow(s, n, a, w, l).state = s
BY Zenon DEF ImportRow, ImportRows

LEMMA ClaimTyped ==
  ASSUME NEW pc \in {"idle", "claim", "read", "reconcile", "fail"}, NEW i \in Uploads \cup {Nobody},
         NEW n \in Nat, NEW retry \in {"yes", "no"}
  PROVE  /\ WorkerAt(pc, i, n, retry) \in Claims
         /\ WorkerAt(pc, i, n, retry).pc = pc /\ WorkerAt(pc, i, n, retry).import = i
BY Zenon DEF WorkerAt, Claims

LEMMA RequestTyped ==
  ASSUME NEW pc \in {"new", "put", "insert", "accepted", "refused"}, NEW i \in Uploads \cup {Nobody}
  PROVE  /\ UploadAt(pc, i) \in Requests
         /\ UploadAt(pc, i).pc = pc /\ UploadAt(pc, i).answer = i
BY Zenon DEF UploadAt, Requests

\* A worker that moves on keeps its claim, or has none.
LEMMA WorkerMoves ==
  ASSUME Sound, NEW w \in Workers, NEW at \in Claims, Becomes(w, at),
         at.pc \in {"read", "reconcile", "fail"} => at.import \in Uploads
  PROVE  worker' \in [Workers -> Claims] /\ Holding'
BY Zenon DEF Sound, TypeOK, Becomes, Holding

LEMMA InitSound == Init => Sound /\ Durable /\ Applied
<1> SUFFICES ASSUME Init PROVE Sound /\ Durable /\ Applied
  BY Zenon
<1>1. TypeOK
  BY Zenon, RowTyped, ClaimTyped, RequestTyped DEF Init, TypeOK, IdleWorker
<1>2. Holding
  BY Zenon, ClaimTyped DEF Init, Holding, IdleWorker
<1>3. Durable /\ Applied
  BY Zenon DEF Init, Durable, Applied, Stored, OnePerScan, Answered, PendingHasAuthority, AppliedOnce,
         ImportRow, UploadAt, Pending
<1> QED
  BY Zenon, <1>1, <1>2, <1>3 DEF Sound
-----------------------------------------------------------------------------
\* The steps of an upload.
LEMMA UploadSound ==
  ASSUME Sound, NEW q \in Uploads, Upload(q)
  PROVE  Sound' /\ RowSteps
<1>1. worker' = worker /\ writers' = writers /\ applied' = applied
  BY Zenon DEF Upload, Preflight, Put, Insert, InsertAnswered, UploadLost
<1>2. Holding'
  BY Zenon, <1>1 DEF Sound, Holding
<1>3. objects' \subseteq Uploads
  BY Zenon DEF Sound, TypeOK, Upload, Preflight, Put, Insert, InsertAnswered, UploadLost
<1>4. Existing(q) \subseteq Uploads
  BY Zenon DEF Existing
<1>5. Answers(q) \subseteq Requests
  BY <1>4, RequestTyped DEF Answers
<1>6. upload' \in [Uploads -> Requests]
  <2>1. \A at \in Requests : Goes(q, at) => upload' \in [Uploads -> Requests]
    BY Zenon DEF Goes, Sound, TypeOK
  <2>2. \E at \in Requests : Goes(q, at)
    BY <1>5, RequestTyped DEF Upload, Preflight, Put, Insert, InsertAnswered, UploadLost
  <2> QED
    BY Zenon, <2>1, <2>2
<1>7. import' = import \/ (\E c, a \in BOOLEAN : Insert(q, c, a))
  BY Zenon DEF Upload, Preflight, Put, InsertAnswered, UploadLost
<1>8. CASE import' = import
  BY Zenon, <1>1, <1>2, <1>3, <1>6, <1>8 DEF Sound, TypeOK, RowSteps, RowKept
<1>9. CASE import' # import
  <2>1. PICK c, a \in BOOLEAN : Insert(q, c, a)
    BY Zenon, <1>7, <1>9
  <2>2. import' = [import EXCEPT ![q] = ImportRow("queued", 0, 0, Nobody, "none")]
    BY Zenon, <2>1, <1>9 DEF Insert
  <2>3. ImportRow("queued", 0, 0, Nobody, "none") \in ImportRows
        /\ ImportRow("queued", 0, 0, Nobody, "none").state = "queued"
    BY RowTyped DEF Pending
  <2>4. import' \in [Uploads -> ImportRows]
    BY Zenon, <2>2, <2>3 DEF Sound, TypeOK
  <2>5. import[q].state = "absent"
    BY Zenon, <2>1 DEF Insert, Existing
  <2>6. RowInserted(q)
    BY Zenon, <2>1, <2>2, <2>3, <2>5, <1>1 DEF Insert, RowInserted, Sound, TypeOK
  <2>7. \A i \in Uploads \ {q} : RowKept(i)
    BY Zenon, <2>2, <1>1 DEF RowKept, Sound, TypeOK
  <2> QED
    BY Zenon, <2>4, <2>6, <2>7, <1>1, <1>2, <1>3, <1>6 DEF Sound, TypeOK, RowSteps
<1> QED
  BY Zenon, <1>8, <1>9
-----------------------------------------------------------------------------
\* The steps that change one row without applying a report.
LEMMA RowMove ==
  ASSUME Sound, NEW i \in Uploads, NEW s \in Pending \cup {"failed"}, NEW n \in Nat, NEW a \in Nat,
         NEW w \in Workers \cup {Nobody}, NEW l \in {"none", "live", "expired"},
         import[i].state \in Pending, applied' = applied,
         import' = [import EXCEPT ![i] = ImportRow(s, n, a, w, l)]
  PROVE  import' \in [Uploads -> ImportRows] /\ RowSteps
<1>1. ImportRow(s, n, a, w, l) \in ImportRows /\ ImportRow(s, n, a, w, l).state = s
  BY RowTyped DEF Ended
<1>2. import' \in [Uploads -> ImportRows]
  BY Zenon, <1>1 DEF Sound, TypeOK
<1>3. RowMoves(i)
  BY Zenon, <1>1 DEF RowMoves, Sound, TypeOK
<1>4. \A j \in Uploads \ {i} : RowKept(j)
  BY Zenon DEF RowKept, Sound, TypeOK
<1> QED
  BY Zenon, <1>2, <1>3, <1>4 DEF RowSteps

LEMMA RowNumbers ==
  ASSUME Sound, NEW i \in Uploads
  PROVE  import[i].fence \in Nat /\ import[i].attempts \in Nat
         /\ import[i].worker \in Workers \cup {Nobody}
BY Zenon DEF Sound, TypeOK, ImportRows

LEMMA RowFailed ==
  ASSUME Sound, NEW i \in Uploads, NEW n \in Nat
  PROVE  /\ ImportRow("failed", n, import[i].attempts, Nobody, "none") \in ImportRows
         /\ ImportRow("failed", n, import[i].attempts, Nobody, "none").state = "failed"
<1>1. import[i].attempts \in Nat
  BY Zenon, RowNumbers
<1> QED
  BY <1>1, RowTyped DEF Ended

LEMMA RowsKept ==
  ASSUME Sound, import' = import, applied' = applied
  PROVE  import' \in [Uploads -> ImportRows] /\ RowSteps
BY Zenon DEF Sound, TypeOK, RowSteps, RowKept

\* Revoking a role fails many rows at once, and so does the sweep.
LEMMA RoleSound ==
  ASSUME Sound, NEW u \in Users, Revoke(u) \/ Grant(u)
  PROVE  Sound' /\ RowSteps
<1>1. worker' = worker /\ objects' = objects /\ upload' = upload /\ applied' = applied
      /\ writers' \subseteq Users
  BY Zenon DEF Revoke, Grant, Sound, TypeOK
<1>2. import' \in [Uploads -> ImportRows] /\ RowSteps
  <2>1. CASE Grant(u)
    BY Zenon, <2>1, <1>1, RowsKept DEF Grant
  <2>2. CASE Revoke(u)
    <3>1. \A i \in Uploads :
            import'[i] = import[i] \/
              /\ import[i].state \in Pending
              /\ import'[i] = ImportRow("failed", import[i].fence + 1, import[i].attempts, Nobody, "none")
      BY Zenon, <2>2 DEF Revoke
    <3>2. \A i \in Uploads :
            /\ ImportRow("failed", import[i].fence + 1, import[i].attempts, Nobody, "none") \in ImportRows
            /\ ImportRow("failed", import[i].fence + 1, import[i].attempts, Nobody, "none").state = "failed"
      <4> TAKE i \in Uploads
      <4>1. import[i].fence + 1 \in Nat
        BY RowNumbers
      <4> QED
        BY Zenon, <4>1, RowFailed
    <3>3. RowSteps
      BY Zenon, <1>1, <3>1, <3>2 DEF RowSteps, RowKept, RowMoves
    <3>4. \A i \in Uploads : import'[i] \in ImportRows
      BY Zenon, <3>1, <3>2 DEF Sound, TypeOK
    <3> QED
      BY Zenon, <2>2, <3>3, <3>4 DEF Revoke
  <2> QED
    BY Zenon, <2>1, <2>2
<1> QED
  BY Zenon, <1>1, <1>2 DEF Sound, TypeOK, Holding

LEMMA PollSound ==
  ASSUME Sound, NEW w \in Workers, Poll(w)
  PROVE  Sound' /\ RowSteps
<1>1. objects' = objects /\ upload' = upload /\ writers' = writers /\ applied' = applied
  BY Zenon DEF Poll, Sweep, Claim, ClaimNothing
<1> SUFFICES import' \in [Uploads -> ImportRows] /\ RowSteps
             /\ worker' \in [Workers -> Claims] /\ Holding'
  BY Zenon, <1>1 DEF Sound, TypeOK
<1>2. CASE Sweep(w)
  <2>1. \A i \in Uploads :
          import'[i] = import[i] \/
            /\ import[i].state \in Pending
            /\ import'[i] = ImportRow("failed", import[i].fence, import[i].attempts, Nobody, "none")
    BY Zenon, <1>2 DEF Sweep, Exhausted, Pending
  <2>2. \A i \in Uploads :
          /\ ImportRow("failed", import[i].fence, import[i].attempts, Nobody, "none") \in ImportRows
          /\ ImportRow("failed", import[i].fence, import[i].attempts, Nobody, "none").state = "failed"
    <3> TAKE i \in Uploads
    <3>1. import[i].fence \in Nat
      BY Zenon, RowNumbers
    <3> QED
      BY Zenon, <3>1, RowFailed
  <2>3. RowSteps
    BY Zenon, <1>1, <2>1, <2>2 DEF RowSteps, RowKept, RowMoves
  <2>4. \A i \in Uploads : import'[i] \in ImportRows
    BY Zenon, <2>1, <2>2 DEF Sound, TypeOK
  <2>5. worker' \in [Workers -> Claims] /\ Holding'
    BY Zenon, <1>2, WorkerMoves, ClaimTyped DEF Sweep
  <2> QED
    BY Zenon, <1>2, <2>3, <2>4, <2>5 DEF Sweep
<1>3. CASE \E i \in Uploads : Claim(w, i)
  <2>1. PICK i \in Uploads : Claim(w, i)
    BY Zenon, <1>3
  <2>2. import[i].fence + 1 \in Nat /\ import[i].attempts + 1 \in Nat
    BY RowNumbers
  <2>3. import' \in [Uploads -> ImportRows] /\ RowSteps
    BY Zenon, <1>1, <2>1, <2>2, RowMove DEF Claim, Claimable, Pending
  <2>4. worker' \in [Workers -> Claims] /\ Holding'
    BY <2>1, <2>2, WorkerMoves, ClaimTyped DEF Claim
  <2> QED
    BY Zenon, <2>3, <2>4
<1>4. CASE ClaimNothing(w)
  BY Zenon, <1>1, <1>4, RowsKept, WorkerMoves, ClaimTyped DEF ClaimNothing, IdleWorker
<1> QED
  BY Zenon, <1>2, <1>3, <1>4 DEF Poll

\* What a worker has in memory while it holds a claim.
LEMMA WorkerStays ==
  ASSUME Sound, NEW w \in Workers, worker[w].pc \in {"read", "reconcile", "fail"},
         NEW pc \in {"read", "reconcile", "fail"}, NEW retry \in {"yes", "no"},
         Becomes(w, IdleWorker) \/ Becomes(w, At(w, pc, retry))
  PROVE  worker' \in [Workers -> Claims] /\ Holding'
<1>1. worker[w].import \in Uploads /\ worker[w].fence \in Nat
  BY Zenon DEF Sound, TypeOK, Holding, Claims
<1>2. IdleWorker \in Claims /\ IdleWorker.pc = "idle"
  <2>1. 0 \in Nat
    OBVIOUS
  <2>2. WorkerAt("idle", Nobody, 0, "no") \in Claims /\ WorkerAt("idle", Nobody, 0, "no").pc = "idle"
    BY Zenon, <2>1 DEF WorkerAt, Claims
  <2> QED
    BY Zenon, <2>2 DEF IdleWorker
<1>3. At(w, pc, retry) \in Claims /\ At(w, pc, retry).import \in Uploads
  BY <1>1, ClaimTyped DEF At
<1>4. CASE Becomes(w, IdleWorker)
  BY Zenon, <1>2, <1>4, WorkerMoves
<1>5. CASE Becomes(w, At(w, pc, retry))
  BY Zenon, <1>3, <1>5, WorkerMoves
<1> QED
  BY Zenon, <1>4, <1>5

LEMMA ProcessSound ==
  ASSUME Sound, NEW w \in Workers, Process(w)
  PROVE  Sound' /\ RowSteps
<1> DEFINE i == worker[w].import
<1>1. objects' = objects /\ upload' = upload /\ writers' = writers
  BY Zenon DEF Process, Read, Commit, CommitFails, Denied, Fail, Release, WorkerCrash
<1>2. worker[w].pc \in {"read", "reconcile", "fail"}
  BY Zenon DEF Process, Read, Commit, CommitFails, Denied, Fail, Release, WorkerCrash
<1>3. i \in Uploads
  BY Zenon, <1>2 DEF Sound, Holding
<1>4. import[i].fence \in Nat /\ import[i].attempts \in Nat
  BY Zenon, <1>3, RowNumbers
<1>5. worker' \in [Workers -> Claims] /\ Holding'
  BY Zenon, <1>2, WorkerStays
  DEF Process, Read, Commit, CommitFails, Denied, Fail, Release, WorkerCrash
<1> SUFFICES import' \in [Uploads -> ImportRows] /\ applied' \in [Uploads -> Nat] /\ RowSteps
  BY Zenon, <1>1, <1>5 DEF Sound, TypeOK
<1>6. CASE \E answered \in BOOLEAN : Commit(w, answered)
  <2>1. PICK answered \in BOOLEAN : Commit(w, answered)
    BY Zenon, <1>6
  <2> DEFINE r == ImportRow("succeeded", import[i].fence, import[i].attempts, Nobody, "none")
  <2>2. import' = [import EXCEPT ![i] = r] /\ applied' = [applied EXCEPT ![i] = applied[i] + 1]
    BY Zenon, <2>1 DEF Commit
  <2>3. r \in ImportRows /\ r.state = "succeeded"
    <3> HIDE DEF i
    <3> QED
      BY <1>4, RowTyped DEF Ended
  <2>4. import[i].state \in Pending
    BY Zenon, <2>1 DEF Commit, Mine, Fenced, Pending
  <2> HIDE DEF r, i
  <2>5. import' \in [Uploads -> ImportRows] /\ applied' \in [Uploads -> Nat]
    BY <1>3, <2>2, <2>3 DEF Sound, TypeOK
  <2>6. RowSucceeds(i)
    BY Zenon, <1>3, <2>2, <2>3, <2>4 DEF RowSucceeds, Sound, TypeOK
  <2>7. \A j \in Uploads \ {i} : RowKept(j)
    BY Zenon, <2>2 DEF RowKept, Sound, TypeOK
  <2> QED
    BY Zenon, <2>5, <2>6, <2>7 DEF RowSteps
<1>7. CASE ~\E answered \in BOOLEAN : Commit(w, answered)
  <2>1. applied' = applied
    BY Zenon, <1>7 DEF Process, Read, CommitFails, Denied, Fail, Release, WorkerCrash
  <2>2. import' = import \/
          /\ Fenced(w)
          /\ \E s \in Pending \cup {"failed"} :
               import' = [import EXCEPT ![i] =
                            ImportRow(s, import[i].fence, import[i].attempts, Nobody, "none")]
    BY Zenon, <1>7 DEF Process, Read, CommitFails, Denied, Fail, Release, WorkerCrash, Pending
  <2>3. Fenced(w) => import[i].state \in Pending
    BY Zenon DEF Fenced, Pending
  <2> HIDE DEF i
  <2>4. import' \in [Uploads -> ImportRows] /\ RowSteps
    BY Zenon, <1>3, <1>4, <2>1, <2>2, <2>3, RowMove, RowsKept
  <2> QED
    BY Zenon, <2>1, <2>4 DEF Sound, TypeOK
<1> QED
  BY Zenon, <1>6, <1>7

LEMMA LeaseSound ==
  ASSUME Sound, NEW i \in Uploads, ImportLeaseExpires(i)
  PROVE  Sound' /\ RowSteps
<1>1. import' \in [Uploads -> ImportRows] /\ RowSteps
  BY Zenon, RowMove, RowNumbers DEF ImportLeaseExpires, Pending
<1> QED
  BY Zenon, <1>1 DEF ImportLeaseExpires, Sound, TypeOK, Holding

LEMMA NextSound ==
  ASSUME Sound, Next
  PROVE  Sound' /\ RowSteps
BY Zenon, UploadSound, RoleSound, PollSound, ProcessSound, LeaseSound DEF Next
-----------------------------------------------------------------------------
LEMMA NextApplied ==
  ASSUME Sound, Applied, Next
  PROVE  Applied'
<1>1. Sound' /\ RowSteps
  BY Zenon, NextSound
<1>2. AppliedOnce'
  BY <1>1 DEF RowSteps, RowKept, RowInserted, RowMoves, RowSucceeds, Applied, AppliedOnce, Pending
<1>3. PendingHasAuthority'
  <2>1. CASE writers \subseteq writers'
    BY Zenon, <1>1, <2>1 DEF RowSteps, RowKept, RowInserted, RowMoves, RowSucceeds, Applied,
                      PendingHasAuthority, Pending
  <2>2. CASE \E u \in Users : Revoke(u)
    <3>1. PICK u \in Users : Revoke(u)
      BY Zenon, <2>2
    <3> SUFFICES ASSUME NEW i \in Uploads, import'[i].state \in Pending PROVE ActorOf[i] \in writers'
      BY Zenon DEF PendingHasAuthority
    <3>2. ImportRow("failed", import[i].fence + 1, import[i].attempts, Nobody, "none").state \notin Pending
      BY Zenon DEF ImportRow, Pending
    <3>3. import'[i] = import[i] /\ (ActorOf[i] # u \/ import[i].state \notin Pending)
      BY Zenon, <3>1, <3>2 DEF Revoke
    <3>4. ActorOf[i] \in writers /\ ActorOf[i] # u
      BY Zenon, <3>3 DEF Applied, PendingHasAuthority
    <3> QED
      BY Zenon, <3>1, <3>4 DEF Revoke
  <2>3. writers \subseteq writers' \/ \E u \in Users : Revoke(u)
    BY Zenon DEF Next, Grant, Upload, Preflight, Put, Insert, InsertAnswered, UploadLost, Poll, Sweep, Claim,
           ClaimNothing, Process, Read, Commit, CommitFails, Denied, Fail, Release, WorkerCrash,
           ImportLeaseExpires
  <2> QED
    BY Zenon, <2>1, <2>2, <2>3
<1> QED
  BY Zenon, <1>2, <1>3 DEF Applied

\* What a request may be answered with.
LEMMA RequestSteps ==
  ASSUME Sound, Durable, Next, NEW q \in Uploads
  PROVE  \/ upload'[q] = upload[q]
         \/ upload'[q].pc \notin {"insert", "accepted"}
         \/ upload'[q].pc = "insert" /\ q \in objects'
         \/ upload'[q].pc = "accepted" /\ upload'[q].answer = q /\ import'[q].state # "absent"
         \/ /\ upload'[q].pc = "accepted" /\ upload'[q].answer \in Existing(q)
            /\ ContentOf[upload'[q].answer] = ContentOf[q]
<1>1. upload' = upload \/ \E p \in Uploads : Upload(p)
  BY Zenon DEF Next, Revoke, Grant, Poll, Sweep, Claim, ClaimNothing, Process, Read, Commit, CommitFails,
         Denied, Fail, Release, WorkerCrash, ImportLeaseExpires
<1> SUFFICES ASSUME upload'[q] # upload[q], NEW p \in Uploads, Upload(p)
             PROVE  \/ upload'[q].pc \notin {"insert", "accepted"}
                    \/ upload'[q].pc = "insert" /\ q \in objects'
                    \/ upload'[q].pc = "accepted" /\ upload'[q].answer = q /\ import'[q].state # "absent"
                    \/ /\ upload'[q].pc = "accepted" /\ upload'[q].answer \in Existing(q)
                       /\ ContentOf[upload'[q].answer] = ContentOf[q]
  BY Zenon, <1>1
<1>2. \A at : Goes(p, at) => p = q /\ upload'[q] = at
  BY Zenon DEF Goes, Sound, TypeOK
<1>3. \A a \in Answers(q) :
        \/ a.pc = "refused"
        \/ a.pc = "accepted" /\ a.answer \in Existing(q) /\ ContentOf[a.answer] = ContentOf[q]
  BY DEF Answers, UploadAt
<1>4. CASE Preflight(p)
  BY <1>2, <1>3, <1>4 DEF Preflight, UploadAt
<1>5. CASE \E stored, answered \in BOOLEAN : Put(p, stored, answered)
  BY <1>2, <1>5 DEF Put, UploadAt
<1>6. CASE \E committed, answered \in BOOLEAN : Insert(p, committed, answered)
  <2>1. PICK committed, answered \in BOOLEAN : Insert(p, committed, answered)
    BY Zenon, <1>6
  <2>2. CASE answered
    <3>1. p = q /\ upload'[q] = UploadAt("accepted", q)
      BY Zenon, <1>2, <2>1, <2>2 DEF Insert
    <3>2. import' = [import EXCEPT ![q] = ImportRow("queued", 0, 0, Nobody, "none")]
      BY Zenon, <2>1, <2>2, <3>1 DEF Insert
    <3>3. import'[q].state = "queued"
      BY Zenon, <3>2 DEF ImportRow, Sound, TypeOK
    <3> QED
      BY <3>1, <3>3 DEF UploadAt
  <2>3. CASE ~answered
    BY <1>2, <2>1, <2>3 DEF Insert, UploadAt
  <2> QED
    BY Zenon, <2>2, <2>3
<1>7. CASE InsertAnswered(p) \/ UploadLost(p)
  BY <1>2, <1>3, <1>7 DEF InsertAnswered, UploadLost, UploadAt
<1> QED
  BY Zenon, <1>4, <1>5, <1>6, <1>7 DEF Upload

LEMMA NextDurable ==
  ASSUME Sound, Durable, Next
  PROVE  Durable'
<1>1. RowSteps
  BY Zenon, NextSound
<1>2. objects \subseteq objects'
  BY Zenon DEF Next, Revoke, Grant, Upload, Preflight, Put, Insert, InsertAnswered, UploadLost, Poll, Sweep,
         Claim, ClaimNothing, Process, Read, Commit, CommitFails, Denied, Fail, Release, WorkerCrash,
         ImportLeaseExpires
<1>3. Stored'
  <2>1. \A q \in Uploads : upload'[q].pc = "insert" => q \in objects'
    BY Zenon, <1>2, RequestSteps DEF Durable, Stored
  <2>2. \A i \in Uploads : import'[i].state # "absent" => i \in objects'
    BY Zenon, <1>1, <1>2 DEF Durable, Stored, RowSteps, RowKept, RowInserted, RowMoves, RowSucceeds, Pending
  <2> QED
    BY Zenon, <2>1, <2>2 DEF Stored
<1>4. \A i \in Uploads : import[i].state # "absent" => import'[i].state # "absent"
  BY Zenon, <1>1 DEF RowSteps, RowKept, RowInserted, RowMoves, RowSucceeds, Pending
<1>5. OnePerScan'
  <2> SUFFICES ASSUME NEW i \in Uploads, NEW j \in Uploads, import'[i].state # "absent",
                      import'[j].state # "absent", ScanOf[i] = ScanOf[j], i # j
               PROVE  FALSE
    BY Zenon DEF OnePerScan
  <2>1. \A k \in Uploads : import'[k].state # "absent" => import[k].state # "absent" \/ RowInserted(k)
    BY Zenon, <1>1 DEF RowSteps, RowKept, RowMoves, RowSucceeds, Pending
  <2>2. ~RowInserted(i) \/ import[j].state # "absent"
    BY Zenon DEF RowInserted
  <2>3. ~RowInserted(j) \/ import[i].state # "absent"
    BY Zenon DEF RowInserted
  <2>4. RowInserted(i) => import[j].state = "absent"
    BY Zenon DEF RowInserted, Existing
  <2>5. RowInserted(j) => import[i].state = "absent"
    BY Zenon DEF RowInserted, Existing
  <2> QED
    BY Zenon, <2>1, <2>2, <2>3, <2>4, <2>5 DEF Durable, OnePerScan
<1>6. Answered'
  <2> SUFFICES ASSUME NEW q \in Uploads, upload'[q].pc = "accepted"
               PROVE  /\ upload'[q].answer \in Uploads /\ import'[upload'[q].answer].state # "absent"
                      /\ ScanOf[upload'[q].answer] = ScanOf[q] /\ ContentOf[upload'[q].answer] = ContentOf[q]
    BY Zenon DEF Answered
  <2>1. CASE upload'[q] = upload[q]
    BY Zenon, <1>4, <2>1 DEF Durable, Answered
  <2>2. CASE upload'[q].answer = q /\ import'[q].state # "absent"
    BY Zenon, <2>2
  <2>3. CASE upload'[q].answer \in Existing(q) /\ ContentOf[upload'[q].answer] = ContentOf[q]
    BY Zenon, <1>4, <2>3 DEF Existing
  <2> QED
    BY Zenon, <2>1, <2>2, <2>3, RequestSteps
<1> QED
  BY Zenon, <1>3, <1>5, <1>6 DEF Durable
-----------------------------------------------------------------------------
ImportsInv == Sound /\ Durable /\ Applied

LEMMA ImportsStep ==
  ASSUME ImportsInv, [Next]_importVars
  PROVE  ImportsInv'
<1>1. CASE Next
  BY Zenon, <1>1, NextSound, NextDurable, NextApplied DEF ImportsInv
<1>2. CASE UNCHANGED importVars
  BY Zenon, <1>2 DEF importVars, ImportsInv, Sound, Durable, Applied, TypeOK, Holding, Stored, OnePerScan,
              Answered, PendingHasAuthority, AppliedOnce
<1> QED
  BY Zenon, <1>1, <1>2

LEMMA ImportsInvariant == Spec => []ImportsInv
<1>1. Init => ImportsInv
  BY Zenon, InitSound DEF ImportsInv
<1>2. ImportsInv /\ [Next]_importVars => ImportsInv'
  BY Zenon, ImportsStep
<1> QED
  BY <1>1, <1>2, PTL DEF Spec

\* The table, the requests and the workers keep their types.
THEOREM ImportsTypes == Spec => []TypeOK
<1>1. ImportsInv => TypeOK
  BY Zenon DEF ImportsInv, Sound
<1> QED
  BY <1>1, ImportsInvariant, PTL

\* acceptImport: what is acknowledged is the one import of its scan, and its
\* report is in the object store.
THEOREM AcknowledgementsDurable == Spec => []AcknowledgedIsDurable
<1>1. ImportsInv => AcknowledgedIsDurable
  BY DEF ImportsInv, Durable, Stored, OnePerScan, Answered, AcknowledgedIsDurable, Existing
<1> QED
  BY <1>1, ImportsInvariant, PTL

\* changeUserRole and acceptImport: no pending import without the authority of
\* its actor.
THEOREM PendingAuthority == Spec => []PendingHasAuthority
<1>1. ImportsInv => PendingHasAuthority
  BY Zenon DEF ImportsInv, Applied
<1> QED
  BY <1>1, ImportsInvariant, PTL

\* reconcile and the fences: a report is applied once, by its success.
THEOREM ReportsAppliedOnce == Spec => []AppliedOnce
<1>1. ImportsInv => AppliedOnce
  BY Zenon DEF ImportsInv, Applied
<1> QED
  BY <1>1, ImportsInvariant, PTL

\* No worker, sweep or role change touches an import that has ended.
THEOREM ImportEndFinal == Spec => EndIsFinal
<1> DEFINE A == \A i \in Uploads : import[i].state \in Ended => import'[i] = import[i]
<1>1. ImportsInv /\ [Next]_importVars => [A]_importVars
  <2> SUFFICES ASSUME ImportsInv, Next PROVE A
    BY Zenon DEF importVars
  <2>1. RowSteps
    BY Zenon, NextSound DEF ImportsInv
  <2> QED
    BY Zenon, <2>1 DEF RowSteps, RowKept, RowInserted, RowMoves, RowSucceeds, Pending, Ended
<1> QED
  BY <1>1, ImportsInvariant, PTL DEF Spec, EndIsFinal

-----------------------------------------------------------------------------
\* A row names a run of the past, a row that does not exist has no revision,
\* and a finding was resolved by comparing two scans that have a time.
RowsSound ==
  \A f \in Identities :
    /\ finding[f].run <= runs
    /\ finding[f].state = "absent" => finding[f].revision = 0
    /\ finding[f].state = "inferred-resolved" => finding[f].scan # 0 /\ finding[f].fresh # 0

EventsSound == EventNamesOneChange /\ \A e \in events : e.revision > 0

ReconcileInv == SourceTypeOK /\ RowsSound /\ EventsSound

-----------------------------------------------------------------------------
LEMMA RowFields ==
  ASSUME NEW row \in Rows
  PROVE  /\ row.state \in States /\ row.scan \in Nat /\ row.fresh \in Nat
         /\ row.digest \in Digests \cup {NoDigest} /\ row.kind \in Changes
         /\ row.run \in Nat /\ row.revision \in Nat
BY Zenon DEF Rows

LEMMA ReportFields ==
  ASSUME NEW r \in Reports
  PROVE  r.at \in Nat /\ \A f \in Identities : r.content[f] \in Digests \cup {NoDigest}
BY ReconcileConstants DEF Reports, Times

LEMMA FreshTyped ==
  ASSUME coverage \in Nat, NEW r \in Reports, NEW row \in Rows
  PROVE  /\ Freshness(r) \in Nat /\ SourceState(r) \in States
         /\ Fresher(row, r) \in Nat /\ Fresher(row, r) >= row.fresh
         /\ Fresher(row, r) >= Freshness(r)
         /\ SourceState(r) # "absent"
         /\ SourceState(r) = "inferred-resolved" => Covered(r) /\ r.at # 0 /\ Freshness(r) # 0
BY ReportFields, RowFields DEF Freshness, Fresher, SourceState, States, Covered

\* What a report may do to a row that exists, and to one that does not.
RowRaised(old, new) ==
  /\ new.scan >= old.scan /\ new.fresh >= old.fresh
  /\ new.revision \in {old.revision, old.revision + 1}
  /\ new.revision = old.revision =>
       new.state = old.state /\ new.digest = old.digest /\ new.scan = old.scan
  /\ old.state = "inferred-resolved" /\ new.state # old.state =>
       new.scan >= coverage /\ new.scan > old.scan

RowSound(row, n) ==
  /\ row \in Rows
  /\ row.run <= n
  /\ row.state = "absent" => row.revision = 0
  /\ row.state = "inferred-resolved" => row.scan # 0 /\ row.fresh # 0

\* The run of a report stands in a row only with a revision of its own.
RunIsRevision(old, new, n) == new.run = n => new.revision = old.revision + 1

LEMMA InsertedSound ==
  ASSUME coverage \in Nat, runs \in Nat, NEW r \in Reports, NEW dg \in Digests \cup {NoDigest}
  PROVE  /\ RowSound(Inserted(r, dg, runs + 1), runs + 1)
         /\ Inserted(r, dg, runs + 1).revision = 1
<1> DEFINE st == SourceState(r)
           fr == Freshness(r)
           n == runs + 1
<1>1. st \in States /\ fr \in Nat /\ st # "absent" /\ n \in Nat
      /\ (st = "inferred-resolved" => r.at # 0 /\ fr # 0)
  <2>1. PICK row \in Rows : TRUE
    <3>1. FindingRow("absent", 0, 0, NoDigest, "new", 0, 0) \in Rows
      BY Zenon DEF FindingRow, Rows, States, Changes
    <3> QED
      BY Zenon, <3>1
  <2> QED
    BY FreshTyped
<1>2. Inserted(r, dg, n) = FindingRow(st, r.at, fr, dg, "new", n, 1)
      \/ Inserted(r, dg, n) = FindingRow(st, r.at, fr, dg, "unchanged", 0, 1)
  BY Zenon DEF Inserted
<1> HIDE DEF st, fr
<1>3. "new" \in Changes /\ "unchanged" \in Changes
  BY Zenon DEF Changes
<1> QED
  BY <1>1, <1>2, <1>3, ReportFields DEF RowSound, FindingRow, Rows

LEMMA UpdatedSound ==
  ASSUME coverage \in Nat, runs \in Nat, NEW r \in Reports, NEW dg \in Digests \cup {NoDigest},
         NEW row, RowSound(row, runs), row.state # "absent"
  PROVE  LET new == Updated(row, r, dg, runs + 1) IN
         RowSound(new, runs + 1) /\ RowRaised(row, new) /\ RunIsRevision(row, new, runs + 1)
<1> DEFINE st == SourceState(r)
           fr == Fresher(row, r)
           n == runs + 1
           k == ChangeKind(row, dg)
           v == row.revision + 1
           new == Updated(row, r, dg, n)
<1>1. row \in Rows /\ row.run \in Nat /\ row.run <= runs /\ row.scan \in Nat /\ row.fresh \in Nat
      /\ row.revision \in Nat /\ row.state \in States /\ row.kind \in Changes
      /\ row.digest \in Digests \cup {NoDigest}
  BY Zenon, RowFields DEF RowSound
<1>2. st \in States /\ fr \in Nat /\ fr >= row.fresh /\ st # "absent" /\ r.at \in Nat
      /\ (st = "inferred-resolved" => Covered(r) /\ r.at # 0 /\ fr # 0)
  BY <1>1, FreshTyped, ReportFields
<1>3. k \in Changes /\ n \in Nat /\ v \in Nat
  BY <1>1 DEF ChangeKind, Changes
<1>4. CASE Newer(row, r)
  <2>1. new = FindingRow(st, r.at, fr, dg, k, n, v)
    BY Zenon, <1>4 DEF Updated
  <2>2. row.state = "inferred-resolved" /\ st # "inferred-resolved" => r.at > row.scan /\ r.at >= coverage
    BY <1>1, <1>2, <1>4 DEF RowSound, Newer, SourceState, Covered
  <2>3. r.at >= row.scan
    BY <1>1, <1>2, <1>4 DEF Newer
  <2> HIDE DEF st, fr, k, new, v, n
  <2>4. new \in Rows /\ new.state = st /\ new.scan = r.at /\ new.fresh = fr /\ new.digest = dg
        /\ new.run = n /\ new.revision = v
    BY Zenon, <1>2, <1>3, <2>1 DEF FindingRow, Rows
  <2>5. RowSound(new, n)
    BY <1>2, <1>3, <2>4 DEF RowSound
  <2> USE DEF v
  <2>6. RowRaised(row, new)
    BY <1>1, <1>2, <2>2, <2>3, <2>4 DEF RowRaised
  <2>7. RunIsRevision(row, new, n)
    BY Zenon, <2>4 DEF RunIsRevision
  <2> QED
    BY Zenon, <2>5, <2>6, <2>7 DEF new, n
<1>5. CASE ~Newer(row, r)
  <2>1. new = FindingRow(row.state, row.scan, fr, row.digest, row.kind, row.run, row.revision)
    BY Zenon, <1>5 DEF Updated
  <2> HIDE DEF st, fr, k, new, v
  <2>2. new \in Rows /\ new.state = row.state /\ new.scan = row.scan /\ new.fresh = fr
        /\ new.digest = row.digest /\ new.run = row.run /\ new.revision = row.revision
    BY Zenon, <1>1, <1>2, <2>1 DEF FindingRow, Rows
  <2>3. RowSound(new, n)
    BY <1>1, <1>2, <2>2 DEF RowSound
  <2>4. RowRaised(row, new) /\ RunIsRevision(row, new, n)
    BY <1>1, <1>2, <2>2 DEF RowRaised, RunIsRevision
  <2> QED
    BY Zenon, <2>3, <2>4 DEF new
<1> QED
  BY Zenon, <1>4, <1>5

LEMMA ResolvedSound ==
  ASSUME coverage \in Nat, runs \in Nat, NEW r \in Reports, NEW row, RowSound(row, runs), Resolves(row, r)
  PROVE  LET new == Resolved(row, r, runs + 1) IN
         RowSound(new, runs + 1) /\ RowRaised(row, new) /\ RunIsRevision(row, new, runs + 1)
<1> DEFINE v == row.revision + 1
           n == runs + 1
           new == Resolved(row, r, n)
<1>1. row \in Rows /\ row.scan \in Nat /\ row.fresh \in Nat /\ row.revision \in Nat
      /\ row.digest \in Digests \cup {NoDigest}
  BY Zenon, RowFields DEF RowSound
<1>2. r.at \in Nat /\ row.scan # 0 /\ row.fresh < r.at /\ n \in Nat /\ v \in Nat
  BY <1>1, ReportFields DEF Resolves
<1>3. new = FindingRow("inferred-resolved", row.scan, r.at, row.digest, "inferred-resolved", n, v)
  BY Zenon DEF Resolved
<1> HIDE DEF new, v, n
<1>4. new \in Rows /\ new.state = "inferred-resolved" /\ new.scan = row.scan /\ new.fresh = r.at
      /\ new.digest = row.digest /\ new.run = n /\ new.revision = v
  BY Zenon, <1>1, <1>2, <1>3 DEF FindingRow, Rows, States, Changes
<1>5. RowSound(new, n)
  BY <1>1, <1>2, <1>4 DEF RowSound
<1>6. RowRaised(row, new) /\ RunIsRevision(row, new, n)
  BY <1>1, <1>2, <1>4 DEF RowRaised, RunIsRevision, v
<1> QED
  BY Zenon, <1>5, <1>6 DEF new, n

\* The row of a finding after a report, from the row before it.
LEMMA RowAfterSound ==
  ASSUME ReconcileInv, NEW r \in Reports, NEW f \in Identities
  PROVE  /\ RowSound(RowAfter(f, r), runs + 1)
         /\ finding[f].state # "absent" => RowRaised(finding[f], RowAfter(f, r))
         /\ RunIsRevision(finding[f], RowAfter(f, r), runs + 1)
         /\ RowAfter(f, r).revision >= finding[f].revision
<1> DEFINE row == finding[f]
           new == RowAfter(f, r)
<1>1. RowSound(row, runs) /\ coverage \in Nat /\ runs \in Nat /\ row.revision \in Nat /\ row.run \in Nat
      /\ row.scan \in Nat /\ row.fresh \in Nat
  BY Zenon, RowFields DEF ReconcileInv, SourceTypeOK, RowsSound, RowSound
<1>2. r.content[f] \in Digests \cup {NoDigest}
  BY Zenon, ReportFields
<1>3. RowRaised(row, new) => new.revision >= row.revision
  BY <1>1 DEF RowRaised
<1>4. CASE r.content[f] # NoDigest /\ row.state = "absent"
  <2>1. new = Inserted(r, r.content[f], runs + 1)
    BY Zenon, <1>4 DEF RowAfter, Upserted
  <2>2. row.revision = 0
    BY Zenon, <1>1, <1>4 DEF RowSound
  <2> HIDE DEF row, new
  <2> QED
    BY <1>1, <1>2, <1>4, <2>1, <2>2, InsertedSound DEF RunIsRevision, row, new
<1>5. CASE r.content[f] # NoDigest /\ row.state # "absent"
  <2>1. new = Updated(row, r, r.content[f], runs + 1)
    BY Zenon, <1>5 DEF RowAfter, Upserted
  <2> HIDE DEF row, new
  <2>2. RowSound(new, runs + 1) /\ RowRaised(row, new) /\ RunIsRevision(row, new, runs + 1)
    BY Zenon, <1>1, <1>2, <1>5, <2>1, UpdatedSound
  <2> QED
    BY Zenon, <1>3, <2>2 DEF row, new
<1>6. CASE r.content[f] = NoDigest /\ Resolves(row, r)
  <2>1. new = Resolved(row, r, runs + 1)
    BY Zenon, <1>6 DEF RowAfter
  <2> HIDE DEF row, new
  <2>2. RowSound(new, runs + 1) /\ RowRaised(row, new) /\ RunIsRevision(row, new, runs + 1)
    BY Zenon, <1>1, <1>6, <2>1, ResolvedSound
  <2> QED
    BY Zenon, <1>3, <2>2 DEF row, new
<1>7. CASE r.content[f] = NoDigest /\ ~Resolves(row, r)
  <2>1. new = row
    BY Zenon, <1>7 DEF RowAfter
  <2> HIDE DEF row, new
  <2>2. RowSound(new, runs + 1) /\ RowRaised(row, new) /\ RunIsRevision(row, new, runs + 1)
    BY <1>1, <2>1 DEF RowSound, RowRaised, RunIsRevision
  <2> QED
    BY Zenon, <1>3, <2>2 DEF row, new
<1> QED
  BY Zenon, <1>4, <1>5, <1>6, <1>7
-----------------------------------------------------------------------------
LEMMA ProjectionInit == SourceInit => ReconcileInv
<1> SUFFICES ASSUME SourceInit PROVE ReconcileInv
  BY Zenon
<1>1. finding \in [Identities -> Rows] /\ RowsSound
  BY DEF SourceInit, FindingRow, Rows, States, Changes, RowsSound
<1>2. OldReport \in Reports
  <2>1. (CHOOSE g \in Digests : TRUE) \in Digests
    BY Zenon, ReconcileConstants
  <2> QED
    BY <2>1, ReconcileConstants DEF OldReport, Reports, Times
<1>3. first \in [Identities -> Changes \cup {"none", "historical"}]
  BY Zenon DEF SourceInit, Changes
<1> QED
  BY Zenon, <1>1, <1>2, <1>3 DEF SourceInit, ReconcileInv, SourceTypeOK, EventsSound, EventNamesOneChange

LEMMA ReconcileTypes ==
  ASSUME ReconcileInv, NEW r \in Reports, Reconcile(r)
  PROVE  SourceTypeOK' /\ RowsSound'
<1>1. finding' = [f \in Identities |-> RowAfter(f, r)] /\ runs' = runs + 1 /\ runs \in Nat
  BY Zenon DEF Reconcile, ReconcileInv, SourceTypeOK
<1>2. \A f \in Identities : RowSound(RowAfter(f, r), runs + 1)
  BY Zenon, RowAfterSound
<1>3. finding' \in [Identities -> Rows] /\ RowsSound'
  BY Zenon, <1>1, <1>2 DEF RowSound, RowsSound
<1>4. coverage' \in Nat /\ runs' \in Nat
  BY <1>1, ReportFields DEF Reconcile, ReconcileInv, SourceTypeOK
<1>5. \A f \in Identities : RowAfter(f, r).revision \in Nat /\ RowAfter(f, r).kind \in Changes
  BY Zenon, <1>2, RowFields DEF RowSound
<1>6. events' \subseteq [identity : Identities, revision : Nat, kind : Changes]
  <2>1. \A e \in events' : e \in events \/ \E f \in Identities :
          e = [identity |-> f, revision |-> RowAfter(f, r).revision, kind |-> RowAfter(f, r).kind]
    BY Zenon DEF Reconcile
  <2>2. \A f \in Identities :
          [identity |-> f, revision |-> RowAfter(f, r).revision, kind |-> RowAfter(f, r).kind]
            \in [identity : Identities, revision : Nat, kind : Changes]
    BY Zenon, <1>5
  <2> QED
    BY <2>1, <2>2 DEF ReconcileInv, SourceTypeOK
<1>7. history' \subseteq Reports
  BY Zenon DEF Reconcile, ReconcileInv, SourceTypeOK
<1>8. first' \in [Identities -> Changes \cup {"none", "historical"}]
  <2>1. \A f \in Identities : Succeeded(r) =>
          Observation(r, r.content[f], RowAfter(f, r)) \in Changes \cup {"none", "historical"}
    BY Zenon, <1>5 DEF Observation, Changes
  <2> QED
    BY Zenon, <2>1 DEF Reconcile, ReconcileInv, SourceTypeOK
<1> QED
  BY Zenon, <1>3, <1>4, <1>6, <1>7, <1>8 DEF SourceTypeOK

LEMMA ReconcileEvents ==
  ASSUME ReconcileInv, NEW r \in Reports, Reconcile(r)
  PROVE  EventsSound'
<1> DEFINE New(f) == [identity |-> f, revision |-> RowAfter(f, r).revision, kind |-> RowAfter(f, r).kind]
<1>1. \A f \in Identities : finding'[f] = RowAfter(f, r)
  BY Zenon DEF Reconcile
<1>2. \A e \in events' : e \in events \/
        \E f \in Identities : e = New(f) /\ RowAfter(f, r).run = runs + 1
  BY Zenon DEF Reconcile
<1>3. \A f \in Identities :
        /\ finding[f].revision \in Nat /\ RowAfter(f, r).revision \in Nat
        /\ RowAfter(f, r).revision >= finding[f].revision
        /\ RowAfter(f, r).run = runs + 1 => RowAfter(f, r).revision = finding[f].revision + 1
  BY Zenon, RowAfterSound, RowFields DEF RowSound, RunIsRevision, ReconcileInv, SourceTypeOK
<1>4. \A e \in events : /\ e.identity \in Identities /\ e.revision \in Nat /\ e.revision > 0
                        /\ e.revision <= finding[e.identity].revision
  BY Zenon DEF ReconcileInv, SourceTypeOK, EventsSound, EventNamesOneChange
<1>5. \A f \in Identities : New(f).identity = f /\ New(f).revision = RowAfter(f, r).revision
  BY Zenon
<1> HIDE DEF New
<1>6. ASSUME NEW e \in events'
      PROVE  /\ e.identity \in Identities /\ e.revision \in Nat /\ e.revision > 0
             /\ e.revision <= finding'[e.identity].revision
  BY <1>1, <1>2, <1>3, <1>4, <1>5
<1>7. ASSUME NEW e \in events', NEW d \in events', d.identity = e.identity, d.revision = e.revision
      PROVE  d = e
  <2>1. CASE e \in events /\ d \in events
    BY Zenon, <1>7, <2>1 DEF ReconcileInv, EventsSound, EventNamesOneChange
  <2>2. ASSUME NEW x \in events, NEW f \in Identities, RowAfter(f, r).run = runs + 1,
               x.identity = f
        PROVE  x.revision # New(f).revision
    BY <1>3, <1>4, <1>5, <2>2
  <2>3. CASE e \notin events /\ d \notin events
    BY Zenon, <1>2, <1>5, <1>7, <2>3
  <2>4. CASE e \in events /\ d \notin events
    BY <1>2, <1>5, <1>7, <2>2, <2>4
  <2>5. CASE e \notin events /\ d \in events
    BY <1>2, <1>5, <1>7, <2>2, <2>5
  <2> QED
    BY Zenon, <2>1, <2>3, <2>4, <2>5
<1> QED
  BY Zenon, <1>6, <1>7 DEF EventsSound, EventNamesOneChange

LEMMA ReconcileInvariant == SourceSpec => []ReconcileInv
<1>1. ReconcileInv /\ [SourceNext]_reconcileVars => ReconcileInv'
  <2> SUFFICES ASSUME ReconcileInv, [SourceNext]_reconcileVars PROVE ReconcileInv'
    BY Zenon
  <2>1. CASE SourceNext
    BY Zenon, <2>1, ReconcileTypes, ReconcileEvents DEF SourceNext, ReconcileInv
  <2>2. CASE UNCHANGED reconcileVars
    BY Zenon, <2>2 DEF reconcileVars, ReconcileInv, SourceTypeOK, RowsSound, EventsSound, EventNamesOneChange
  <2> QED
    BY Zenon, <2>1, <2>2
<1> QED
  BY <1>1, ProjectionInit, PTL DEF SourceSpec
-----------------------------------------------------------------------------
\* The source columns keep their types.
THEOREM ProjectionTypes == SourceSpec => []SourceTypeOK
<1>1. ReconcileInv => SourceTypeOK
  BY Zenon DEF ReconcileInv
<1> QED
  BY <1>1, ReconcileInvariant, PTL

\* findingUpsert and the insertion of change events: a revision is one change.
THEOREM EventsNameOneChange == SourceSpec => []EventNamesOneChange
<1>1. ReconcileInv => EventNamesOneChange
  BY Zenon DEF ReconcileInv, EventsSound
<1> QED
  BY <1>1, ReconcileInvariant, PTL

\* reconcile: whatever the order of the reports, authority only grows.
THEOREM AuthorityGrows == SourceSpec => LateReportsKeepAuthority
<1> DEFINE Raised == \A f \in Identities :
             finding[f].state # "absent" => RowRaised(finding[f], finding'[f])
<1>1. ReconcileInv /\ SourceNext => coverage' >= coverage /\ Raised
  <2> SUFFICES ASSUME ReconcileInv, SourceNext PROVE coverage' >= coverage /\ Raised
    BY Zenon
  <2>1. PICK r \in Reports : Reconcile(r)
    BY Zenon DEF SourceNext
  <2>2. coverage' >= coverage
    BY <2>1, ReportFields DEF Reconcile, Advances, ReconcileInv, SourceTypeOK
  <2>3. \A f \in Identities : finding'[f] = RowAfter(f, r)
    BY Zenon, <2>1 DEF Reconcile
  <2> QED
    BY Zenon, <2>2, <2>3, RowAfterSound
<1>2. ReconcileInv /\ [SourceNext]_reconcileVars => [coverage' >= coverage /\ Raised]_reconcileVars
  BY Zenon, <1>1
<1> QED
  BY <1>2, ReconcileInvariant, PTL DEF SourceSpec, LateReportsKeepAuthority, RowRaised

-----------------------------------------------------------------------------
Sightings(f) == {r \in history : Reported(f, r)}

\* The coverage is the time of the last comparable scan.
CoverageSound ==
  /\ \A c \in history : Comparable(c) => c.at <= coverage
  /\ coverage # 0 => \E c \in history : Comparable(c) /\ c.at = coverage

\* What a row tells of a finding that the scans S saw, when cov is the coverage:
\* an observed row stands for the last of them and nothing comparable came
\* after it; a resolved row stands for one of them, and the coverage is after
\* all of them.
Tells(row, S, cov, fst) ==
  /\ S = {} => row.state = "absent" /\ fst = "none"
  /\ S # {} => /\ row.state \in {"observed", "inferred-resolved"} /\ fst = "new"
               /\ \E r \in S : r.at = row.scan
  /\ S # {} /\ row.state = "observed" =>
       /\ \A r \in S : r.at <= row.scan
       /\ row.fresh <= row.scan
       /\ row.scan # 0 => cov <= row.scan
  /\ S # {} /\ row.state = "inferred-resolved" =>
       /\ row.scan # 0 /\ row.fresh <= cov
       /\ \A r \in S : r.at < cov

HistoryInv ==
  /\ CoverageSound
  /\ \A f \in Identities :
       (\A r \in Sightings(f) : Succeeded(r)) =>
         Tells(finding[f], Sightings(f), coverage, first[f])

CoverageAfter(r) == IF Advances(r) THEN r.at ELSE coverage

LEMMA CoverageGrows ==
  ASSUME coverage \in Nat, NEW r \in Reports
  PROVE  /\ CoverageAfter(r) \in Nat /\ CoverageAfter(r) >= coverage
         /\ Comparable(r) => r.at <= CoverageAfter(r)
         /\ CoverageAfter(r) = coverage \/ (Comparable(r) /\ CoverageAfter(r) = r.at /\ r.at > coverage)
BY ReportFields DEF CoverageAfter, Advances

\* A successful scan inserts a finding.
LEMMA InsertedTells ==
  ASSUME coverage \in Nat, runs \in Nat, NEW r \in Reports, Succeeded(r), NEW dg
  PROVE  LET new == Inserted(r, dg, runs + 1) IN
         Tells(new, {r}, CoverageAfter(r), Observation(r, dg, new))
<1> DEFINE st == SourceState(r)
           fr == Freshness(r)
           new == Inserted(r, dg, runs + 1)
           cov == CoverageAfter(r)
<1>1. new = FindingRow(st, r.at, fr, dg, "new", runs + 1, 1)
  BY Zenon DEF Inserted
<1>2. new.state = st /\ new.scan = r.at /\ new.fresh = fr /\ new.kind = "new" /\ new.run = runs + 1
  BY <1>1 DEF FindingRow
<1>3. Observation(r, dg, new) = "new"
  BY Zenon, <1>2 DEF Observation
<1>4. r.at \in Nat /\ cov \in Nat /\ cov >= coverage
      /\ (cov = coverage \/ (Comparable(r) /\ cov = r.at))
  BY Zenon, CoverageGrows, ReportFields
<1>5. CASE Covered(r)
  <2>1. st = "inferred-resolved" /\ fr = coverage /\ r.at # 0 /\ r.at < coverage
    BY Zenon, <1>4, <1>5 DEF SourceState, Freshness, Covered
  <2> HIDE DEF new, st, fr, cov
  <2> QED
    BY <1>2, <1>3, <1>4, <2>1 DEF Tells, new, cov
<1>6. CASE ~Covered(r)
  <2>1. st = "observed" /\ fr <= r.at /\ (r.at # 0 => coverage <= r.at)
    BY <1>4, <1>6 DEF SourceState, Freshness, Covered
  <2> HIDE DEF new, st, fr, cov
  <2> QED
    BY <1>2, <1>3, <1>4, <2>1 DEF Tells, new, cov
<1> QED
  BY Zenon, <1>5, <1>6

\* A successful scan reports a finding that exists.
LEMMA UpdatedTells ==
  ASSUME coverage \in Nat, runs \in Nat, NEW r \in Reports, Succeeded(r), NEW dg,
         NEW row \in Rows, NEW S, S # {}, \A x \in S : x.at \in Nat,
         NEW fst, Tells(row, S, coverage, fst)
  PROVE  Tells(Updated(row, r, dg, runs + 1), S \cup {r}, CoverageAfter(r), fst)
<1> DEFINE st == SourceState(r)
           fr == Freshness(r)
           fresher == Fresher(row, r)
           new == Updated(row, r, dg, runs + 1)
           cov == CoverageAfter(r)
<1>1. row.scan \in Nat /\ row.fresh \in Nat /\ r.at \in Nat /\ cov \in Nat /\ cov >= coverage
      /\ (cov = coverage \/ (Comparable(r) /\ cov = r.at /\ r.at > coverage))
  BY Zenon, CoverageGrows, ReportFields, RowFields
<1>2. fresher = fr \/ fresher = row.fresh
  BY Zenon DEF Fresher
<1>3. Covered(r) => st = "inferred-resolved" /\ fr = coverage /\ r.at # 0 /\ r.at < coverage
  BY Zenon, <1>1 DEF SourceState, Freshness, Covered
<1>4. ~Covered(r) => st = "observed" /\ (r.at # 0 => coverage <= r.at)
                     /\ (fr = 0 \/ (fr = r.at /\ r.at # 0))
  BY <1>1 DEF SourceState, Freshness, Covered, Comparable
<1>5. row.state \in {"observed", "inferred-resolved"} /\ fst = "new" /\ (\E x \in S : x.at = row.scan)
  BY Zenon DEF Tells
<1>6. row.state = "observed" => /\ \A x \in S : x.at <= row.scan
                                /\ row.fresh <= row.scan
                                /\ row.scan # 0 => coverage <= row.scan
  BY Zenon DEF Tells
<1>7. row.state = "inferred-resolved" => /\ row.scan # 0 /\ row.fresh <= coverage
                                         /\ \A x \in S : x.at < coverage
  BY Zenon DEF Tells
<1>8. CASE Newer(row, r)
  <2>1. new = FindingRow(st, r.at, fresher, dg, ChangeKind(row, dg), runs + 1, row.revision + 1)
    BY Zenon, <1>8 DEF Updated
  <2>2. new.state = st /\ new.scan = r.at /\ new.fresh = fresher
    BY <2>1 DEF FindingRow
  <2>3. r.at >= row.fresh /\ r.at >= row.scan /\ (r.at # 0 => r.at > row.scan) /\ (r.at = 0 => row.scan = 0)
    BY <1>1, <1>8 DEF Newer
  <2> HIDE DEF new, st, fr, fresher, cov
  <2>4. CASE Covered(r)
    <3>1. \A x \in S \cup {r} : x.at < cov
      BY <1>1, <1>3, <1>5, <1>6, <1>7, <2>3, <2>4
    <3>2. fresher <= cov
      BY <1>1, <1>2, <1>3, <2>3, <2>4
    <3> QED
      BY Zenon, <1>3, <1>5, <2>2, <2>4, <3>1, <3>2 DEF Tells, new, cov
  <2>5. CASE ~Covered(r)
    <3>1. r.at # 0 \/ (r.at = 0 /\ row.state = "observed")
      BY Zenon, <1>5, <1>7, <2>3
    <3>2. \A x \in S \cup {r} : x.at <= r.at
      BY <1>1, <1>4, <1>5, <1>6, <1>7, <2>3, <2>5, <3>1
    <3>3. fresher <= r.at /\ (r.at # 0 => cov <= r.at)
      BY <1>1, <1>2, <1>4, <2>3, <2>5
    <3> QED
      BY Zenon, <1>4, <1>5, <2>2, <2>5, <3>2, <3>3 DEF Tells, new, cov
  <2> QED
    BY Zenon, <2>4, <2>5
<1>9. CASE ~Newer(row, r)
  <2>1. new = FindingRow(row.state, row.scan, fresher, row.digest, row.kind, row.run, row.revision)
    BY Zenon, <1>9 DEF Updated
  <2>2. new.state = row.state /\ new.scan = row.scan /\ new.fresh = fresher
    BY <2>1 DEF FindingRow
  <2>3. /\ r.at # 0 => r.at <= row.scan \/ r.at < row.fresh
        /\ r.at = 0 => row.scan # 0 \/ row.fresh # 0
    BY <1>1, <1>9 DEF Newer
  <2> HIDE DEF new, st, fr, fresher, cov
  <2>4. \E x \in S \cup {r} : x.at = new.scan
    BY Zenon, <1>5, <2>2
  <2>5. CASE row.state = "observed"
    <3>1. r.at <= row.scan /\ row.scan # 0
      BY <1>1, <1>6, <2>3, <2>5
    <3>2. coverage <= row.scan /\ cov <= row.scan
      BY Zenon, <1>1, <1>6, <2>5, <3>1
    <3>3. fresher <= row.scan
      BY <1>1, <1>2, <1>3, <1>4, <1>6, <2>5, <3>1, <3>2
    <3>4. \A x \in S \cup {r} : x.at <= row.scan
      BY Zenon, <1>6, <2>5, <3>1
    <3> QED
      BY Zenon, <1>5, <2>2, <2>4, <2>5, <3>2, <3>3, <3>4 DEF Tells, new, cov
  <2>6. CASE row.state = "inferred-resolved"
    <3>1. row.scan < coverage
      BY Zenon, <1>5, <1>7, <2>6
    <3>2. r.at < coverage
      BY <1>1, <1>7, <2>3, <2>6, <3>1
    <3>3. fresher <= coverage
      BY <1>1, <1>2, <1>3, <1>4, <1>7, <2>6, <3>2
    <3>4. cov = coverage
      BY <1>1, <3>2
    <3>5. \A x \in S \cup {r} : x.at < cov
      BY Zenon, <1>7, <2>6, <3>2, <3>4
    <3> QED
      BY Zenon, <1>5, <1>7, <2>2, <2>4, <2>6, <3>3, <3>4, <3>5 DEF Tells, new, cov
  <2> QED
    BY Zenon, <1>5, <2>5, <2>6
<1> QED
  BY Zenon, <1>8, <1>9
\* A scan does not report a finding.
LEMMA MissedTells ==
  ASSUME coverage \in Nat, runs \in Nat, NEW r \in Reports,
         NEW row \in Rows, NEW S, \A x \in S : x.at \in Nat,
         NEW fst, Tells(row, S, coverage, fst)
  PROVE  LET new == IF Resolves(row, r) THEN Resolved(row, r, runs + 1) ELSE row IN
         Tells(new, S, CoverageAfter(r), fst)
<1> DEFINE new == IF Resolves(row, r) THEN Resolved(row, r, runs + 1) ELSE row
           cov == CoverageAfter(r)
<1>1. row.scan \in Nat /\ row.fresh \in Nat /\ r.at \in Nat /\ cov \in Nat /\ cov >= coverage
      /\ (cov = coverage \/ (Comparable(r) /\ cov = r.at /\ r.at > coverage))
  BY Zenon, CoverageGrows, ReportFields, RowFields
<1>2. CASE Resolves(row, r)
  <2>1. new = FindingRow("inferred-resolved", row.scan, r.at, row.digest, "inferred-resolved",
                         runs + 1, row.revision + 1)
    BY Zenon, <1>2 DEF Resolved
  <2>2. new.state = "inferred-resolved" /\ new.scan = row.scan /\ new.fresh = r.at
    BY <2>1 DEF FindingRow
  <2>3. row.scan # 0 /\ row.scan < r.at /\ row.state # "absent" /\ r.at > coverage /\ cov = r.at
    BY Zenon, <1>2 DEF Resolves, Advances, CoverageAfter
  <2>4. S # {} /\ fst = "new" /\ (\E x \in S : x.at = row.scan)
    BY Zenon, <2>3 DEF Tells
  <2>5. row.state \in {"observed", "inferred-resolved"}
    BY Zenon, <2>4 DEF Tells
  <2> HIDE DEF new, cov
  <2>6. \A x \in S : x.at < cov
    <3>1. CASE row.state = "observed"
      <4>1. \A x \in S : x.at <= row.scan
        BY Zenon, <2>4, <3>1 DEF Tells
      <4> QED
        BY <1>1, <2>3, <4>1
    <3>2. CASE row.state = "inferred-resolved"
      <4>1. \A x \in S : x.at < coverage
        BY Zenon, <2>4, <3>2 DEF Tells
      <4> QED
        BY <1>1, <2>3, <4>1
    <3> QED
      BY Zenon, <2>5, <3>1, <3>2
  <2> QED
    BY <1>1, <2>2, <2>3, <2>4, <2>6 DEF Tells, new, cov
<1>3. CASE ~Resolves(row, r)
  <2>1. new = row
    BY Zenon, <1>3
  <2>2. CASE ~Advances(r) \/ S = {}
    BY Zenon, <1>1, <2>1, <2>2 DEF Tells, CoverageAfter
  <2>3. CASE Advances(r) /\ S # {}
    <3>1. cov = r.at /\ r.at > coverage
      BY Zenon, <2>3 DEF CoverageAfter, Advances
    <3>2. row.scan = 0 \/ row.scan >= r.at \/ row.fresh >= r.at
      BY <1>1, <1>3, <2>3 DEF Resolves, Tells
    <3>3. row.state = "observed"
      BY <1>1, <2>3, <3>1, <3>2 DEF Tells
    <3>4. row.scan # 0 => r.at <= row.scan
      BY <1>1, <2>3, <3>2, <3>3 DEF Tells
    <3> HIDE DEF new, cov
    <3> QED
      BY Zenon, <1>1, <2>1, <2>3, <3>1, <3>3, <3>4 DEF Tells, new, cov
  <2> QED
    BY Zenon, <2>2, <2>3
<1> QED
  BY Zenon, <1>2, <1>3

LEMMA InitHistory == SourceInit => HistoryInv
<1> SUFFICES ASSUME SourceInit PROVE HistoryInv
  BY Zenon
<1>1. history = {OldReport} /\ coverage = 0
  BY Zenon DEF SourceInit
<1>2. CoverageSound
  BY <1>1 DEF CoverageSound, OldReport, Comparable
<1>3. ASSUME NEW f \in Identities
      PROVE  Tells(finding[f], Sightings(f), coverage, first[f])
  <2>1. CASE f \in Migrated
    <3>1. (CHOOSE g \in Digests : TRUE) # NoDigest
      BY Zenon, ReconcileConstants
    <3>2. Reported(f, OldReport) /\ OldReport.at = 1
      BY Zenon, <1>3, <2>1, <3>1 DEF Reported, OldReport
    <3>3. Sightings(f) = {OldReport}
      BY Zenon, <1>1, <3>2 DEF Sightings
    <3>4. finding[f].state = "observed" /\ finding[f].scan = 1 /\ finding[f].fresh = 0 /\ first[f] = "new"
      BY Zenon, <1>3, <2>1 DEF SourceInit, FindingRow
    <3> QED
      BY <1>1, <3>2, <3>3, <3>4 DEF Tells
  <2>2. CASE f \notin Migrated
    <3>1. ~Reported(f, OldReport)
      BY Zenon, <1>3, <2>2 DEF Reported, OldReport
    <3>2. Sightings(f) = {}
      BY Zenon, <1>1, <3>1 DEF Sightings
    <3>3. finding[f].state = "absent" /\ first[f] = "none"
      BY Zenon, <1>3, <2>2 DEF SourceInit, FindingRow
    <3> QED
      BY Zenon, <3>2, <3>3 DEF Tells
  <2> QED
    BY Zenon, <2>1, <2>2
<1> QED
  BY Zenon, <1>2, <1>3 DEF HistoryInv

LEMMA ReconcileHistory ==
  ASSUME ReconcileInv, HistoryInv, NEW r \in Reports, Reconcile(r)
  PROVE  HistoryInv'
<1>1. /\ history' = history \cup {r} /\ coverage' = CoverageAfter(r)
      /\ coverage \in Nat /\ runs \in Nat /\ history \subseteq Reports
  BY Zenon DEF Reconcile, CoverageAfter, ReconcileInv, SourceTypeOK
<1>2. CoverageSound'
  <2>1. CoverageAfter(r) \in Nat /\ CoverageAfter(r) >= coverage
        /\ (Comparable(r) => r.at <= CoverageAfter(r))
        /\ (CoverageAfter(r) = coverage \/ (Comparable(r) /\ CoverageAfter(r) = r.at))
    BY Zenon, <1>1, CoverageGrows
  <2>2. \A c \in history' : Comparable(c) => c.at <= CoverageAfter(r)
    BY <1>1, <2>1, ReportFields DEF HistoryInv, CoverageSound
  <2>3. CoverageAfter(r) # 0 => \E c \in history' : Comparable(c) /\ c.at = CoverageAfter(r)
    BY Zenon, <1>1, <2>1 DEF HistoryInv, CoverageSound
  <2> QED
    BY Zenon, <1>1, <2>2, <2>3 DEF CoverageSound
<1>3. ASSUME NEW f \in Identities, \A x \in Sightings(f)' : Succeeded(x)
      PROVE  Tells(finding'[f], Sightings(f)', coverage', first'[f])
  <2> DEFINE row == finding[f]
             S == Sightings(f)
             dg == r.content[f]
  <2>1. finding'[f] = RowAfter(f, r) /\ row \in Rows
    BY Zenon DEF Reconcile, ReconcileInv, SourceTypeOK
  <2>2. Sightings(f)' = IF Reported(f, r) THEN S \cup {r} ELSE S
    BY Zenon, <1>1 DEF Sightings
  <2>3. \A x \in S : Succeeded(x) /\ x.at \in Nat
    BY Zenon, <1>1, <1>3, <2>2, ReportFields DEF Sightings
  <2>4. Tells(row, S, coverage, first[f])
    BY Zenon, <2>3 DEF HistoryInv
  <2>5. first'[f] = IF Reported(f, r) /\ Succeeded(r) /\ first[f] = "none"
                    THEN Observation(r, dg, RowAfter(f, r)) ELSE first[f]
    BY Zenon DEF Reconcile, Reported
  <2>6. CASE ~Reported(f, r)
    <3>1. RowAfter(f, r) = IF Resolves(row, r) THEN Resolved(row, r, runs + 1) ELSE row
      BY Zenon, <2>6 DEF RowAfter, Reported
    <3> HIDE DEF row, S, dg
    <3>2. Tells(RowAfter(f, r), S, CoverageAfter(r), first[f])
      BY Zenon, <1>1, <2>1, <2>3, <2>4, <3>1, MissedTells
    <3> QED
      BY Zenon, <1>1, <2>1, <2>2, <2>5, <2>6, <3>2
  <2>7. CASE Reported(f, r) /\ S = {}
    <3>1. Succeeded(r)
      BY Zenon, <1>3, <2>2, <2>7
    <3>2. row.state = "absent" /\ first[f] = "none"
      BY Zenon, <2>4, <2>7 DEF Tells
    <3>3. RowAfter(f, r) = Inserted(r, dg, runs + 1)
      BY Zenon, <2>7, <3>2 DEF RowAfter, Upserted, Reported
    <3> HIDE DEF row, S, dg
    <3>4. Tells(RowAfter(f, r), {r}, CoverageAfter(r), Observation(r, dg, RowAfter(f, r)))
      BY Zenon, <1>1, <3>1, <3>3, InsertedTells
    <3>5. Sightings(f)' = {r} /\ first'[f] = Observation(r, dg, RowAfter(f, r))
      BY Zenon, <2>2, <2>5, <2>7, <3>1, <3>2
    <3> QED
      BY Zenon, <1>1, <2>1, <3>4, <3>5
  <2>8. CASE Reported(f, r) /\ S # {}
    <3>1. Succeeded(r)
      BY Zenon, <1>3, <2>2, <2>8
    <3>2. row.state # "absent" /\ first[f] = "new"
      BY Zenon, <2>4, <2>8 DEF Tells
    <3>3. RowAfter(f, r) = Updated(row, r, dg, runs + 1)
      BY Zenon, <2>8, <3>2 DEF RowAfter, Upserted, Reported
    <3> HIDE DEF row, S, dg
    <3>4. Tells(RowAfter(f, r), S \cup {r}, CoverageAfter(r), first[f])
      BY Zenon, <1>1, <2>1, <2>3, <2>4, <2>8, <3>1, <3>3, UpdatedTells
    <3>5. Sightings(f)' = S \cup {r} /\ first'[f] = first[f]
      BY Zenon, <2>2, <2>5, <2>8, <3>2
    <3> QED
      BY Zenon, <1>1, <2>1, <3>4, <3>5
  <2> QED
    BY Zenon, <2>6, <2>7, <2>8
<1> QED
  BY Zenon, <1>2, <1>3 DEF HistoryInv

LEMMA HistoryTells ==
  ASSUME ReconcileInv, HistoryInv, NEW f \in Identities, \A r \in Sightings(f) : Succeeded(r)
  PROVE  /\ finding[f].state = "absent" <=> Sightings(f) = {}
         /\ finding[f].state = "inferred-resolved" <=>
              /\ \E r \in Sightings(f) : r.at # 0
              /\ \E c \in history : Comparable(c) /\ \A r \in Sightings(f) : r.at < c.at
         /\ first[f] \in {"none", "new"}
<1> DEFINE row == finding[f]
           S == Sightings(f)
<1>1. Tells(row, S, coverage, first[f])
  BY Zenon DEF HistoryInv
<1>2. row.scan \in Nat /\ coverage \in Nat /\ (\A c \in history : c.at \in Nat) /\ S \subseteq history
  BY Zenon, RowFields, ReportFields DEF ReconcileInv, SourceTypeOK, Sightings
<1>3. row.state = "absent" <=> S = {}
  BY Zenon, <1>1 DEF Tells
<1>4. first[f] \in {"none", "new"}
  BY Zenon, <1>1 DEF Tells
<1>5. ASSUME row.state = "inferred-resolved"
      PROVE  /\ \E r \in S : r.at # 0
             /\ \E c \in history : Comparable(c) /\ \A r \in S : r.at < c.at
  <2>1. S # {} /\ row.scan # 0 /\ (\E r \in S : r.at = row.scan) /\ (\A r \in S : r.at < coverage)
    BY Zenon, <1>1, <1>3, <1>5 DEF Tells
  <2>2. coverage # 0
    BY <1>2, <2>1
  <2>3. PICK c \in history : Comparable(c) /\ c.at = coverage
    BY Zenon, <2>2 DEF HistoryInv, CoverageSound
  <2> QED
    BY Zenon, <2>1, <2>3
<1>6. ASSUME row.state # "inferred-resolved", \E r \in S : r.at # 0,
             NEW c \in history, Comparable(c), \A r \in S : r.at < c.at
      PROVE  FALSE
  <2>1. S # {} /\ row.state = "observed" /\ (\E r \in S : r.at = row.scan) /\ (\A r \in S : r.at <= row.scan)
        /\ (row.scan # 0 => coverage <= row.scan)
    BY Zenon, <1>1, <1>6 DEF Tells
  <2>2. row.scan # 0 /\ row.scan < c.at
    BY <1>2, <1>6, <2>1
  <2>3. c.at <= coverage
    BY Zenon, <1>6 DEF HistoryInv, CoverageSound
  <2> QED
    BY <1>2, <2>1, <2>2, <2>3
<1> QED
  BY Zenon, <1>3, <1>4, <1>5, <1>6

\* reconcile: whatever the order of the reports, the state of a finding is the
\* one that the times of the reports imply.
THEOREM StateTellsHistory == SourceSpec => []StateMatchesHistory
<1>1. ReconcileInv /\ HistoryInv /\ [SourceNext]_reconcileVars => HistoryInv'
  <2> SUFFICES ASSUME ReconcileInv, HistoryInv, [SourceNext]_reconcileVars PROVE HistoryInv'
    BY Zenon
  <2>1. CASE SourceNext
    BY Zenon, <2>1, ReconcileHistory DEF SourceNext
  <2>2. CASE UNCHANGED reconcileVars
    BY Zenon, <2>2 DEF reconcileVars, HistoryInv, CoverageSound, Sightings
  <2> QED
    BY Zenon, <2>1, <2>2
<1>2. ReconcileInv /\ HistoryInv => StateMatchesHistory
  BY Zenon, HistoryTells DEF StateMatchesHistory, Sightings
<1> QED
  BY <1>1, <1>2, InitHistory, ReconcileInvariant, PTL DEF SourceSpec

-----------------------------------------------------------------------------
INSTANCE FiniteSetTheorems

SucceededImports == {i \in Uploads : import[i].state = "succeeded"}

\* What was reconciled is what succeeded.
Together ==
  /\ history = {OldReport} \cup {ReportOf[i] : i \in SucceededImports}
  /\ runs = Cardinality(SucceededImports)

IngestionInv == ImportsInv /\ ReconcileInv /\ HistoryInv /\ Together

LEMMA SucceededApplied ==
  ASSUME ImportsInv
  PROVE  SucceededImports = {i \in Uploads : applied[i] = 1}
BY DEF ImportsInv, Applied, AppliedOnce, SucceededImports

LEMMA InitIngestion == IInit => IngestionInv
<1> SUFFICES ASSUME IInit PROVE IngestionInv
  BY Zenon
<1>1. ImportsInv
  BY Zenon, InitSound DEF IInit, ImportsInv
<1>2. ReconcileInv /\ HistoryInv
  BY Zenon, ProjectionInit, InitHistory DEF IInit
<1>3. SucceededImports = {}
  BY Zenon DEF IInit, Init, SucceededImports, ImportRow
<1>4. Together
  BY Zenon, <1>3, FS_EmptySet DEF Together, IInit, SourceInit
<1> QED
  BY Zenon, <1>1, <1>2, <1>4 DEF IngestionInv

LEMMA CommitTogether ==
  ASSUME IngestionInv, ImportsInv', NEW w \in Workers, NEW answered \in BOOLEAN,
         CommitAndReconcile(w, answered)
  PROVE  ReconcileInv' /\ HistoryInv' /\ Together'
<1> DEFINE i == worker[w].import
<1>1. Commit(w, answered) /\ Reconcile(ReportOf[i])
  BY Zenon DEF CommitAndReconcile
<1>2. i \in Uploads
  BY Zenon, <1>1 DEF IngestionInv, ImportsInv, Sound, Holding, Commit
<1>3. ReportOf[i] \in Reports
  BY Zenon, <1>2, IngestionConstants
<1>4. ReconcileInv' /\ HistoryInv'
  BY Zenon, <1>1, <1>3, ReconcileTypes, ReconcileEvents, ReconcileHistory DEF IngestionInv, ReconcileInv
<1>5. import' = [import EXCEPT ![i] =
        ImportRow("succeeded", import[i].fence, import[i].attempts, Nobody, "none")]
      /\ import[i].state = "processing" /\ import \in [Uploads -> ImportRows]
  BY Zenon, <1>1 DEF Commit, Mine, Fenced, IngestionInv, ImportsInv, Sound, TypeOK
<1>6. SucceededImports' = SucceededImports \cup {i} /\ i \notin SucceededImports
  BY Zenon, <1>2, <1>5 DEF SucceededImports, ImportRow
<1>7. history' = history \cup {ReportOf[i]} /\ runs' = runs + 1
  BY Zenon, <1>1 DEF Reconcile
<1> HIDE DEF i
<1>8. {ReportOf[j] : j \in SucceededImports \cup {i}} = {ReportOf[j] : j \in SucceededImports} \cup {ReportOf[i]}
  BY Zenon
<1>9. IsFiniteSet(SucceededImports)
  BY Zenon, IngestionConstants, FS_Subset DEF SucceededImports
<1>10. Cardinality(SucceededImports \cup {i}) = Cardinality(SucceededImports) + 1
  BY Zenon, <1>6, <1>9, FS_AddElement
<1>11. history' = {OldReport} \cup {ReportOf[j] : j \in SucceededImports'}
  BY Zenon, <1>6, <1>7, <1>8 DEF IngestionInv, Together
<1>12. runs' = Cardinality(SucceededImports')
  BY Zenon, <1>6, <1>7, <1>10 DEF IngestionInv, Together
<1> QED
  BY Zenon, <1>4, <1>11, <1>12 DEF Together

LEMMA OtherTogether ==
  ASSUME IngestionInv, ImportsInv', applied' = applied, UNCHANGED reconcileVars
  PROVE  ReconcileInv' /\ HistoryInv' /\ Together'
<1>1. SucceededImports' = SucceededImports
  <2>1. SucceededImports' = {i \in Uploads : applied'[i] = 1}
    BY DEF ImportsInv, Applied, AppliedOnce, SucceededImports
  <2> QED
    BY Zenon, <2>1, SucceededApplied DEF IngestionInv
<1>2. Together'
  BY Zenon, <1>1 DEF IngestionInv, Together, reconcileVars
<1>3. HistoryInv'
  BY Zenon DEF IngestionInv, reconcileVars, HistoryInv, CoverageSound, Sightings
<1>4. ReconcileInv'
  BY Zenon DEF IngestionInv, reconcileVars, ReconcileInv, SourceTypeOK, RowsSound, EventsSound, EventNamesOneChange
<1> QED
  BY Zenon, <1>2, <1>3, <1>4

\* The queue and the projection take each step together, or only the queue does.
LEMMA IngestionSteps ==
  ASSUME INext
  PROVE  /\ Next
         /\ \/ \E w \in Workers, answered \in BOOLEAN : CommitAndReconcile(w, answered)
            \/ applied' = applied /\ UNCHANGED reconcileVars
<1>1. CASE \E w \in Workers, answered \in BOOLEAN : CommitAndReconcile(w, answered)
  BY <1>1, Zenon DEF CommitAndReconcile, Next, Process
<1>2. CASE \E w \in Workers : ProcessOther(w) /\ UNCHANGED reconcileVars
  BY <1>2, Zenon DEF ProcessOther, Next, Process, Read, CommitFails, Denied, Fail, Release, WorkerCrash
<1>3. CASE (\E q \in Uploads : Upload(q)) /\ UNCHANGED reconcileVars
  BY <1>3, Zenon DEF Next, Upload, Preflight, Put, Insert, InsertAnswered, UploadLost
<1>4. CASE (\E u \in Users : Revoke(u) \/ Grant(u)) /\ UNCHANGED reconcileVars
  BY <1>4, Zenon DEF Next, Revoke, Grant
<1>5. CASE (\E w \in Workers : Poll(w)) /\ UNCHANGED reconcileVars
  BY <1>5, Zenon DEF Next, Poll, Sweep, Claim, ClaimNothing
<1>6. CASE (\E i \in Uploads : ImportLeaseExpires(i)) /\ UNCHANGED reconcileVars
  BY <1>6, Zenon DEF Next, ImportLeaseExpires
<1> QED
  BY <1>1, <1>2, <1>3, <1>4, <1>5, <1>6, Zenon DEF INext, IProcess

LEMMA IngestionInvariant == ISpec => []IngestionInv
<1>1. IngestionInv /\ [INext]_ingestionVars => IngestionInv'
  <2> SUFFICES ASSUME IngestionInv, [INext]_ingestionVars PROVE IngestionInv'
    BY Zenon
  <2>1. CASE INext
    <3>1. ImportsInv'
      BY Zenon, <2>1, IngestionSteps, ImportsStep DEF IngestionInv
    <3> QED
      BY Zenon, <2>1, <3>1, IngestionSteps, CommitTogether, OtherTogether DEF IngestionInv
  <2>2. CASE UNCHANGED ingestionVars
    <3>1. ImportsInv'
      BY Zenon, <2>2, ImportsStep DEF IngestionInv, ingestionVars
    <3>2. applied' = applied /\ UNCHANGED reconcileVars
      BY Zenon, <2>2 DEF ingestionVars, importVars
    <3> QED
      BY Zenon, <3>1, <3>2, OtherTogether DEF IngestionInv
  <2> QED
    BY Zenon, <2>1, <2>2
<1> QED
  BY <1>1, InitIngestion, PTL DEF ISpec

\* processImport: the findings show the reports of the imports that succeeded,
\* each of them once, and no other report.
THEOREM FindingsShowSucceeded == ISpec => []ProjectionShowsSucceeded
<1>1. IngestionInv => ProjectionShowsSucceeded
  <2> SUFFICES ASSUME IngestionInv PROVE ProjectionShowsSucceeded
    BY Zenon
  <2> DEFINE done == {OldReport} \cup {ReportOf[i] : i \in SucceededImports}
             Saw(f) == {r \in done : Reported(f, r)}
  <2>1. runs = Cardinality(SucceededImports) /\ history = done
    BY Zenon DEF IngestionInv, Together
  <2>2. ASSUME NEW f \in Identities, \A r \in Saw(f) : Succeeded(r) /\ r.at # 0
        PROVE  /\ finding[f].state = "absent" <=> Saw(f) = {}
               /\ finding[f].state = "inferred-resolved" <=>
                    Saw(f) # {} /\ \E c \in done : Comparable(c) /\ \A r \in Saw(f) : r.at < c.at
    <3>1. Saw(f) = Sightings(f)
      BY Zenon, <2>1 DEF Sightings
    <3> HIDE DEF Saw, done
    <3> QED
      BY Zenon, <2>1, <2>2, <3>1, HistoryTells DEF IngestionInv
  <2> HIDE DEF Saw, done
  <2> QED
    BY Zenon, <2>1, <2>2 DEF ProjectionShowsSucceeded, SucceededImports, Saw, done
<1> QED
  BY <1>1, IngestionInvariant, PTL
=============================================================================
