-------------------------- MODULE CollectionProofs --------------------------
(***************************************************************************)
(* Proofs about Collection for any number of workers, sources, repositories *)
(* and collections.                                                        *)
(*                                                                         *)
(* The argument: a worker inside finalizeSource has stored every record it  *)
(* is about to publish, and the locks it took keep the authority it has      *)
(* checked until it commits; objects are never taken back.  Every other step *)
(* that ends a collection finds it collecting and without records.          *)
(***************************************************************************)
EXTENDS Collection, TLAPS

Phases == {"idle", "claimed", "reading", "putting", "committing", "denied"}

JobRow ==
    [state : {"none", "queued", "collecting"} \cup Ended, source : Sources \cup {None}, rev : Nat,
     owner : Workers \cup {None}, fence : Nat, lease : {"none", "live", "expired"},
     repository : Repositories \cup {None}, asset : Nat, records : Nat]

SourceRow == [rev : Nat, enabled : {"yes", "no"}, pinned : Repositories \cup {None}]

Attempt ==
    [phase : Phases, job : Jobs \cup {0}, fence : Nat, pinned : Repositories \cup {None},
     repository : Repositories \cup {None}, records : Nat, native : {"none", "complete", "error"},
     put : Nat, cause : {"none", "failed", "blocked"}, asset : Nat]

Typed ==
    /\ source \in [Sources -> SourceRow]
    /\ job \in [Jobs -> JobRow]
    /\ link \in [Repositories -> Nat]
    /\ made \in Nat
    /\ worker \in [Workers -> Attempt]

RowInv(j) ==
    /\ job[j].state # "none" => job[j].source \in Sources
    /\ job[j].lease # "none" => job[j].state = "collecting"
    /\ IF job[j].state \in Finished
       THEN job[j].records > 0 /\ \A n \in 0..(job[j].records - 1) : <<j, n>> \in objects
       ELSE job[j].records = 0

\* What is known about the attempt m of a worker.
AttemptInv(m) ==
    /\ m.phase # "idle" => m.job \in Jobs /\ job[m.job].state \notin {"none", "queued"}
    /\ m.phase \in {"claimed", "reading"} => m.put = 0
    /\ m.phase \in {"reading", "putting", "committing"} /\ m.records > 0 =>
         m.repository \in Repositories
    /\ m.phase = "claimed" => m.records = 0
    /\ m.phase \in {"putting", "committing"} =>
         m.records > 0 /\ \A n \in 0..(m.put - 1) : <<m.job, n>> \in objects
    /\ m.phase = "committing" => m.put = m.records /\ Authority(m.job)
    /\ m.phase = "denied" => m.cause \in {"failed", "blocked"}

CInv ==
    /\ Typed
    /\ \A j \in Jobs : RowInv(j)
    /\ \A w \in Workers : AttemptInv(worker[w])

-----------------------------------------------------------------------------
\* Before the first request nothing is queued, read or stored.
LEMMA InitCInv == Init => CInv
<1> SUFFICES ASSUME Init PROVE CInv
  BY Zenon
<1> USE DEF Init, NoJob, Idle, None
<1>1. Typed
  BY Zenon DEF Typed, JobRow, SourceRow, Attempt, Phases
<1>2. \A j \in Jobs : RowInv(j)
  BY Zenon DEF RowInv, Finished
<1>3. \A w \in Workers : AttemptInv(worker[w])
  BY Zenon DEF AttemptInv
<1> QED
  BY Zenon, <1>1, <1>2, <1>3 DEF CInv

\* An attempt that a step leaves alone keeps what is known about it.
LEMMA AttemptKept ==
  ASSUME NEW m \in Attempt, AttemptInv(m), objects \subseteq objects',
         m.phase # "idle" => job'[m.job].state \notin {"none", "queued"},
         m.phase = "committing" => Authority(m.job)'
  PROVE  AttemptInv(m)'
  BY Zenon DEF AttemptInv

\* A step of a worker that changes no row.
LEMMA WorkerMoves ==
  ASSUME CInv, NEW w \in Workers, NEW m \in Attempt, AttemptInv(m),
         worker' = [worker EXCEPT ![w] = m], UNCHANGED rows, objects \subseteq objects'
  PROVE  CInv'
<1> USE DEF CInv, rows
<1>1. Typed'
  BY Zenon DEF Typed
<1>2. \A j \in Jobs : RowInv(j)'
  BY Zenon DEF RowInv
<1>3. ASSUME NEW v \in Workers PROVE AttemptInv(worker[v])'
  <2>1. worker'[v] \in Attempt /\ AttemptInv(worker'[v])
    BY Zenon DEF Typed
  <2> QED
    BY Zenon, <2>1 DEF AttemptInv, Authority
<1> QED
  BY Zenon, <1>1, <1>2, <1>3

\* An attempt that is given up, or forgotten.
LEMMA WorkerLeaves ==
  ASSUME CInv, NEW w \in Workers, NEW cause \in {"failed", "blocked"}, worker[w].phase # "idle",
         UNCHANGED rows, objects \subseteq objects',
         Give(w, cause) \/ worker' = [worker EXCEPT ![w] = Idle]
  PROVE  CInv'
<1>1. worker[w] \in Attempt /\ AttemptInv(worker[w])
  BY Zenon DEF CInv, Typed
<1>2. CASE Give(w, cause)
  <2> DEFINE m == [Idle EXCEPT !.phase = "denied", !.job = worker[w].job, !.fence = worker[w].fence,
                               !.cause = cause]
  <2>1. m \in Attempt
    BY Zenon, <1>1 DEF Idle, Attempt, Phases, None
  <2>2. m.phase = "denied" /\ m.job = worker[w].job /\ m.cause = cause
    BY Zenon DEF Idle
  <2>3. worker' = [worker EXCEPT ![w] = m]
    BY Zenon, <1>2 DEF Give
  <2> HIDE DEF m
  <2>4. AttemptInv(m)
    BY Zenon, <1>1, <2>2 DEF AttemptInv
  <2> QED
    BY Zenon, <2>1, <2>3, <2>4, WorkerMoves
<1>3. CASE worker' = [worker EXCEPT ![w] = Idle]
  <2>1. Idle \in Attempt /\ AttemptInv(Idle)
    BY Zenon DEF Idle, Attempt, Phases, None, AttemptInv
  <2> QED
    BY Zenon, <1>3, <2>1, WorkerMoves
<1> QED
  BY Zenon, <1>2, <1>3

\* A step that changes rows: the attempts it does not touch keep their objects,
\* and the authority they hold.
LEMMA RowsChange ==
  ASSUME CInv, Typed', \A j \in Jobs : RowInv(j)', objects' = objects,
         \A v \in Workers : worker'[v] = worker[v] \/ AttemptInv(worker[v])',
         \A j \in Jobs : job[j].state \notin {"none", "queued"} =>
                             job'[j].state \notin {"none", "queued"},
         \A v \in Workers : worker[v].phase = "committing" /\ worker'[v] = worker[v] =>
                               LET j == worker[v].job IN
                               /\ member' = member /\ job'[j].source = job[j].source
                               /\ job'[j].rev = job[j].rev
                               /\ source'[job[j].source].rev = source[job[j].source].rev
                               /\ source'[job[j].source].enabled = source[job[j].source].enabled
  PROVE  CInv'
<1> SUFFICES ASSUME NEW v \in Workers PROVE AttemptInv(worker[v])'
  BY Zenon DEF CInv
<1>1. worker[v] \in Attempt /\ AttemptInv(worker[v])
  BY Zenon DEF CInv, Typed
<1>2. CASE worker'[v] = worker[v]
  <2>1. worker[v].phase = "committing" =>
          LET j == worker[v].job IN
          member' = "yes" /\ source'[job'[j].source].enabled = "yes"
          /\ source'[job'[j].source].rev = job'[j].rev
    BY Zenon, <1>1, <1>2 DEF AttemptInv, Authority
  <2> QED
    BY Zenon, <1>1, <1>2, <2>1 DEF AttemptInv, Authority
<1> QED
  BY Zenon, <1>2

\* Every step preserves the invariant.
LEMMA NextCInv == CInv /\ [Next]_vars => CInv'
<1> SUFFICES ASSUME CInv, [Next]_vars PROVE CInv'
  BY Zenon
<1>a. /\ Typed /\ \A j \in Jobs : RowInv(j)
      /\ \A w \in Workers : worker[w] \in Attempt /\ AttemptInv(worker[w])
  BY Zenon DEF CInv, Typed
<1>b. Jobs \subseteq Nat \ {0}
  BY CollectionConstants DEF Jobs
<1>1. CASE UNCHANGED <<rows, objects, worker>>
  BY Zenon, <1>1 DEF CInv, rows, Typed, RowInv, AttemptInv, Authority
<1>2. ASSUME NEW s \in Sources, NEW enabled \in {"yes", "no"}, UpdateSource(s, enabled)
      PROVE  CInv'
  <2>1. Typed' /\ \A j \in Jobs : RowInv(j)'
    <3> DEFINE n == [source[s] EXCEPT !.rev = @ + 1, !.enabled = enabled]
    <3>0. source[s] \in SourceRow
      BY Zenon, <1>a DEF Typed
    <3>1. n \in SourceRow
      <4>1. source[s].rev + 1 \in Nat
        BY <3>0 DEF SourceRow
      <4> QED
        BY Zenon, <3>0, <4>1 DEF SourceRow
    <3>2. source' = [source EXCEPT ![s] = n]
      BY Zenon, <1>2, <1>a DEF UpdateSource, Typed
    <3> HIDE DEF n
    <3> QED
      BY Zenon, <1>2, <1>a, <3>1, <3>2 DEF UpdateSource, Typed, RowInv
  <2>2. \A v \in Workers : worker[v].phase = "committing" =>
          LET x == job[worker[v].job].source IN x # s /\ (x \in Sources => source'[x] = source[x])
    BY Zenon, <1>2, <1>a DEF UpdateSource, SourceLocked, Committing, Typed
  <2>3. \A v \in Workers : worker[v].phase = "committing" => job[worker[v].job].source \in Sources
    BY Zenon, <1>a DEF AttemptInv, RowInv
  <2> QED
    BY Zenon, <1>2, <2>1, <2>2, <2>3, RowsChange DEF UpdateSource
<1>3. CASE Demote
  <2>1. Typed' /\ \A j \in Jobs : RowInv(j)'
    BY Zenon, <1>3, <1>a DEF Demote, Typed, RowInv
  <2> QED
    BY Zenon, <1>3, <2>1, RowsChange DEF Demote, Committing
<1>4. ASSUME NEW r \in Repositories, DeleteAsset(r) PROVE CInv'
  <2>1. Typed' /\ \A j \in Jobs : RowInv(j)'
    BY Zenon, <1>4, <1>a DEF DeleteAsset, Typed, RowInv
  <2> QED
    BY Zenon, <1>4, <2>1, RowsChange DEF DeleteAsset
<1>5. ASSUME NEW j \in Jobs, NEW s \in Sources, EnqueueSourceCollection(j, s) PROVE CInv'
  <2> DEFINE r == [NoJob EXCEPT !.state = "queued", !.source = s, !.rev = source[s].rev]
  <2>1. r \in JobRow /\ r.state = "queued" /\ r.source = s /\ r.lease = "none" /\ r.records = 0
    <3>1. source[s].rev \in Nat
      BY Zenon, <1>a DEF Typed, SourceRow
    <3> QED
      BY Zenon, <3>1 DEF NoJob, JobRow, None
  <2>2. job' = [job EXCEPT ![j] = r]
    BY Zenon, <1>5 DEF EnqueueSourceCollection
  <2> HIDE DEF r
  <2>3. Typed' /\ \A k \in Jobs : RowInv(k)'
    <3>1. UNCHANGED <<source, link, made, objects, worker>>
      BY Zenon, <1>5 DEF EnqueueSourceCollection
    <3>2. job'[j] = r /\ \A k \in Jobs : k # j => job'[k] = job[k]
      BY Zenon, <1>a, <2>2 DEF Typed
    <3>3. Typed'
      BY Zenon, <1>a, <2>1, <2>2, <3>1 DEF Typed
    <3>4. RowInv(j)'
      BY Zenon, <2>1, <3>1, <3>2 DEF RowInv, Finished
    <3>5. ASSUME NEW k \in Jobs, k # j PROVE RowInv(k)'
      BY Zenon, <1>a, <3>1, <3>2, <3>5 DEF RowInv
    <3> QED
      BY Zenon, <3>3, <3>4, <3>5
  <2>4. \A v \in Workers : worker[v].phase # "idle" => worker[v].job \in Jobs \ {j}
    BY Zenon, <1>5, <1>a DEF EnqueueSourceCollection, AttemptInv
  <2>5. \A k \in Jobs \ {j} : job'[k] = job[k]
    BY Zenon, <1>a, <2>2 DEF Typed
  <2> QED
    BY Zenon, <1>5, <2>3, <2>4, <2>5, RowsChange DEF EnqueueSourceCollection
<1>6. ASSUME NEW j \in Jobs, LeaseExpires(j) PROVE CInv'
  <2>1. Typed' /\ \A k \in Jobs : RowInv(k)'
    BY <1>6, <1>a DEF LeaseExpires, Typed, JobRow, RowInv
  <2>2. \A k \in Jobs : job'[k].state = job[k].state /\ job'[k].source = job[k].source
                       /\ job'[k].rev = job[k].rev
    BY Zenon, <1>6, <1>a DEF LeaseExpires, Typed, JobRow
  <2>3. \A v \in Workers : worker[v].phase = "committing" => worker[v].job \in Jobs
    BY Zenon, <1>a DEF AttemptInv
  <2> QED
    BY Zenon, <1>6, <2>1, <2>2, <2>3, RowsChange DEF LeaseExpires
<1>7. ASSUME NEW w \in Workers, Claim(w) PROVE CInv'
  <2>0. PICK j \in Claimable : ClaimJob(w, j)
    BY Zenon, <1>7 DEF Claim
  <2> DEFINE r(state) == [job[j] EXCEPT !.state = state, !.owner = w, !.fence = @ + 1, !.lease = "none"]
             c == [r("collecting") EXCEPT !.lease = "live"]
             m == [Idle EXCEPT !.phase = "claimed", !.job = j, !.fence = job[j].fence + 1,
                               !.pinned = source[job[j].source].pinned]
  <2>1. j \in Jobs /\ job[j] \in JobRow /\ job[j].state \in {"queued", "collecting"}
    BY Zenon, <1>a DEF Claimable, Typed
  <2>2. job[j].fence + 1 \in Nat
    BY <2>1 DEF JobRow
  <2>3. ASSUME NEW state \in {"failed", "blocked", "collecting"}
        PROVE  /\ r(state) \in JobRow /\ r(state).state = state /\ r(state).lease = "none"
               /\ r(state).source = job[j].source /\ r(state).rev = job[j].rev
               /\ r(state).records = job[j].records
    BY Zenon, <2>1, <2>2 DEF JobRow, Ended, Finished
  <2>4. /\ c \in JobRow /\ c.state = "collecting" /\ c.source = job[j].source
        /\ c.rev = job[j].rev /\ c.records = job[j].records
    BY Zenon, <2>1, <2>2 DEF JobRow
  <2>5. \/ /\ \/ job' = [job EXCEPT ![j] = r("failed")]
              \/ job' = [job EXCEPT ![j] = r("blocked")]
           /\ worker' = worker
        \/ job' = [job EXCEPT ![j] = c] /\ worker' = [worker EXCEPT ![w] = m]
    BY Zenon, <2>0 DEF ClaimJob
  <2>6. m \in Attempt /\ m.phase = "claimed" /\ m.job = j /\ m.put = 0 /\ m.records = 0
    <3>1. source[job[j].source].pinned \in Repositories \cup {None}
      BY Zenon, <1>a, <2>1 DEF Typed, SourceRow, RowInv
    <3> QED
      BY Zenon, <2>1, <2>2, <3>1 DEF Idle, Attempt, Phases
  <2> HIDE DEF r, c, m
  <2>7. PICK n \in JobRow :
          /\ job' = [job EXCEPT ![j] = n]
          /\ \/ n.state \in {"failed", "blocked"} /\ n.lease = "none"
             \/ n.state = "collecting"
          /\ n.source = job[j].source /\ n.rev = job[j].rev /\ n.records = job[j].records
    BY Zenon, <2>3, <2>4, <2>5
  <2>8. Typed' /\ \A k \in Jobs : RowInv(k)'
    BY <1>7, <1>a, <2>1, <2>5, <2>6, <2>7 DEF Claim, Typed, RowInv, Finished
  <2>9. \A k \in Jobs : /\ job[k].state \notin {"none", "queued"} => job'[k].state \notin {"none", "queued"}
                        /\ job'[k].source = job[k].source /\ job'[k].rev = job[k].rev
    BY Zenon, <1>a, <2>1, <2>7 DEF Typed
  <2>10. \A v \in Workers : worker'[v] = worker[v] \/ AttemptInv(worker[v])'
    <3>1. worker' = worker \/ (worker' = [worker EXCEPT ![w] = m] /\ job'[j].state = "collecting")
      BY Zenon, <1>a, <2>1, <2>4, <2>5 DEF Typed
    <3> QED
      BY Zenon, <1>a, <2>1, <2>6, <3>1 DEF Typed, AttemptInv
  <2>11. \A v \in Workers : worker[v].phase = "committing" => worker[v].job \in Jobs
    BY Zenon, <1>a DEF AttemptInv
  <2> QED
    BY Zenon, <1>7, <2>8, <2>9, <2>10, <2>11, RowsChange DEF Claim
<1>8. ASSUME NEW w \in Workers, Settle(w) PROVE CInv'
  <2> DEFINE j == worker[w].job
             n == [job[j] EXCEPT !.state = worker[w].cause, !.lease = "none"]
  <2>1. j \in Jobs /\ worker[w].cause \in {"failed", "blocked"} /\ worker[w].phase = "denied"
    BY Zenon, <1>8, <1>a DEF Settle, AttemptInv
  <2>b. job[j] \in JobRow
    BY Zenon, <1>a, <2>1 DEF Typed
  <2>a. /\ n \in JobRow /\ n.state \in {"failed", "blocked"} /\ n.lease = "none"
        /\ n.source = job[j].source /\ n.rev = job[j].rev /\ n.records = job[j].records
    BY Zenon, <2>1, <2>b DEF JobRow, Ended
  <2>2. \/ job' = job
        \/ /\ job[j].state = "collecting"
           /\ job' = [job EXCEPT ![j] = n]
    BY Zenon, <1>8, <1>a, <2>1 DEF Settle, Typed
  <2> HIDE DEF n
  <2>3. Idle \in Attempt
    BY Zenon DEF Idle, Attempt, Phases, None
  <2>4. Typed'
    BY Zenon, <1>8, <1>a, <2>1, <2>a, <2>2, <2>3 DEF Settle, Typed
  <2>5. ASSUME NEW k \in Jobs PROVE RowInv(k)'
    <3>1. objects' = objects /\ RowInv(k)
      BY Zenon, <1>8, <1>a DEF Settle
    <3>2. job'[k] = job[k] \/ (k = j /\ job[k].state = "collecting" /\ job'[k] = n)
      BY Zenon, <1>a, <2>1, <2>2 DEF Typed
    <3>3. CASE job'[k] = job[k]
      BY Zenon, <3>1, <3>3 DEF RowInv
    <3>4. CASE k = j /\ job[k].state = "collecting" /\ job'[k] = n
      BY Zenon, <2>a, <3>1, <3>4 DEF RowInv, Finished
    <3> QED
      BY Zenon, <3>2, <3>3, <3>4
  <2>6. \A k \in Jobs : /\ job[k].state \notin {"none", "queued"} => job'[k].state \notin {"none", "queued"}
                        /\ job'[k].source = job[k].source /\ job'[k].rev = job[k].rev
    BY Zenon, <1>a, <2>1, <2>a, <2>2 DEF Typed
  <2>7. \A v \in Workers : worker'[v] = worker[v] \/ AttemptInv(worker[v])'
    BY Zenon, <1>8, <1>a DEF Settle, Typed, Idle, AttemptInv
  <2>8. \A v \in Workers : worker[v].phase = "committing" => worker[v].job \in Jobs
    BY Zenon, <1>a DEF AttemptInv
  <2> QED
    BY Zenon, <1>8, <2>4, <2>5, <2>6, <2>7, <2>8, RowsChange DEF Settle
<1>9. ASSUME NEW w \in Workers, NEW acknowledged \in BOOLEAN, FinalizeCommit(w, acknowledged)
      PROVE  CInv'
  <2> DEFINE j == worker[w].job
             asset == IF worker[w].asset = 0 THEN made + 1 ELSE worker[w].asset
             s == IF worker[w].native = "complete" THEN "succeeded" ELSE "partial"
             n == [job[j] EXCEPT !.state = s, !.lease = "none", !.repository = worker[w].repository,
                                 !.asset = asset, !.records = worker[w].records]
             d == [Idle EXCEPT !.phase = "denied", !.job = j, !.fence = worker[w].fence, !.cause = "failed"]
  <2>1. /\ j \in Jobs /\ job[j] \in JobRow /\ job[j].state = "collecting"
        /\ worker[w].phase = "committing" /\ worker[w] \in Attempt /\ AttemptInv(worker[w])
    BY Zenon, <1>9, <1>a DEF FinalizeCommit, AttemptInv, Typed, Owns
  <2>2. asset \in Nat
    BY <1>a, <2>1 DEF Typed, Attempt
  <2>3. /\ n \in JobRow /\ n.state \in Finished /\ n.lease = "none" /\ n.source = job[j].source
        /\ n.rev = job[j].rev /\ n.records = worker[w].records
    <3> HIDE DEF asset
    <3>1. worker[w].records \in Nat /\ worker[w].repository \in Repositories \cup {None}
      BY Zenon, <2>1 DEF Attempt
    <3>2. s \in Finished /\ s \in Ended
      BY Zenon DEF Ended, Finished
    <3> HIDE DEF s
    <3>3. n \in JobRow
      BY Zenon, <2>1, <2>2, <3>1, <3>2 DEF JobRow
    <3> QED
      BY Zenon, <2>1, <3>2, <3>3 DEF JobRow
  <2>4. d \in Attempt /\ d.phase = "denied" /\ d.job = j /\ d.cause = "failed"
    BY Zenon, <2>1 DEF Idle, Attempt, Phases, None
  <2>5. Idle \in Attempt /\ Idle.phase = "idle"
    BY Zenon DEF Idle, Attempt, Phases, None
  <2>6. job' = [job EXCEPT ![j] = n]
    BY Zenon, <1>9 DEF FinalizeCommit
  <2>7. link' = [link EXCEPT ![worker[w].repository] = asset] /\ made' \in Nat
    BY <1>9, <1>a DEF FinalizeCommit, Typed
  <2>8. worker' = [worker EXCEPT ![w] = Idle] \/ worker' = [worker EXCEPT ![w] = d]
    BY Zenon, <1>9 DEF FinalizeCommit, Give
  <2>9. source' = [source EXCEPT ![job[j].source].pinned = worker[w].repository] /\ member' = member
        /\ objects' = objects
    BY Zenon, <1>9 DEF FinalizeCommit
  <2> HIDE DEF asset, n, d
  <2>10. source' \in [Sources -> SourceRow]
    <3> DEFINE x == job[j].source
               p == [source[x] EXCEPT !.pinned = worker[w].repository]
    <3>1. x \in Sources /\ source[x] \in SourceRow
      BY Zenon, <1>a, <2>1 DEF Typed, RowInv
    <3>2. p \in SourceRow
      BY Zenon, <2>1, <3>1 DEF SourceRow, Attempt
    <3>3. source' = [source EXCEPT ![x] = p]
      BY Zenon, <1>a, <2>9, <3>1 DEF Typed
    <3> HIDE DEF p
    <3> QED
      BY Zenon, <1>a, <3>1, <3>2, <3>3 DEF Typed
  <2>11. Typed'
    BY Zenon, <1>a, <2>1, <2>2, <2>3, <2>4, <2>5, <2>6, <2>7, <2>8, <2>10 DEF Typed
  <2>12. ASSUME NEW k \in Jobs PROVE RowInv(k)'
    <3>1. CASE k = j
      <4>1. worker[w].records > 0 /\ \A i \in 0..(worker[w].records - 1) : <<j, i>> \in objects
        BY Zenon, <2>1 DEF AttemptInv
      <4>2. job'[k] = n /\ job[k].source \in Sources
        BY Zenon, <1>a, <2>1, <2>6, <3>1 DEF Typed, RowInv
      <4> QED
        BY Zenon, <2>3, <2>9, <3>1, <4>1, <4>2 DEF RowInv
    <3>2. CASE k # j
      <4>1. job'[k] = job[k]
        BY Zenon, <1>a, <2>6, <3>2 DEF Typed
      <4> QED
        BY Zenon, <1>a, <2>9, <4>1 DEF RowInv
    <3> QED
      BY Zenon, <3>1, <3>2
  <2>13. \A k \in Jobs : /\ job[k].state \notin {"none", "queued"} => job'[k].state \notin {"none", "queued"}
                         /\ job'[k].source = job[k].source /\ job'[k].rev = job[k].rev
    BY Zenon, <1>a, <2>1, <2>3, <2>6 DEF Typed, Finished
  <2>14. \A v \in Workers : worker'[v] = worker[v] \/ AttemptInv(worker[v])'
    <3>1. worker'[w] \in {Idle, d} /\ \A v \in Workers : v # w => worker'[v] = worker[v]
      BY Zenon, <1>a, <2>8 DEF Typed
    <3>2. job'[j].state \notin {"none", "queued"}
      BY Zenon, <2>1, <2>13
    <3> QED
      BY Zenon, <2>1, <2>4, <2>5, <3>1, <3>2 DEF AttemptInv
  <2>15. \A x \in Sources : source'[x].rev = source[x].rev /\ source'[x].enabled = source[x].enabled
    BY Zenon, <1>a, <2>9 DEF Typed, SourceRow
  <2>16. \A v \in Workers : worker[v].phase = "committing" =>
           worker[v].job \in Jobs /\ job[worker[v].job].source \in Sources
    BY Zenon, <1>a DEF AttemptInv, RowInv
  <2> QED
    BY Zenon, <2>9, <2>11, <2>12, <2>13, <2>14, <2>15, <2>16, RowsChange
<1>10. ASSUME NEW w \in Workers,
              \/ \E cause \in {"blocked", "failed"} : Unusable(w, cause)
              \/ Watch(w)
              \/ \E kept \in BOOLEAN : PutFails(w, kept)
              \/ Shutdown(w) \/ FinalizeLost(w) \/ SettleFails(w) \/ Crash(w)
       PROVE  CInv'
  <2>1. PICK cause \in {"failed", "blocked"} :
          Give(w, cause) \/ worker' = [worker EXCEPT ![w] = Idle]
    BY Zenon, <1>10 DEF Unusable, Watch, Denial, PutFails, Shutdown, FinalizeLost, SettleFails, Crash
  <2>2. UNCHANGED rows /\ objects \subseteq objects' /\ worker[w].phase # "idle"
    BY Zenon, <1>10 DEF Unusable, Watch, PutFails, Shutdown, FinalizeLost, SettleFails, Crash
  <2> QED
    BY Zenon, <2>1, <2>2, WorkerLeaves
<1>11. ASSUME NEW w \in Workers, Start(w) PROVE CInv'
  <2>1. UNCHANGED rows /\ objects \subseteq objects' /\ worker[w].phase = "claimed"
    BY Zenon, <1>11 DEF Start
  <2>2. CASE worker' = [worker EXCEPT ![w].phase = "reading"]
    <3> DEFINE m == [worker[w] EXCEPT !.phase = "reading"]
    <3>1. m \in Attempt /\ AttemptInv(m)
      BY <1>a, <2>1 DEF Attempt, Phases, AttemptInv
    <3> QED
      BY Zenon, <2>1, <2>2, <3>1, WorkerMoves
  <2>3. CASE Give(w, Denial(w))
    BY Zenon, <2>1, <2>3, WorkerLeaves DEF Denial
  <2> QED
    BY Zenon, <1>11, <2>2, <2>3 DEF Start
<1>12. ASSUME NEW w \in Workers, NEW r \in Repositories, ReadRepository(w, r) PROVE CInv'
  <2> DEFINE m == [worker[w] EXCEPT !.repository = r, !.records = 1]
  <2>0. /\ worker[w] \in Attempt /\ AttemptInv(worker[w])
        /\ worker[w].phase = "reading" /\ worker[w].records = 0
    BY Zenon, <1>12, <1>a DEF ReadRepository, Typed
  <2>a. m \in Attempt
    BY Zenon, <2>0, 1 \in Nat DEF Attempt
  <2>b. /\ m.phase = "reading" /\ m.job = worker[w].job /\ m.put = worker[w].put
        /\ m.repository = r
    BY Zenon, <2>0 DEF Attempt
  <2>1. m \in Attempt /\ AttemptInv(m)
    <3> HIDE DEF m
    <3> QED BY <2>0, <2>a, <2>b DEF AttemptInv
  <2>2. worker' = [worker EXCEPT ![w] = m]
    BY Zenon, <1>12, <1>a DEF ReadRepository, Typed
  <2> QED
    BY Zenon, <1>12, <2>1, <2>2, WorkerMoves DEF ReadRepository
<1>13. ASSUME NEW w \in Workers, NEW last \in BOOLEAN, ReadPage(w, last) PROVE CInv'
  <2> DEFINE native == IF last THEN "complete" ELSE IF worker[w].records >= Pages THEN "error" ELSE "none"
             m == [worker[w] EXCEPT !.records = @ + 1, !.native = native]
  <2>1. native \in {"none", "complete", "error"}
    BY Zenon
  <2>2. worker' = [worker EXCEPT ![w] = m]
    BY Zenon, <1>13, <1>a DEF ReadPage, Typed
  <2> HIDE DEF native
  <2>a. /\ m \in Attempt /\ m.phase = "reading" /\ m.job = worker[w].job /\ m.put = worker[w].put
        /\ m.repository = worker[w].repository
    <3>1. worker[w] \in Attempt /\ worker[w].phase = "reading"
      BY Zenon, <1>13, <1>a DEF ReadPage
    <3>2. worker[w].records + 1 \in Nat
      BY <3>1 DEF Attempt
    <3> QED
      BY Zenon, <2>1, <3>1, <3>2 DEF Attempt
  <2> HIDE DEF m
  <2>3. m \in Attempt /\ AttemptInv(m)
    BY Zenon, <1>13, <1>a, <2>a DEF ReadPage, AttemptInv
  <2> QED
    BY Zenon, <1>13, <2>2, <2>3, WorkerMoves DEF ReadPage
<1>14. ASSUME NEW w \in Workers, ReadFails(w) PROVE CInv'
  <2> DEFINE m == [worker[w] EXCEPT !.native = "error"]
  <2>1. m \in Attempt /\ AttemptInv(m)
    BY <1>14, <1>a DEF ReadFails, Attempt, Phases, AttemptInv
  <2>2. worker' = [worker EXCEPT ![w] = m]
    BY Zenon, <1>14, <1>a DEF ReadFails, Typed
  <2> QED
    BY Zenon, <1>14, <2>1, <2>2, WorkerMoves DEF ReadFails
<1>15. ASSUME NEW w \in Workers, Validate(w) PROVE CInv'
  <2>1. UNCHANGED rows /\ objects \subseteq objects' /\ worker[w].phase = "reading"
    BY Zenon, <1>15 DEF Validate
  <2>2. CASE Give(w, "failed")
    BY Zenon, <2>1, <2>2, WorkerLeaves
  <2>3. CASE worker[w].records # 0 /\ worker' = [worker EXCEPT ![w].phase = "putting", ![w].pinned = None]
    <3> DEFINE m == [worker[w] EXCEPT !.phase = "putting", !.pinned = None]
    <3>a. /\ m \in Attempt /\ m.phase = "putting" /\ m.job = worker[w].job /\ m.put = 0
          /\ m.repository = worker[w].repository /\ m.records = worker[w].records /\ m.records \in Nat
      <4>1. worker[w] \in Attempt /\ "putting" \in Phases /\ worker[w].put = 0
        BY Zenon, <1>a, <2>1 DEF Typed, Phases, AttemptInv
      <4>2. m \in Attempt
        BY Zenon, <4>1 DEF Attempt
      <4> QED
        BY Zenon, <4>1, <4>2 DEF Attempt
    <3>1. m \in Attempt /\ AttemptInv(m)
      <4> HIDE DEF m
      <4>1. m.records > 0 /\ 0..(m.put - 1) = {}
        BY <3>a, <2>3
      <4> QED
        BY Zenon, <1>a, <2>1, <3>a, <4>1 DEF AttemptInv
    <3>2. worker' = [worker EXCEPT ![w] = m]
      BY Zenon, <1>a, <2>3 DEF Typed
    <3> QED
      BY Zenon, <2>1, <3>1, <3>2, WorkerMoves
  <2> QED
    BY Zenon, <1>15, <2>2, <2>3 DEF Validate
<1>16. ASSUME NEW w \in Workers, Put(w) PROVE CInv'
  <2> DEFINE m == [worker[w] EXCEPT !.put = @ + 1]
  <2>1. m \in Attempt /\ m.phase = "putting" /\ m.job = worker[w].job /\ m.put = worker[w].put + 1
        /\ m.records = worker[w].records /\ m.repository = worker[w].repository
    BY <1>16, <1>a DEF Put, Attempt
  <2>2. worker' = [worker EXCEPT ![w] = m]
    BY Zenon, <1>16, <1>a DEF Put, Typed
  <2> HIDE DEF m
  <2>3. AttemptInv(worker[w]) /\ worker[w].put \in Nat /\ worker[w].phase = "putting"
        /\ objects' = objects \cup {<<worker[w].job, worker[w].put>>} /\ UNCHANGED rows
    BY Zenon, <1>16, <1>a DEF Put, Attempt
  <2>4. \A i \in 0..(m.put - 1) : <<m.job, i>> \in objects'
    BY <2>1, <2>3 DEF AttemptInv
  <2>5. Typed' /\ \A k \in Jobs : RowInv(k)'
    BY Zenon, <1>a, <2>1, <2>2, <2>3 DEF rows, Typed, RowInv
  <2>6. ASSUME NEW v \in Workers PROVE AttemptInv(worker[v])'
    <3>1. CASE v = w
      <4>1. worker'[v] = m
        BY Zenon, <1>a, <2>2, <3>1 DEF Typed
      <4> QED
        BY Zenon, <2>1, <2>3, <2>4, <4>1 DEF AttemptInv, rows
    <3>2. CASE v # w
      <4>1. worker'[v] = worker[v]
        BY Zenon, <1>a, <2>2, <3>2 DEF Typed
      <4>2. AttemptInv(worker[v]) /\ job' = job /\ source' = source /\ member' = member
        BY Zenon, <1>a, <2>3 DEF rows
      <4> QED
        BY Zenon, <2>3, <4>1, <4>2 DEF AttemptInv, Authority
    <3> QED
      BY Zenon, <3>1, <3>2
  <2> QED
    BY Zenon, <2>5, <2>6 DEF CInv
<1>17. ASSUME NEW w \in Workers, FinalizeBegin(w) PROVE CInv'
  <2>1. UNCHANGED rows /\ objects \subseteq objects' /\ worker[w].phase = "putting"
        /\ worker[w].put = worker[w].records
    BY Zenon, <1>17 DEF FinalizeBegin
  <2>2. CASE Give(w, Denial(w))
    BY Zenon, <2>1, <2>2, WorkerLeaves DEF Denial
  <2>3. CASE /\ Authority(worker[w].job)
             /\ worker' = [worker EXCEPT ![w].phase = "committing", ![w].asset = link[worker[w].repository]]
             /\ worker[w].repository \in Repositories
    <3> DEFINE m == [worker[w] EXCEPT !.phase = "committing", !.asset = link[worker[w].repository]]
    <3>1. link[worker[w].repository] \in Nat
      BY Zenon, <1>a, <2>3 DEF Typed
    <3>a. worker[w] \in Attempt /\ "committing" \in Phases /\ AttemptInv(worker[w])
      BY Zenon, <1>a DEF Typed, Phases
    <3>b. m \in Attempt
      BY Zenon, <3>1, <3>a DEF Attempt
    <3>c. /\ m.phase = "committing" /\ m.job = worker[w].job /\ m.put = worker[w].put
          /\ m.repository = worker[w].repository /\ m.records = worker[w].records
      BY Zenon, <3>a DEF Attempt
    <3>2. m \in Attempt /\ AttemptInv(m)
      <4> HIDE DEF m
      <4> QED BY <2>1, <2>3, <3>a, <3>b, <3>c DEF AttemptInv
    <3>3. worker' = [worker EXCEPT ![w] = m]
      BY Zenon, <1>a, <2>3 DEF Typed
    <3> QED
      BY Zenon, <2>1, <3>2, <3>3, WorkerMoves
  <2>4. worker[w].repository \in Repositories
    BY Zenon, <1>a, <2>1 DEF AttemptInv
  <2> QED
    BY Zenon, <1>17, <2>2, <2>3, <2>4 DEF FinalizeBegin
<1>18. ASSUME \/ \E j \in Jobs : ImportBegin(j)
              \/ ImportAccept
       PROVE  UNCHANGED <<rows, objects, worker>>
  BY Zenon, <1>18 DEF ImportBegin, ImportAccept
<1> QED
  BY Zenon, <1>1, <1>2, <1>3, <1>4, <1>5, <1>6, <1>7, <1>8, <1>9, <1>10, <1>11, <1>12, <1>13, <1>14, <1>15,
     <1>16, <1>17, <1>18
     DEF Next, vars, rows, imports, Administer, Work

LEMMA AlwaysCInv == Spec => []CInv
<1> QED
  BY InitCInv, NextCInv, PTL DEF Spec

\* publishSourceRecords runs to its end before finalizeSource writes the row: a
\* collection that tells of records has every one of them in the store.
THEOREM EvidenceStored == Spec => []EvidenceIsStored
<1>1. CInv => EvidenceIsStored
  BY Zenon DEF CInv, RowInv, EvidenceIsStored, Finished
<1> QED
  BY <1>1, AlwaysCInv, PTL

-----------------------------------------------------------------------------
\* What one step may do to a collection and to the imports.
Lawful ==
    \A j \in Jobs :
        /\ job[j].state \notin Finished /\ job'[j].state \in Finished => Authority(j)
        /\ j \in imported' \ imported =>
            /\ Authority(j)
            /\ job[j].asset = link[job[j].repository]
        /\ job[j].state \in Ended => job'[j] = job[j]

\* Only a worker inside finalizeSource finishes a collection, and it holds the
\* locks of the authority it checked; every change finds the row unfinished.
LEMMA StepLawful == CInv /\ [Next]_vars => Lawful
<1> SUFFICES ASSUME CInv, [Next]_vars, NEW j \in Jobs
             PROVE  /\ job[j].state \notin Finished /\ job'[j].state \in Finished => Authority(j)
                    /\ j \in imported' \ imported =>
                         Authority(j) /\ job[j].asset = link[job[j].repository]
                    /\ job[j].state \in Ended => job'[j] = job[j]
  BY Zenon DEF Lawful
<1> DEFINE Kept == job[j].state \in Ended => job'[j] = job[j]
           Fair == job[j].state \notin Finished /\ job'[j].state \in Finished => Authority(j)
<1>a. /\ job \in [Jobs -> JobRow] /\ worker \in [Workers -> Attempt]
      /\ \A k \in Jobs : RowInv(k)
      /\ \A w \in Workers : AttemptInv(worker[w])
  BY Zenon DEF CInv, Typed
<1>1. ASSUME ImportAccept
      PROVE  /\ job' = job
             /\ j \in imported' \ imported => Authority(j) /\ job[j].asset = link[job[j].repository]
  BY Zenon, <1>1 DEF ImportAccept, MayImport, rows
<1>2. CASE job' = job /\ imported' = imported
  BY Zenon, <1>2
<1>3. ASSUME NEW k \in Jobs, NEW s \in Sources, EnqueueSourceCollection(k, s) PROVE Kept /\ Fair
  BY Zenon, <1>3, <1>a DEF EnqueueSourceCollection, NoJob, Ended, Finished
<1>4. ASSUME NEW k \in Jobs, LeaseExpires(k) PROVE Kept /\ Fair
  <2>1. job[k].state = "collecting" /\ job'[k].state = "collecting"
    BY Zenon, <1>4, <1>a DEF LeaseExpires, RowInv, JobRow
  <2>2. k # j => job'[j] = job[j]
    BY Zenon, <1>4, <1>a DEF LeaseExpires
  <2> QED
    BY Zenon, <2>1, <2>2 DEF Ended, Finished
<1>5. ASSUME NEW w \in Workers, Claim(w) PROVE Kept /\ Fair
  <2>0. PICK k \in Claimable : ClaimJob(w, k)
    BY Zenon, <1>5 DEF Claim
  <2> DEFINE r(state) == [job[k] EXCEPT !.state = state, !.owner = w, !.fence = @ + 1, !.lease = "none"]
             c == [r("collecting") EXCEPT !.lease = "live"]
  <2>1. k \in Jobs /\ job[k] \in JobRow /\ job[k].state \in {"queued", "collecting"}
    BY Zenon, <1>a DEF Claimable
  <2>2. r("failed").state = "failed" /\ r("blocked").state = "blocked" /\ c.state = "collecting"
    BY Zenon, <2>1 DEF JobRow
  <2>3. \/ job' = [job EXCEPT ![k] = r("failed")]
        \/ job' = [job EXCEPT ![k] = r("blocked")]
        \/ job' = [job EXCEPT ![k] = c]
    BY Zenon, <2>0 DEF ClaimJob
  <2> HIDE DEF r, c
  <2> QED
    BY Zenon, <1>a, <2>1, <2>2, <2>3 DEF Ended, Finished
<1>6. ASSUME NEW w \in Workers, Settle(w) PROVE Kept /\ Fair
  <2> DEFINE k == worker[w].job
  <2>1. k \in Jobs /\ worker[w].cause \in {"failed", "blocked"} /\ job[k] \in JobRow
    BY Zenon, <1>6, <1>a DEF Settle, AttemptInv
  <2>2. \/ job' = job
        \/ /\ job[k].state = "collecting"
           /\ job' = [job EXCEPT ![k].state = worker[w].cause, ![k].lease = "none"]
    BY Zenon, <1>6 DEF Settle
  <2>3. (k # j => job'[j] = job[j]) /\ job'[k].state \in {job[k].state, worker[w].cause}
    BY <1>a, <2>1, <2>2 DEF JobRow
  <2> QED
    BY Zenon, <2>1, <2>2, <2>3 DEF Ended, Finished
<1>7. ASSUME NEW w \in Workers, NEW acknowledged \in BOOLEAN, FinalizeCommit(w, acknowledged)
      PROVE  Kept /\ Fair
  <2>1. /\ worker[w].job \in Jobs /\ Authority(worker[w].job)
        /\ job[worker[w].job].state = "collecting"
    BY Zenon, <1>7, <1>a DEF FinalizeCommit, Owns, AttemptInv
  <2>2. worker[w].job # j => job'[j] = job[j]
    BY Zenon, <1>7, <1>a DEF FinalizeCommit
  <2> QED
    BY Zenon, <2>1, <2>2 DEF Ended, Finished
<1>8. ASSUME NEW w \in Workers,
             \/ \E cause \in {"blocked", "failed"} : Unusable(w, cause)
             \/ Watch(w) \/ Start(w)
             \/ \E r \in Repositories : ReadRepository(w, r)
             \/ \E last \in BOOLEAN : ReadPage(w, last)
             \/ ReadFails(w) \/ Validate(w) \/ Put(w)
             \/ \E kept \in BOOLEAN : PutFails(w, kept)
             \/ FinalizeBegin(w) \/ FinalizeLost(w)
             \/ Shutdown(w) \/ SettleFails(w) \/ Crash(w)
      PROVE  job' = job /\ imported' = imported
  BY Zenon, <1>8 DEF Unusable, Watch, Start, ReadRepository, ReadPage, ReadFails, Validate, Put, PutFails,
              FinalizeBegin, FinalizeLost, Shutdown, SettleFails, Crash, rows, imports
<1>9. CASE \/ \E s \in Sources, enabled \in {"yes", "no"} : UpdateSource(s, enabled)
           \/ Demote
           \/ \E r \in Repositories : DeleteAsset(r)
           \/ \E k \in Jobs : ImportBegin(k)
           \/ UNCHANGED vars
  <2>1. job' = job /\ imported' = imported
    BY Zenon, <1>9 DEF UpdateSource, Demote, DeleteAsset, ImportBegin, rows, imports, vars
  <2> QED
    BY Zenon, <2>1, <1>2
<1>10. ASSUME \/ \E k \in Jobs, s \in Sources : EnqueueSourceCollection(k, s)
              \/ \E k \in Jobs : LeaseExpires(k)
              \/ \E w \in Workers :
                   \/ Claim(w) \/ Settle(w)
                   \/ \E acknowledged \in BOOLEAN : FinalizeCommit(w, acknowledged)
       PROVE  imported' = imported
  BY Zenon, <1>10 DEF EnqueueSourceCollection, LeaseExpires, Claim, Settle, FinalizeCommit, imports
<1> QED
  BY Zenon, <1>1, <1>2, <1>3, <1>4, <1>5, <1>6, <1>7, <1>8, <1>9, <1>10 DEF Next, Administer, Work

\* A collection is published, and a report imported, only while the requester
\* and the source still have the authority it was queued with; and a collection
\* that ended never changes again.
THEOREM Published == Spec => PublishedUnderAuthority
<1>1. CInv /\ [Next]_vars => [Lawful]_vars
  BY Zenon, StepLawful
<1>2. Spec => [][Lawful]_vars
  BY <1>1, AlwaysCInv, PTL DEF Spec
<1> QED
  BY Zenon, <1>2 DEF PublishedUnderAuthority, Lawful
=============================================================================
