--------------------------- MODULE RecoveryProofs ---------------------------
(***************************************************************************)
(* Proofs about Recovery for any number of restores, of objects and of     *)
(* runs.                                                                   *)
(*                                                                         *)
(* The argument: the journal of a restore, and the copy its process works  *)
(* on, each name every object and the schema the restore has in the         *)
(* destination.  A restore creates an object only under a key that both     *)
(* have as pending, above all the objects it made before; a cleanup takes a *)
(* key off when the object is gone.  Nobody else creates anything in the    *)
(* name of a restore.                                                      *)
(***************************************************************************)
EXTENDS Recovery, TLAPS

Points ==
  {"idle", "prepared", "object", "put", "check", "create", "load", "loaded", "verify", "failing",
   "clean", "delete", "deleted", "drop", "dropped"}

Process == [pc : Points, at : Nat, record : JournalRecord]

RTyped ==
  /\ objects \in [Keys -> Restores \cup {Other, Nothing}]
  /\ schema \in SchemaRecord \cup {Nothing}
  /\ journal \in [Restores -> JournalRecord \cup {Nothing}]
  /\ proc \in [Restores -> Process]

\* r has the schema.
HasSchema(r) == schema # Nothing /\ schema.by = r

\* rec names what r has in the destination.
Names(r, rec) ==
  /\ \A k \in Keys : objects[k] = r => k \in rec.created \/ rec.pending = k \/ <<r, k>> \in retried
  /\ HasSchema(r) => rec.schema \in {"pending", "created"}

\* What is known of a restore without a journal ...
NoJournal(r, p) ==
  /\ p.pc \in {"idle", "prepared"} /\ p.record = Fresh
  /\ ~HasSchema(r)
  /\ \A k \in Keys : objects[k] = r => <<r, k>> \in retried /\ p.pc = "idle"

\* ... and of one with journal j.
HasJournal(r, j, p) ==
  /\ p.pc # "prepared"
  /\ Names(r, j)
  /\ p.pc # "idle" => Names(r, p.record)
  /\ p.pc = "object" => p.record.pending = Nothing /\ j.pending = Nothing
  /\ p.pc \in {"put", "check"} => p.at \in Keys /\ p.record.pending = p.at /\ j.pending = p.at
  /\ p.pc \in {"object", "put"} => \A k \in Keys : k >= p.at => objects[k] # r
  /\ p.pc = "check" => \A k \in Keys : k > p.at => objects[k] # r
  /\ p.pc = "create" => p.record.schema = "pending" /\ j.schema = "pending"
  /\ p.pc \in {"delete", "deleted"} => p.at \in Keys
  /\ p.pc = "deleted" => objects[p.at] # r
  /\ p.pc = "dropped" => ~HasSchema(r)

RestoreInv(r) ==
  IF journal[r] = Nothing THEN NoJournal(r, proc[r]) ELSE HasJournal(r, journal[r], proc[r])

RecInv == RTyped /\ \A r \in Restores : RestoreInv(r)

-----------------------------------------------------------------------------
\* Before the first command nothing is there.
LEMMA InitRecInv == RecoveryInit => RecInv
<1> SUFFICES ASSUME RecoveryInit PROVE RecInv
  BY Zenon
<1>1. Fresh \in JournalRecord
  BY Zenon DEF Fresh, JournalRecord
<1>2. Idle \in Process /\ Idle.pc = "idle" /\ Idle.record = Fresh
  BY Zenon, <1>1 DEF Idle, Process, Points
<1>3. RTyped
  BY Zenon, <1>2 DEF RecoveryInit, RTyped
<1>4. ASSUME NEW r \in Restores PROVE RestoreInv(r)
  BY Zenon, <1>2, RecoveryAssumption DEF RecoveryInit, RestoreInv, NoJournal, HasSchema
<1> QED
  BY Zenon, <1>3, <1>4 DEF RecInv

\* What a process works on.
LEMMA JournalOf ==
  ASSUME RecInv, NEW r \in Restores, proc[r].pc \notin {"idle", "prepared"}
  PROVE  \E j \in JournalRecord, p \in Process :
           /\ journal[r] = j /\ proc[r] = p /\ j # Nothing
           /\ HasJournal(r, j, p)
  BY Zenon, RecoveryAssumption DEF RecInv, RTyped, RestoreInv, NoJournal

\* Nothing is added in the name of q.
Shrinks(q) ==
  /\ \A k \in Keys : objects'[k] = q => objects[k] = q
  /\ HasSchema(q)' => HasSchema(q)
  /\ retried \subseteq retried'

LEMMA Untouched ==
  ASSUME UNCHANGED <<destination, retried>>
  PROVE  \A q \in Restores : Shrinks(q)
  BY Zenon DEF Shrinks, HasSchema, destination

LEMMA NamesKept ==
  ASSUME NEW r \in Restores, NEW rec, Shrinks(r), Names(r, rec)
  PROVE  Names(r, rec)'
  BY Zenon DEF Shrinks, Names

\* A restore that is left alone.
LEMMA RestoreKept ==
  ASSUME NEW q \in Restores, RestoreInv(q), journal'[q] = journal[q], proc'[q] = proc[q], Shrinks(q)
  PROVE  RestoreInv(q)'
<1>1. PICK j, p : journal[q] = j /\ proc[q] = p
  BY Zenon
<1>2. CASE j = Nothing
  <2>1. NoJournal(q, p)
    BY Zenon, <1>1, <1>2 DEF RestoreInv
  <2>2. NoJournal(q, p)'
    BY Zenon, <2>1 DEF NoJournal, Shrinks
  <2> QED
    BY Zenon, <1>1, <1>2, <2>2 DEF RestoreInv
<1>3. CASE j # Nothing
  <2>1. HasJournal(q, j, p)
    BY Zenon, <1>1, <1>3 DEF RestoreInv
  <2>2. Names(q, j)' /\ (p.pc # "idle" => Names(q, p.record)')
    BY Zenon, <2>1, NamesKept DEF HasJournal
  <2>3. HasJournal(q, j, p)'
    BY Zenon, <2>1, <2>2 DEF HasJournal, Shrinks
  <2> QED
    BY Zenon, <1>1, <1>3, <2>3 DEF RestoreInv
<1> QED
  BY Zenon, <1>2, <1>3

\* Restore r goes on with journal j and process p.
Goes(r, j, p) ==
  /\ journal' \in [Restores -> JournalRecord \cup {Nothing}]
  /\ proc' \in [Restores -> Process]
  /\ journal'[r] = j /\ proc'[r] = p
  /\ \A q \in Restores : q # r => journal'[q] = journal[q] /\ proc'[q] = proc[q]

LEMMA GoesInv ==
  ASSUME RecInv, NEW r \in Restores, NEW j, NEW p, Goes(r, j, p),
         objects' \in [Keys -> Restores \cup {Other, Nothing}], schema' \in SchemaRecord \cup {Nothing},
         \A q \in Restores : q # r => Shrinks(q),
         j = Nothing => NoJournal(r, p)', j # Nothing => HasJournal(r, j, p)'
  PROVE  RecInv'
<1>1. RTyped'
  BY Zenon DEF RTyped, Goes
<1>2. RestoreInv(r)'
  BY Zenon DEF RestoreInv, Goes
<1>3. ASSUME NEW q \in Restores, q # r PROVE RestoreInv(q)'
  BY Zenon, <1>3, RestoreKept DEF RecInv, Goes
<1> QED
  BY Zenon, <1>1, <1>2, <1>3 DEF RecInv

\* When the process has nothing special in hand, the two records name what there is.
Easy == {"idle", "failing", "clean", "load", "loaded", "verify"}

LEMMA EasyInv ==
  ASSUME NEW r \in Restores, NEW j, NEW p, p.pc \in Easy, Names(r, j)',
         p.pc # "idle" => Names(r, p.record)'
  PROVE  HasJournal(r, j, p)'
  BY Zenon DEF HasJournal, Easy

LEMMA IdleType == Idle \in Process /\ Idle.pc = "idle" /\ Idle.record = Fresh /\ Idle.at = 1
                  /\ Fresh \in JournalRecord
<1>1. Fresh \in JournalRecord
  BY Zenon DEF Fresh, JournalRecord
<1> QED
  BY Zenon, <1>1 DEF Idle, Process, Points

LEMMA GotoGoes ==
  ASSUME RTyped, NEW r \in Restores, NEW pc \in Points, Goto(r, pc), journal' = journal
  PROVE  \E p \in Process : /\ Goes(r, journal[r], p)
                            /\ p.pc = pc /\ p.at = proc[r].at /\ p.record = proc[r].record
<1> DEFINE p == [proc[r] EXCEPT !.pc = pc]
<1>0. proc[r] \in Process
  BY Zenon DEF RTyped
<1>1. p \in Process
  BY Zenon, <1>0 DEF Process
<1>2. p.pc = pc /\ p.at = proc[r].at /\ p.record = proc[r].record
  BY Zenon, <1>0 DEF Process
<1>3. proc' = [proc EXCEPT ![r] = p]
  BY Zenon DEF Goto
<1> HIDE DEF p
<1>4. Goes(r, journal[r], p)
  BY Zenon, <1>1, <1>3 DEF Goes, RTyped
<1> QED
  BY Zenon, <1>1, <1>2, <1>4

LEMMA StopGoes ==
  ASSUME RTyped, NEW r \in Restores, NEW j \in JournalRecord \cup {Nothing},
         proc' = [proc EXCEPT ![r] = Idle], journal' = [journal EXCEPT ![r] = j]
  PROVE  Goes(r, j, Idle)
  BY Zenon, IdleType DEF Goes, RTyped

LEMMA SaveGoes ==
  ASSUME RTyped, NEW r \in Restores, NEW rec \in JournalRecord, NEW pc \in Points,
         NEW saved \in BOOLEAN, Save(r, rec, pc, saved)
  PROVE  \E p \in Process :
           \/ Goes(r, rec, p) /\ p.pc = pc /\ p.record = rec /\ p.at = proc[r].at
           \/ Goes(r, journal[r], p) /\ (p.pc = "idle" \/ (p.pc = "failing" /\ p.record = rec))
<1> DEFINE good == [proc[r] EXCEPT !.pc = pc, !.record = rec]
           bad == [proc[r] EXCEPT !.pc = "failing", !.record = rec]
<1>0. proc[r] \in Process /\ "failing" \in Points
  BY Zenon DEF RTyped, Points
<1>1. good \in Process /\ bad \in Process
  BY Zenon, <1>0 DEF Process
<1>2. /\ good.pc = pc /\ good.record = rec /\ good.at = proc[r].at
      /\ bad.pc = "failing" /\ bad.record = rec
  BY Zenon, <1>0 DEF Process
<1>3. CASE saved
  <2>1. journal' = [journal EXCEPT ![r] = rec] /\ proc' = [proc EXCEPT ![r] = good]
    BY Zenon, <1>3 DEF Save
  <2> HIDE DEF good
  <2>2. Goes(r, rec, good)
    BY Zenon, <1>1, <2>1 DEF Goes, RTyped
  <2> QED
    BY Zenon, <1>1, <1>2, <2>2
<1>4. CASE ~saved /\ rec.phase = "failed"
  <2>1. journal' = journal /\ proc' = [proc EXCEPT ![r] = Idle]
    BY Zenon, <1>4 DEF Save
  <2>2. Goes(r, journal[r], Idle)
    BY Zenon, <2>1, IdleType DEF Goes, RTyped
  <2> QED
    BY Zenon, <2>2, IdleType
<1>5. CASE ~saved /\ rec.phase # "failed"
  <2>1. journal' = journal /\ proc' = [proc EXCEPT ![r] = bad]
    BY Zenon, <1>5 DEF Save
  <2> HIDE DEF bad
  <2>2. Goes(r, journal[r], bad)
    BY Zenon, <1>1, <2>1 DEF Goes, RTyped
  <2> QED
    BY Zenon, <1>1, <1>2, <2>2
<1> QED
  BY Zenon, <1>3, <1>4, <1>5

\* A step that leaves the destination alone.
LEMMA QuietInv ==
  ASSUME RecInv, NEW r \in Restores, UNCHANGED <<destination, retried>>, NEW j, NEW p, Goes(r, j, p),
         j = Nothing => NoJournal(r, p), j # Nothing => HasJournal(r, j, p)
  PROVE  RecInv'
<1>1. \A q \in Restores : Shrinks(q)
  BY Zenon, Untouched
<1>2. objects' = objects /\ schema' = schema /\ retried' = retried
  BY Zenon DEF destination
<1>3. j = Nothing => NoJournal(r, p)'
  BY Zenon, <1>2 DEF NoJournal, HasSchema
<1>4. j # Nothing => HasJournal(r, j, p)'
  BY Zenon, <1>2 DEF HasJournal, Names, HasSchema
<1>5. objects' \in [Keys -> Restores \cup {Other, Nothing}] /\ schema' \in SchemaRecord \cup {Nothing}
  BY Zenon, <1>2 DEF RecInv, RTyped
<1> QED
  BY Zenon, <1>1, <1>3, <1>4, <1>5, GoesInv

\* So does the journal write itself, whether it fails or not.
LEMMA SaveInv ==
  ASSUME RecInv, NEW r \in Restores, UNCHANGED <<destination, retried>>,
         journal[r] # Nothing, Names(r, journal[r]),
         NEW rec \in JournalRecord, NEW pc \in Points, NEW saved \in BOOLEAN, Save(r, rec, pc, saved),
         Names(r, rec),
         \A p \in Process :
           p.pc = pc /\ p.record = rec /\ p.at = proc[r].at => HasJournal(r, rec, p)
  PROVE  RecInv'
<1>1. PICK p \in Process :
        \/ Goes(r, rec, p) /\ p.pc = pc /\ p.record = rec /\ p.at = proc[r].at
        \/ Goes(r, journal[r], p) /\ (p.pc = "idle" \/ (p.pc = "failing" /\ p.record = rec))
  BY SaveGoes DEF RecInv
<1>2. CASE Goes(r, rec, p) /\ p.pc = pc /\ p.record = rec /\ p.at = proc[r].at
  <2>1. HasJournal(r, rec, p) /\ rec # Nothing
    BY Zenon, <1>2, RecoveryAssumption
  <2> QED
    BY Zenon, <1>2, <2>1, QuietInv
<1>3. CASE Goes(r, journal[r], p) /\ (p.pc = "idle" \/ (p.pc = "failing" /\ p.record = rec))
  <2>1. PICK j : journal[r] = j
    BY Zenon
  <2>2. HasJournal(r, j, p)
    BY Zenon, <1>3, <2>1 DEF HasJournal
  <2> QED
    BY Zenon, <1>3, <2>1, <2>2, QuietInv
<1> QED
  BY Zenon, <1>1, <1>2, <1>3

-----------------------------------------------------------------------------
(* restore apply *)

LEMMA OpeningInv ==
  ASSUME RecInv, NEW r \in Restores, Preflight(r) \/ Open(r)
  PROVE  RecInv'
<1>t. RTyped /\ RestoreInv(r) /\ UNCHANGED <<destination, retried>>
  BY Zenon DEF RecInv, Preflight, Open
<1>1. CASE Preflight(r)
  <2>1. PICK p \in Process : /\ Goes(r, journal[r], p)
                             /\ p.pc = "prepared" /\ p.record = proc[r].record
    BY <1>1, <1>t, GotoGoes DEF Preflight, Points
  <2>2. journal[r] = Nothing /\ \A k \in Keys : objects[k] # r
    BY Zenon, <1>1, RecoveryAssumption DEF Preflight
  <2>3. NoJournal(r, p)
    BY Zenon, <1>t, <2>1, <2>2 DEF RestoreInv, NoJournal
  <2> QED
    BY Zenon, <1>t, <2>1, <2>2, <2>3, QuietInv
<1>2. CASE Open(r)
  <2>1. NoJournal(r, proc[r]) /\ proc[r].pc = "prepared"
    BY Zenon, <1>2, <1>t DEF Open, RestoreInv, HasJournal
  <2> DEFINE p == [proc[r] EXCEPT !.pc = "object"]
  <2>2. p \in Process /\ p.pc = "object" /\ p.record = Fresh
    BY Zenon, <1>t, <2>1 DEF RTyped, Process, Points, NoJournal
  <2>3. proc' = [proc EXCEPT ![r] = p] /\ journal' = [journal EXCEPT ![r] = Fresh]
    BY Zenon, <1>2 DEF Open, Goto
  <2> HIDE DEF p
  <2>4. Goes(r, Fresh, p) /\ Fresh # Nothing
    BY Zenon, <1>t, <2>2, <2>3, IdleType, RecoveryAssumption DEF Goes, RTyped
  <2>5. \A k \in Keys : objects[k] # r
    BY Zenon, <2>1 DEF NoJournal
  <2>6. Names(r, Fresh)
    BY Zenon, <2>1, <2>5 DEF NoJournal, Names
  <2>7. HasJournal(r, Fresh, p)
    BY <2>2, <2>5, <2>6 DEF HasJournal, Fresh
  <2> QED
    BY Zenon, <1>t, <2>4, <2>7, QuietInv
<1> QED
  BY Zenon, <1>1, <1>2

\* A key is marked before its object is created.
LEMMA MarkInv ==
  ASSUME RecInv, NEW r \in Restores, NEW saved \in BOOLEAN, Mark(r, saved)
  PROVE  RecInv'
<1>1. PICK j \in JournalRecord, q \in Process :
        journal[r] = j /\ proc[r] = q /\ j # Nothing /\ HasJournal(r, j, q)
  BY Zenon, JournalOf DEF Mark
<1>2. q.pc = "object" /\ q.at \in Keys /\ UNCHANGED <<destination, retried>>
  BY Zenon, <1>1 DEF Mark
<1> DEFINE rec == [q.record EXCEPT !.pending = q.at]
<1>3. q.record \in JournalRecord
  BY Zenon DEF Process
<1>4. rec \in JournalRecord
  BY Zenon, <1>2, <1>3 DEF JournalRecord
<1>5. rec.created = q.record.created /\ rec.schema = q.record.schema /\ rec.pending = q.at
  BY Zenon, <1>3 DEF JournalRecord
<1>6. Save(r, rec, "put", saved)
  BY Zenon, <1>1 DEF Mark
<1> HIDE DEF rec
<1>7. Names(r, rec)
  BY Zenon, <1>1, <1>2, <1>5, RecoveryAssumption DEF HasJournal, Names
<1>8. ASSUME NEW p \in Process, p.pc = "put", p.record = rec, p.at = q.at
      PROVE  HasJournal(r, rec, p)
  BY Zenon, <1>1, <1>2, <1>5, <1>7, <1>8 DEF HasJournal
<1>9. Names(r, j)
  BY Zenon, <1>1 DEF HasJournal
<1> QED
  BY <1>1, <1>2, <1>4, <1>6, <1>7, <1>8, <1>9, SaveInv DEF Points
\* The requests that may create the object under key k.
LEMMA NamesPut ==
  ASSUME RTyped, NEW r \in Restores, NEW k \in Keys, NEW rec, Names(r, rec),
         rec.pending = k \/ <<r, k>> \in retried',
         objects' = objects \/ objects' = [objects EXCEPT ![k] = r],
         schema' = schema, retried \subseteq retried'
  PROVE  Names(r, rec)'
<1>1. \A i \in Keys : i # k => objects'[i] = objects[i]
  BY Zenon DEF RTyped
<1> QED
  BY Zenon, <1>1 DEF Names, HasSchema

LEMMA PutQuiet ==
  ASSUME RTyped, NEW r \in Restores, NEW k \in Keys,
         objects' = objects \/ objects' = [objects EXCEPT ![k] = r],
         schema' = schema, retried \subseteq retried'
  PROVE  /\ objects' \in [Keys -> Restores \cup {Other, Nothing}]
         /\ schema' \in SchemaRecord \cup {Nothing}
         /\ \A q \in Restores : q # r => Shrinks(q)
         /\ \A i \in Keys : i # k => objects'[i] = objects[i]
<1>1. objects' \in [Keys -> Restores \cup {Other, Nothing}] /\ schema' \in SchemaRecord \cup {Nothing}
  BY Zenon DEF RTyped
<1>2. \A i \in Keys : objects'[i] = objects[i] \/ (i = k /\ objects'[i] = r)
  BY Zenon DEF RTyped
<1>3. ASSUME NEW q \in Restores, q # r PROVE Shrinks(q)
  BY Zenon, <1>2, <1>3 DEF Shrinks, HasSchema
<1> QED
  BY Zenon, <1>1, <1>2, <1>3

LEMMA PutInv ==
  ASSUME RecInv, NEW r \in Restores, Put(r) \/ PutLost(r)
  PROVE  RecInv'
<1>1. PICK j \in JournalRecord, q \in Process :
        journal[r] = j /\ proc[r] = q /\ j # Nothing /\ HasJournal(r, j, q)
  BY Zenon, JournalOf DEF Put, PutLost
<1>2. /\ q.pc = "put" /\ journal' = journal /\ schema' = schema /\ retried' = retried
      /\ objects' = objects \/ objects' = [objects EXCEPT ![q.at] = r]
  BY Zenon, <1>1 DEF Put, PutLost
<1>3. RTyped /\ q.at \in Keys /\ q.record.pending = q.at /\ j.pending = q.at
  BY Zenon, <1>1, <1>2 DEF HasJournal, RecInv
<1>4. Names(r, j) /\ Names(r, q.record)
  BY Zenon, <1>1, <1>2 DEF HasJournal
<1>5. Names(r, j)'
  BY Zenon, <1>2, <1>3, <1>4, NamesPut
<1>6. PICK rec : rec = q.record
  BY Zenon
<1>7. Names(r, rec)'
  BY Zenon, <1>2, <1>3, <1>4, <1>6, NamesPut
<1>8. /\ objects' \in [Keys -> Restores \cup {Other, Nothing}]
      /\ schema' \in SchemaRecord \cup {Nothing}
      /\ \A v \in Restores : v # r => Shrinks(v)
      /\ \A i \in Keys : i # q.at => objects'[i] = objects[i]
  BY Zenon, <1>2, <1>3, PutQuiet
<1>9. CASE Goto(r, "check")
  <2>1. PICK p \in Process : Goes(r, j, p) /\ p.pc = "check" /\ p.at = q.at /\ p.record = rec
    BY <1>1, <1>2, <1>3, <1>6, <1>9, GotoGoes DEF Points
  <2>2. \A k \in Keys : k > q.at => objects'[k] # r
    BY <1>1, <1>2, <1>3, <1>8 DEF HasJournal, Keys
  <2>3. HasJournal(r, j, p)'
    BY Zenon, <1>3, <1>5, <1>6, <1>7, <2>1, <2>2 DEF HasJournal
  <2> QED
    BY Zenon, <1>1, <1>8, <2>1, <2>3, GoesInv
<1>10. CASE Goto(r, "failing")
  <2>1. PICK p \in Process : Goes(r, j, p) /\ p.pc = "failing" /\ p.record = rec
    BY <1>1, <1>2, <1>3, <1>6, <1>10, GotoGoes DEF Points
  <2>2. HasJournal(r, j, p)'
    BY <1>5, <1>7, <2>1, EasyInv DEF Easy
  <2> QED
    BY Zenon, <1>1, <1>8, <2>1, <2>2, GoesInv
<1> QED
  BY Zenon, <1>9, <1>10 DEF Put, PutLost

\* The refused key is taken off: the object is not the restore's, or counts as
\* repeated.
LEMMA PutRefusedInv ==
  ASSUME RecInv, NEW r \in Restores, NEW saved \in BOOLEAN, PutRefused(r, saved)
  PROVE  RecInv'
<1>1. PICK j \in JournalRecord, q \in Process :
        journal[r] = j /\ proc[r] = q /\ j # Nothing /\ HasJournal(r, j, q)
  BY Zenon, JournalOf DEF PutRefused
<1> DEFINE rec == [q.record EXCEPT !.pending = Nothing]
<1>2. /\ q.pc = "put" /\ schema' = schema
      /\ objects' = [objects EXCEPT ![q.at] = IF @ = Nothing THEN r ELSE @]
      /\ retried' = IF objects[q.at] = Nothing THEN retried \cup {<<r, q.at>>} ELSE retried
      /\ Save(r, rec, "failing", saved)
  BY Zenon, <1>1 DEF PutRefused
<1>3. RTyped /\ q.at \in Keys /\ q.record.pending = q.at /\ j.pending = q.at /\ objects[q.at] # r
  BY <1>1, <1>2 DEF HasJournal, RecInv, Keys
<1>4. q.record \in JournalRecord
  BY Zenon DEF Process
<1>5. rec \in JournalRecord
  BY Zenon, <1>4 DEF JournalRecord
<1>6. rec.created = q.record.created /\ rec.schema = q.record.schema
  BY Zenon, <1>4 DEF JournalRecord
<1> HIDE DEF rec
<1>7. Names(r, j) /\ Names(r, q.record)
  BY Zenon, <1>1, <1>2 DEF HasJournal
<1>8. /\ objects' = objects \/ objects' = [objects EXCEPT ![q.at] = r]
      /\ retried \subseteq retried'
  BY Zenon, <1>2, <1>3 DEF RTyped
<1>9. Names(r, j)'
  BY Zenon, <1>2, <1>3, <1>7, <1>8, NamesPut
<1>10. objects'[q.at] = r => <<r, q.at>> \in retried'
  BY Zenon, <1>2, <1>3 DEF RTyped
<1>11. /\ objects' \in [Keys -> Restores \cup {Other, Nothing}]
       /\ schema' \in SchemaRecord \cup {Nothing}
       /\ \A v \in Restores : v # r => Shrinks(v)
       /\ \A i \in Keys : i # q.at => objects'[i] = objects[i]
  BY Zenon, <1>2, <1>3, <1>8, PutQuiet
<1>12. Names(r, rec)'
  BY Zenon, <1>2, <1>3, <1>6, <1>7, <1>8, <1>10, <1>11 DEF Names, HasSchema
<1>13. PICK p \in Process : \/ Goes(r, rec, p) /\ p.pc = "failing" /\ p.record = rec
                            \/ Goes(r, j, p) /\ (p.pc = "idle" \/ (p.pc = "failing" /\ p.record = rec))
  BY <1>1, <1>2, <1>3, <1>5, SaveGoes DEF Points
<1>14. HasJournal(r, rec, p)' /\ HasJournal(r, j, p)'
  BY <1>9, <1>12, <1>13, EasyInv DEF Easy
<1>15. rec # Nothing
  BY Zenon, <1>5, RecoveryAssumption
<1> QED
  BY Zenon, <1>1, <1>11, <1>13, <1>14, <1>15, GoesInv
\* The created object moves to the created keys.
LEMMA CheckpointInv ==
  ASSUME RecInv, NEW r \in Restores, NEW saved \in BOOLEAN, CheckpointObject(r, saved)
  PROVE  RecInv'
<1>1. PICK j \in JournalRecord, q \in Process :
        journal[r] = j /\ proc[r] = q /\ j # Nothing /\ HasJournal(r, j, q)
  BY Zenon, JournalOf DEF CheckpointObject
<1> DEFINE rec == [q.record EXCEPT !.created = @ \cup {q.at}, !.pending = Nothing]
           p == [pc |-> IF saved THEN "object" ELSE "failing", at |-> q.at + 1, record |-> rec]
<1>2. /\ q.pc = "check" /\ UNCHANGED <<destination, retried>>
      /\ journal' = IF saved THEN [journal EXCEPT ![r] = rec] ELSE journal
      /\ proc' = [proc EXCEPT ![r] = p]
  BY Zenon, <1>1 DEF CheckpointObject
<1>3. q.record \in JournalRecord /\ RTyped
  BY Zenon DEF Process, RecInv
<1>4. /\ q.at \in Keys /\ q.record.pending = q.at /\ Names(r, j) /\ Names(r, q.record)
      /\ \A k \in Keys : k > q.at => objects[k] # r
  BY Zenon, <1>1, <1>2 DEF HasJournal
<1>5. q.record.created \cup {q.at} \in SUBSET Keys
  BY Zenon, <1>3, <1>4 DEF JournalRecord
<1>6. rec \in JournalRecord
  BY Zenon, <1>3, <1>5 DEF JournalRecord
<1>7. /\ rec.created = q.record.created \cup {q.at} /\ rec.schema = q.record.schema
      /\ rec.pending = Nothing
  BY Zenon, <1>3 DEF JournalRecord
<1> HIDE DEF rec
<1>8. /\ p \in Process /\ p.record = rec /\ p.at = q.at + 1
      /\ saved => p.pc = "object"
      /\ ~saved => p.pc = "failing"
  BY <1>4, <1>6 DEF Process, Points, Keys
<1> HIDE DEF p
<1>9. Names(r, rec)
  BY Zenon, <1>4, <1>7 DEF Names
<1>10. \A k \in Keys : k >= p.at => objects[k] # r
  BY <1>4, <1>8 DEF Keys
<1>11. CASE saved
  <2>1. Goes(r, rec, p) /\ rec # Nothing
    BY Zenon, <1>2, <1>3, <1>6, <1>8, <1>11, RecoveryAssumption DEF Goes, RTyped
  <2>2. HasJournal(r, rec, p)
    BY Zenon, <1>7, <1>8, <1>9, <1>10, <1>11 DEF HasJournal
  <2> QED
    BY Zenon, <1>2, <2>1, <2>2, QuietInv
<1>12. CASE ~saved
  <2>1. Goes(r, j, p)
    BY Zenon, <1>1, <1>2, <1>3, <1>8, <1>12 DEF Goes, RTyped
  <2>2. HasJournal(r, j, p)
    BY Zenon, <1>4, <1>8, <1>9, <1>12 DEF HasJournal
  <2> QED
    BY Zenon, <1>1, <1>2, <2>1, <2>2, QuietInv
<1> QED
  BY Zenon, <1>11, <1>12

\* The journal writes around the schema, and the last one.
LEMMA SchemaWritesInv ==
  ASSUME RecInv, NEW r \in Restores, NEW saved \in BOOLEAN,
         MarkSchema(r, saved) \/ RecordSchema(r, saved) \/ Verify(r, saved)
  PROVE  RecInv'
<1>1. PICK j \in JournalRecord, q \in Process :
        journal[r] = j /\ proc[r] = q /\ j # Nothing /\ HasJournal(r, j, q)
  BY Zenon, JournalOf DEF MarkSchema, RecordSchema, Verify
<1>2. UNCHANGED <<destination, retried>>
  BY Zenon DEF MarkSchema, RecordSchema, Verify
<1>3. Names(r, j) /\ Names(r, q.record) /\ q.record \in JournalRecord
  BY Zenon, <1>1 DEF HasJournal, Process, MarkSchema, RecordSchema, Verify
<1>4. CASE MarkSchema(r, saved)
  <2> DEFINE rec == [q.record EXCEPT !.schema = "pending"]
  <2>1. rec \in JournalRecord
    BY Zenon, <1>3 DEF JournalRecord
  <2>2. rec.created = q.record.created /\ rec.pending = q.record.pending /\ rec.schema = "pending"
    BY Zenon, <1>3 DEF JournalRecord
  <2>3. Save(r, rec, "create", saved)
    BY Zenon, <1>1, <1>4 DEF MarkSchema
  <2> HIDE DEF rec
  <2>4. Names(r, rec)
    BY Zenon, <1>3, <2>2 DEF Names
  <2>5. ASSUME NEW p \in Process, p.pc = "create", p.record = rec
        PROVE  HasJournal(r, rec, p)
    BY Zenon, <2>2, <2>4, <2>5 DEF HasJournal
  <2> QED
    BY <1>1, <1>2, <1>3, <2>1, <2>3, <2>4, <2>5, SaveInv DEF Points
<1>5. CASE RecordSchema(r, saved)
  <2> DEFINE rec == [q.record EXCEPT !.schema = "created"]
  <2>1. rec \in JournalRecord
    BY Zenon, <1>3 DEF JournalRecord
  <2>2. rec.created = q.record.created /\ rec.pending = q.record.pending /\ rec.schema = "created"
    BY Zenon, <1>3 DEF JournalRecord
  <2>3. Save(r, rec, "verify", saved)
    BY Zenon, <1>1, <1>5 DEF RecordSchema
  <2> HIDE DEF rec
  <2>4. Names(r, rec)
    BY Zenon, <1>3, <2>2 DEF Names
  <2>5. ASSUME NEW p \in Process, p.pc = "verify", p.record = rec
        PROVE  HasJournal(r, rec, p)
    BY Zenon, <2>4, <2>5 DEF HasJournal
  <2> QED
    BY <1>1, <1>2, <1>3, <2>1, <2>3, <2>4, <2>5, SaveInv DEF Points
<1>6. CASE Verify(r, saved)
  <2> DEFINE rec == [q.record EXCEPT !.phase = "verified"]
  <2>1. rec \in JournalRecord
    BY Zenon, <1>3 DEF JournalRecord
  <2>2. /\ rec.created = q.record.created /\ rec.pending = q.record.pending
        /\ rec.schema = q.record.schema
    BY Zenon, <1>3 DEF JournalRecord
  <2>3. Save(r, rec, "idle", saved)
    BY Zenon, <1>1, <1>6 DEF Verify
  <2> HIDE DEF rec
  <2>4. Names(r, rec)
    BY Zenon, <1>3, <2>2 DEF Names
  <2>5. ASSUME NEW p \in Process, p.pc = "idle"
        PROVE  HasJournal(r, rec, p)
    BY Zenon, <2>4, <2>5 DEF HasJournal
  <2> QED
    BY <1>1, <1>2, <1>3, <2>1, <2>3, <2>4, <2>5, SaveInv DEF Points
<1> QED
  BY Zenon, <1>4, <1>5, <1>6

\* The schema is created when both records have it as pending, and filled.
LEMMA SchemaInv ==
  ASSUME RecInv, NEW r \in Restores,
         (\E answered \in BOOLEAN : CreateSchema(r, answered)) \/ LoadDump(r)
  PROVE  RecInv'
<1>1. PICK j \in JournalRecord, q \in Process :
        journal[r] = j /\ proc[r] = q /\ j # Nothing /\ HasJournal(r, j, q)
  BY Zenon, JournalOf DEF CreateSchema, LoadDump
<1>2. PICK pc \in {"load", "failing", "loaded"} : Goto(r, pc)
  BY Zenon DEF CreateSchema, LoadDump
<1>3. journal' = journal /\ objects' = objects /\ retried' = retried /\ RTyped
  BY Zenon DEF CreateSchema, LoadDump, RecInv
<1>4. PICK p \in Process : Goes(r, j, p) /\ p.pc = pc /\ p.record = q.record
  BY <1>1, <1>2, <1>3, GotoGoes DEF Points
<1>5. Names(r, j) /\ Names(r, q.record)
  BY Zenon, <1>1 DEF HasJournal, CreateSchema, LoadDump
<1>6. /\ schema' \in SchemaRecord
      /\ \A v \in Restores : schema'.by = v => HasSchema(v) \/ v = r
      /\ HasSchema(r) \/ (j.schema = "pending" /\ q.record.schema = "pending") \/ schema'.by # r
  <2>1. CASE \E answered \in BOOLEAN : CreateSchema(r, answered)
    <3>1. schema' = [by |-> r, loaded |-> "no"] /\ q.pc = "create"
      BY Zenon, <1>1, <2>1 DEF CreateSchema
    <3>2. j.schema = "pending" /\ q.record.schema = "pending"
      BY Zenon, <1>1, <3>1 DEF HasJournal
    <3> QED
      BY Zenon, <3>1, <3>2 DEF SchemaRecord
  <2>2. CASE LoadDump(r)
    <3>1. schema' = [schema EXCEPT !.loaded = "yes"] /\ schema # Nothing /\ schema \in SchemaRecord
      BY Zenon, <1>3, <2>2 DEF LoadDump, RTyped
    <3>2. schema' \in SchemaRecord /\ schema'.by = schema.by
      BY Zenon, <3>1 DEF SchemaRecord
    <3> QED
      BY Zenon, <3>1, <3>2 DEF HasSchema
  <2> QED
    BY Zenon, <2>1, <2>2
<1>7. PICK rec : rec = q.record
  BY Zenon
<1>8. Names(r, j)' /\ Names(r, rec)'
  BY Zenon, <1>3, <1>5, <1>6, <1>7 DEF Names, HasSchema
<1>9. HasJournal(r, j, p)'
  BY <1>2, <1>4, <1>7, <1>8, EasyInv DEF Easy
<1>10. \A v \in Restores : v # r => Shrinks(v)
  BY Zenon, <1>3, <1>6 DEF Shrinks, HasSchema
<1>11. objects' \in [Keys -> Restores \cup {Other, Nothing}]
  BY Zenon, <1>3 DEF RTyped
<1> QED
  BY Zenon, <1>1, <1>4, <1>6, <1>9, <1>10, <1>11, GoesInv

\* A restore that ends with an error writes its record, which names everything.
LEMMA FailInv ==
  ASSUME RecInv, NEW r \in Restores, Fail(r) \/ Failed(r)
  PROVE  RecInv'
<1>1. PICK j \in JournalRecord, q \in Process :
        journal[r] = j /\ proc[r] = q /\ j # Nothing /\ HasJournal(r, j, q)
  BY Zenon, JournalOf DEF Fail, Failed
<1>2. RTyped /\ UNCHANGED <<destination, retried>> /\ Names(r, j) /\ Names(r, q.record)
      /\ q.record \in JournalRecord
  BY Zenon, <1>1 DEF HasJournal, RecInv, Fail, Failed, Process
<1>3. CASE Fail(r)
  <2>1. PICK p \in Process : Goes(r, j, p) /\ p.pc = "failing" /\ p.record = q.record
    BY <1>1, <1>2, <1>3, GotoGoes DEF Fail, Points
  <2>2. HasJournal(r, j, p)
    BY Zenon, <1>2, <2>1 DEF HasJournal
  <2> QED
    BY Zenon, <1>1, <1>2, <2>1, <2>2, QuietInv
<1>4. CASE Failed(r)
  <2> DEFINE rec == [q.record EXCEPT !.phase = "failed"]
  <2>1. rec \in JournalRecord
    BY Zenon, <1>2 DEF JournalRecord
  <2>2. /\ rec.created = q.record.created /\ rec.pending = q.record.pending
        /\ rec.schema = q.record.schema
    BY Zenon, <1>2 DEF JournalRecord
  <2>3. journal' = [journal EXCEPT ![r] = rec] /\ proc' = [proc EXCEPT ![r] = Idle]
    BY Zenon, <1>1, <1>4 DEF Failed
  <2> HIDE DEF rec
  <2>4. Goes(r, rec, Idle) /\ rec # Nothing
    BY Zenon, <1>2, <2>1, <2>3, StopGoes, RecoveryAssumption
  <2>5. Names(r, rec)
    BY Zenon, <1>2, <2>2 DEF Names
  <2>6. HasJournal(r, rec, Idle)
    BY Zenon, <2>5, IdleType DEF HasJournal
  <2> QED
    BY Zenon, <1>2, <2>4, <2>6, QuietInv
<1> QED
  BY Zenon, <1>3, <1>4
-----------------------------------------------------------------------------
(* restore cleanup *)

LEMMA BeginInv ==
  ASSUME RecInv, NEW r \in Restores, BeginCleanup(r)
  PROVE  RecInv'
<1>1. PICK j : journal[r] = j
  BY Zenon
<1>2. j # Nothing /\ j \in JournalRecord /\ Names(r, j) /\ UNCHANGED <<destination, retried>>
  BY <1>1 DEF BeginCleanup, RecInv, RTyped, RestoreInv, HasJournal
<1> DEFINE rec == [j EXCEPT !.phase = "failed"]
<1>3. rec \in JournalRecord
  BY Zenon, <1>2 DEF JournalRecord
<1>4. rec.created = j.created /\ rec.pending = j.pending /\ rec.schema = j.schema
  BY Zenon, <1>2 DEF JournalRecord
<1>5. Save(r, rec, "clean", TRUE)
  BY Zenon, <1>1 DEF BeginCleanup
<1> HIDE DEF rec
<1>6. Names(r, rec)
  BY Zenon, <1>2, <1>4 DEF Names
<1>7. ASSUME NEW p \in Process, p.pc = "clean", p.record = rec PROVE HasJournal(r, rec, p)
  BY Zenon, <1>6, <1>7 DEF HasJournal
<1>8. PICK saved \in BOOLEAN : Save(r, rec, "clean", saved)
  BY Zenon, <1>5
<1> QED
  BY <1>1, <1>2, <1>3, <1>6, <1>7, <1>8, SaveInv DEF Points

\* A key that is looked at is one of the backup's; a deleted object is gone.
LEMMA LookInv ==
  ASSUME RecInv, NEW r \in Restores, Look(r)
  PROVE  RecInv'
<1>1. PICK j \in JournalRecord, q \in Process :
        journal[r] = j /\ proc[r] = q /\ j # Nothing /\ HasJournal(r, j, q)
  BY Zenon, JournalOf DEF Look
<1>2. q.record \in JournalRecord /\ RTyped /\ UNCHANGED <<destination, retried>>
  BY Zenon DEF Process, RecInv, Look
<1>3. Remaining(r) \subseteq Keys
  BY Zenon, <1>1, <1>2 DEF Remaining, JournalRecord
<1>4. PICK k \in Keys :
        proc' = [proc EXCEPT ![r].at = k,
                             ![r].pc = IF objects[k] = Nothing THEN "deleted" ELSE "delete"]
  BY Zenon, <1>3 DEF Look
<1>5. PICK pc \in {"deleted", "delete"} :
        /\ proc' = [proc EXCEPT ![r].at = k, ![r].pc = pc]
        /\ pc = "deleted" => objects[k] = Nothing
  BY Zenon, <1>4
<1> DEFINE p == [q EXCEPT !.at = k, !.pc = pc]
<1>6. pc \in Points /\ k \in Nat
  BY DEF Points, Keys
<1>7. p \in Process
  BY Zenon, <1>6 DEF Process
<1>8. p.at = k /\ p.pc = pc /\ p.record = q.record
  BY Zenon DEF Process
<1>9. proc' = [proc EXCEPT ![r] = p]
  BY Zenon, <1>1, <1>2, <1>5 DEF RTyped
<1> HIDE DEF p
<1>10. Goes(r, j, p)
  <2>1. journal' = journal
    BY Zenon DEF Look
  <2> QED
    BY Zenon, <1>1, <1>2, <1>7, <1>9, <2>1 DEF Goes, RTyped
<1>11. HasJournal(r, j, p)
  <2>1. Names(r, j) /\ Names(r, q.record)
    BY Zenon, <1>1 DEF HasJournal, Look
  <2> QED
    BY Zenon, <1>5, <1>8, <2>1, RecoveryAssumption DEF HasJournal
<1> QED
  BY Zenon, <1>1, <1>2, <1>10, <1>11, QuietInv

LEMMA DeleteInv ==
  ASSUME RecInv, NEW r \in Restores, Delete(r)
  PROVE  RecInv'
<1>1. PICK j \in JournalRecord, q \in Process :
        journal[r] = j /\ proc[r] = q /\ j # Nothing /\ HasJournal(r, j, q)
  BY Zenon, JournalOf DEF Delete
<1>2. /\ RTyped /\ q.pc = "delete" /\ q.at \in Keys
      /\ objects' = [objects EXCEPT ![q.at] = Nothing]
      /\ schema' = schema /\ retried' = retried /\ journal' = journal
  BY Zenon, <1>1 DEF RecInv, Delete, HasJournal
<1>3. PICK p \in Process : Goes(r, j, p) /\ p.pc = "deleted" /\ p.at = q.at /\ p.record = q.record
  BY <1>1, <1>2, GotoGoes DEF Delete, Points
<1>4. \A k \in Keys : objects'[k] = objects[k] \/ objects'[k] = Nothing
  BY Zenon, <1>2 DEF RTyped
<1>5. ASSUME NEW v \in Restores PROVE Shrinks(v)
  BY Zenon, <1>2, <1>4, RecoveryAssumption DEF Shrinks, HasSchema
<1>6. PICK rec : rec = q.record
  BY Zenon
<1>7. Names(r, j)' /\ Names(r, rec)'
  BY Zenon, <1>1, <1>2, <1>5, <1>6, NamesKept DEF HasJournal
<1>8. objects'[q.at] # r /\ objects' \in [Keys -> Restores \cup {Other, Nothing}]
      /\ schema' \in SchemaRecord \cup {Nothing}
  BY Zenon, <1>2, RecoveryAssumption DEF RTyped
<1>9. HasJournal(r, j, p)'
  BY Zenon, <1>2, <1>3, <1>6, <1>7, <1>8 DEF HasJournal
<1> QED
  BY Zenon, <1>1, <1>3, <1>5, <1>8, <1>9, GoesInv

LEMMA RecordsInv ==
  ASSUME RecInv, NEW r \in Restores, NEW saved \in BOOLEAN,
         RecordCleaned(r, saved) \/ RecordDropped(r, saved)
  PROVE  RecInv'
<1>1. PICK j \in JournalRecord, q \in Process :
        journal[r] = j /\ proc[r] = q /\ j # Nothing /\ HasJournal(r, j, q)
  BY Zenon, JournalOf DEF RecordCleaned, RecordDropped
<1>2. /\ UNCHANGED <<destination, retried>> /\ q.record \in JournalRecord
      /\ Names(r, j) /\ Names(r, q.record)
  BY Zenon, <1>1 DEF RecordCleaned, RecordDropped, HasJournal, Process
<1>3. CASE RecordCleaned(r, saved)
  <2> DEFINE k == q.at
             pending == IF q.record.pending = k THEN Nothing ELSE q.record.pending
             rec == [q.record EXCEPT !.created = @ \ {k}, !.pending = pending]
  <2>1. q.record.created \ {k} \in SUBSET Keys /\ pending \in Keys \cup {Nothing}
    BY Zenon, <1>2 DEF JournalRecord
  <2>2. Save(r, rec, "clean", saved)
    BY Zenon, <1>1, <1>2, <1>3 DEF RecordCleaned, JournalRecord
  <2>3. \A i \in Keys : q.record.pending = i /\ i # k => pending = i
    BY Zenon
  <2> HIDE DEF pending
  <2>4. rec \in JournalRecord
    BY Zenon, <1>2, <2>1 DEF JournalRecord
  <2>5. /\ rec.created = q.record.created \ {k} /\ rec.pending = pending
        /\ rec.schema = q.record.schema
    BY Zenon, <1>2 DEF JournalRecord
  <2> HIDE DEF rec
  <2>6. k \in Keys /\ objects[k] # r
    BY Zenon, <1>1, <1>3 DEF HasJournal, RecordCleaned
  <2>7. Names(r, rec)
    BY Zenon, <1>2, <2>3, <2>5, <2>6 DEF Names
  <2>8. ASSUME NEW p \in Process, p.pc = "clean", p.record = rec PROVE HasJournal(r, rec, p)
    BY Zenon, <2>7, <2>8 DEF HasJournal
  <2> QED
    BY <1>1, <1>2, <2>2, <2>4, <2>7, <2>8, SaveInv DEF Points
<1>4. CASE RecordDropped(r, saved)
  <2> DEFINE rec == [q.record EXCEPT !.schema = "absent"]
  <2>1. rec \in JournalRecord
    BY Zenon, <1>2 DEF JournalRecord
  <2>2. rec.created = q.record.created /\ rec.pending = q.record.pending
    BY Zenon, <1>2 DEF JournalRecord
  <2>3. Save(r, rec, "clean", saved)
    BY Zenon, <1>1, <1>4 DEF RecordDropped
  <2> HIDE DEF rec
  <2>4. ~HasSchema(r)
    BY Zenon, <1>1, <1>4 DEF HasJournal, RecordDropped
  <2>5. Names(r, rec)
    BY Zenon, <1>2, <2>2, <2>4 DEF Names
  <2>6. ASSUME NEW p \in Process, p.pc = "clean", p.record = rec PROVE HasJournal(r, rec, p)
    BY Zenon, <2>5, <2>6 DEF HasJournal
  <2> QED
    BY <1>1, <1>2, <2>1, <2>3, <2>5, <2>6, SaveInv DEF Points
<1> QED
  BY Zenon, <1>3, <1>4

LEMMA LookSchemaInv ==
  ASSUME RecInv, NEW r \in Restores, LookSchema(r)
  PROVE  RecInv'
<1>1. PICK j \in JournalRecord, q \in Process :
        journal[r] = j /\ proc[r] = q /\ j # Nothing /\ HasJournal(r, j, q)
  BY Zenon, JournalOf DEF LookSchema
<1>2. /\ RTyped /\ q.pc = "clean" /\ UNCHANGED <<destination, retried>> /\ journal' = journal
      /\ Names(r, j) /\ Names(r, q.record)
  BY Zenon, <1>1 DEF RecInv, LookSchema, HasJournal
<1>3. PICK pc \in {"drop", "dropped"} : Goto(r, pc) /\ (pc = "dropped" => schema = Nothing)
  BY Zenon DEF LookSchema
<1>4. pc \in Points
  BY Zenon DEF Points
<1>5. PICK p \in Process : Goes(r, j, p) /\ p.pc = pc /\ p.record = q.record
  BY Zenon, <1>1, <1>2, <1>3, <1>4, GotoGoes
<1>6. HasJournal(r, j, p)
  BY Zenon, <1>2, <1>3, <1>5 DEF HasJournal, HasSchema
<1> QED
  BY Zenon, <1>1, <1>2, <1>5, <1>6, QuietInv

LEMMA DropInv ==
  ASSUME RecInv, NEW r \in Restores, DropSchema(r)
  PROVE  RecInv'
<1>1. PICK j \in JournalRecord, q \in Process :
        journal[r] = j /\ proc[r] = q /\ j # Nothing /\ HasJournal(r, j, q)
  BY Zenon, JournalOf DEF DropSchema
<1>2. /\ RTyped /\ q.pc = "drop" /\ schema' = Nothing /\ objects' = objects
      /\ retried' = retried /\ journal' = journal
  BY Zenon, <1>1 DEF RecInv, DropSchema
<1>3. PICK p \in Process : Goes(r, j, p) /\ p.pc = "dropped" /\ p.record = q.record
  BY <1>1, <1>2, GotoGoes DEF DropSchema, Points
<1>4. ASSUME NEW v \in Restores PROVE Shrinks(v) /\ ~HasSchema(v)'
  BY Zenon, <1>2 DEF Shrinks, HasSchema
<1>5. PICK rec : rec = q.record
  BY Zenon
<1>6. Names(r, j)' /\ Names(r, rec)'
  BY Zenon, <1>1, <1>2, <1>4, <1>5, NamesKept DEF HasJournal
<1>7. HasJournal(r, j, p)'
  BY Zenon, <1>3, <1>4, <1>5, <1>6 DEF HasJournal
<1>8. objects' \in [Keys -> Restores \cup {Other, Nothing}] /\ schema' \in SchemaRecord \cup {Nothing}
  BY Zenon, <1>2 DEF RTyped
<1> QED
  BY Zenon, <1>1, <1>3, <1>4, <1>7, <1>8, GoesInv

\* The journal goes when its record names nothing any more.
LEMMA RemoveInv ==
  ASSUME RecInv, NEW r \in Restores, RemoveJournal(r)
  PROVE  RecInv'
<1>1. PICK j \in JournalRecord, q \in Process :
        journal[r] = j /\ proc[r] = q /\ j # Nothing /\ HasJournal(r, j, q)
  BY Zenon, JournalOf DEF RemoveJournal
<1>2. /\ RTyped /\ UNCHANGED <<destination, retried>> /\ Names(r, q.record)
      /\ q.record.schema = "absent"
      /\ q.record.created \cup ({q.record.pending} \ {Nothing}) = {}
  BY Zenon, <1>1 DEF RecInv, RemoveJournal, HasJournal, Remaining
<1>3. Goes(r, Nothing, Idle)
  BY Zenon, <1>2, StopGoes DEF RemoveJournal
<1>4. NoJournal(r, Idle)
  BY <1>2, IdleType, RecoveryAssumption DEF NoJournal, Names
<1> QED
  BY Zenon, <1>2, <1>3, <1>4, QuietInv

\* A process that stops leaves the journal.
LEMMA StopInv ==
  ASSUME RecInv, NEW r \in Restores, Stop(r)
  PROVE  RecInv'
<1>1. PICK j : journal[r] = j
  BY Zenon
<1>2. RTyped /\ RestoreInv(r) /\ UNCHANGED <<destination, retried>>
  BY Zenon DEF RecInv, Stop
<1>3. Goes(r, j, Idle)
  BY Zenon, <1>1, <1>2, IdleType DEF Goes, RTyped, Stop
<1>4. j = Nothing => NoJournal(r, Idle)
  BY Zenon, <1>1, <1>2, IdleType DEF RestoreInv, NoJournal
<1>5. j # Nothing => HasJournal(r, j, Idle)
  BY Zenon, <1>1, <1>2, IdleType DEF RestoreInv, HasJournal
<1> QED
  BY Zenon, <1>2, <1>3, <1>4, <1>5, QuietInv

\* A role creates a schema, if any, that belongs to no restore.
LEMMA RoleInv ==
  ASSUME RecInv, StartRole \/ StopRole
  PROVE  RecInv'
<1>1. /\ RTyped /\ objects' = objects /\ retried' = retried /\ journal' = journal /\ proc' = proc
      /\ schema' = schema \/ schema' = [by |-> Other, loaded |-> "no"]
  BY Zenon DEF RecInv, StartRole, StopRole
<1>2. RTyped'
  BY <1>1 DEF RTyped, SchemaRecord
<1>3. ASSUME NEW v \in Restores PROVE Shrinks(v)
  BY <1>1, RecoveryAssumption DEF Shrinks, HasSchema
<1>4. ASSUME NEW v \in Restores PROVE RestoreInv(v)'
  BY Zenon, <1>1, <1>3, RestoreKept DEF RecInv
<1> QED
  BY Zenon, <1>2, <1>4 DEF RecInv

-----------------------------------------------------------------------------
\* Every step of the restores, their cleanups and the roles preserves the invariant.
LEMMA NextRecInv == RecInv /\ [RecoveryNext]_recoveryVars => RecInv'
<1> SUFFICES ASSUME RecInv, [RecoveryNext]_recoveryVars PROVE RecInv'
  BY Zenon
<1>1. ASSUME NEW r \in Restores, Apply(r) PROVE RecInv'
  BY Zenon, <1>1, OpeningInv, MarkInv, PutInv, PutRefusedInv, CheckpointInv, SchemaWritesInv, SchemaInv,
     FailInv DEF Apply
<1>2. ASSUME NEW r \in Restores, Cleanup(r) PROVE RecInv'
  BY Zenon, <1>2, BeginInv, LookInv, DeleteInv, RecordsInv, LookSchemaInv, DropInv, RemoveInv
     DEF Cleanup
<1>3. CASE UNCHANGED recoveryVars
  <2>1. /\ RTyped /\ objects' = objects /\ schema' = schema /\ retried' = retried
        /\ journal' = journal /\ proc' = proc
    BY Zenon, <1>3 DEF RecInv, recoveryVars, destination
  <2>2. RTyped'
    BY Zenon, <2>1 DEF RTyped
  <2>3. ASSUME NEW v \in Restores PROVE RestoreInv(v)'
    BY Zenon, <2>1, RestoreKept DEF RecInv, Shrinks, HasSchema
  <2> QED
    BY Zenon, <2>2, <2>3 DEF RecInv
<1> QED
  BY Zenon, <1>1, <1>2, <1>3, StopInv, RoleInv DEF RecoveryNext

\* A restore without journal and process has left nothing of its own behind
\* (restoreObjects, restoreDatabase, cleanupRestore, recordCleanedRestoreObject),
\* for any number of restores, objects and runs, wherever they stop.
THEOREM CleanupComplete == RecoverySpec => []CleanupIsComplete
<1>1. RecInv => CleanupIsComplete
  BY Zenon DEF RecInv, RestoreInv, NoJournal, HasSchema, CleanupIsComplete
<1>2. RecoverySpec => []RecInv
  BY InitRecInv, NextRecInv, PTL DEF RecoverySpec
<1> QED
  BY <1>1, <1>2, PTL
=============================================================================
