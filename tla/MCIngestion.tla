----------------------------- MODULE MCIngestion -----------------------------
(***************************************************************************)
(* A complete scan that reports two findings, and one other upload: a      *)
(* later scan that misses one of them, the same report sent by another     *)
(* user, or another report for the same scan.                              *)
(***************************************************************************)
EXTENDS Ingestion

CONSTANTS q1, q2, q3, q4, u1, u2, s1, s2, w1, w2, f1, f2, g1

MCUploads == {q1, q2, q3, q4}
MCScanOf == [q \in MCUploads |-> IF q = q2 THEN s2 ELSE s1]
MCContentOf == [q \in MCUploads |-> IF q = q4 THEN "other" ELSE "same"]
MCActorOf == [q \in MCUploads |-> IF q = q3 THEN u2 ELSE u1]
MCUsers == {u1, u2}
MCWorkers == {w1, w2}
MCIdentities == {f1, f2}
MCReportOf == [q \in MCUploads |->
  [status |-> "succeeded", complete |-> "yes", at |-> IF q = q2 THEN 2 ELSE 1,
   content |-> [f \in MCIdentities |-> IF q = q2 /\ f = f1 THEN NoDigest ELSE g1]]]

\* One of the other uploads, and no change to a user who takes no part.
OneOther ==
  /\ Cardinality({q \in {q2, q3, q4} : upload[q].pc # "new"}) <= 1
  /\ upload[q3].pc = "new" => u2 \in writers
=============================================================================
