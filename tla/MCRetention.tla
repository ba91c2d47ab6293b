----------------------------- MODULE MCRetention -----------------------------
(* Two workers and two runs over one observation and one import.  A run      *)
(* executes an approved preview of one item or is a restoration.               *)
EXTENDS Retention, TLC

CONSTANTS obs, rep, w1, w2, r1, r2

MCPreviews ==
  {<<<<"archive-history", obs>>>>, <<<<"expire-archive", obs>>>>,
   <<<<"delete-orphan", obs>>>>, <<<<"expire-raw-report", rep>>>>}

MCManifests == MCPreviews \cup {Restoration(obs)}

MCHistories ==
  {obs :> h @@ rep :> "expired" : h \in {"fresh", "archived", "damaged"}} \cup
  {obs :> "expired" @@ rep :> h : h \in {"fresh", "lost"}}

Symmetry == Permutations({w1, w2}) \cup Permutations({r1, r2})
=============================================================================
