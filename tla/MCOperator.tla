----------------------------- MODULE MCOperator -----------------------------
(***************************************************************************)
(* The two jobs of aspmctl that keep a file to resume from, each by itself.*)
(*                                                                         *)
(* Installer: as MCInstaller says, with four executions.                   *)
(*                                                                         *)
(* Recovery: two restores of a backup of two objects into one destination, *)
(* three runs of apply and three of cleanup, so that one restore can be    *)
(* cleaned up in two runs and repeated while the other is under way.       *)
(***************************************************************************)
EXTENDS MCInstaller, Recovery

VARIABLE part

\* Restores are alike, and so are the two configurations of the second bundle.
MCSymmetry == {p @@ q : p \in Permutations(Restores), q \in Permutations({c2, c2b})}

\* One state of the installer is enough beside Recovery.
MCInit ==
  /\ Init /\ RecoveryInit
  /\ \/ part = "installation"
     \/ part = "recovery" /\ platform = "linux" /\ disk = NewCheckpoint

MCNext ==
  /\ \/ part = "installation" /\ Next /\ UNCHANGED recoveryVars
     \/ part = "recovery" /\ RecoveryNext /\ UNCHANGED vars
  /\ UNCHANGED part

MCSpec == MCInit /\ [][MCNext]_<<vars, recoveryVars, part>>
=============================================================================
