----------------------------- MODULE MCInstaller -----------------------------
(***************************************************************************)
(* Both platforms, three configurations of two bundles (the second release  *)
(* has two), one role selection, one caller, and two activation             *)
(* definitions.                                                            *)
(***************************************************************************)
EXTENDS Installer, TLC

CONSTANTS b1, b2, c1, c2, c2b

MCBundle == c1 :> b1 @@ c2 :> b2 @@ c2b :> b2
MCUnitFiles == <<"aspm-postgres.container", "aspm-core.container">>
=============================================================================
