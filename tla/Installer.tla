------------------------------ MODULE Installer ------------------------------
(***************************************************************************)
(* The installer of aspmctl (internal/install/execution): it installs,      *)
(* upgrades, rolls back and removes one deployment step by step, and keeps  *)
(* a checkpoint file from which a later run resumes.                        *)
(*                                                                         *)
(* disk is the checkpoint; run is the process that executes a plan, with    *)
(* its own copy of the record; units, carried, active and running are the   *)
(* world the steps change: the Quadlet definitions, the bundle each step    *)
(* was last carried out for, the bundle whose activation the installer last *)
(* attempted, and the bundle whose application runs: None if the installer  *)
(* has not started it or has stopped it, "stopped" if the operator has.     *)
(* What systemd starts by itself, when the host or a service restarts, is   *)
(* left out.  last and switched are history.                                *)
(*                                                                         *)
(* A configuration names its release, so that a bundle is Bundle[config].   *)
(* Steps that only issue commands and stand next to each other are one      *)
(* step: "secrets" (namespace ... operator-storage-policy), "dependencies"  *)
(* (system-manager-reload ... wait-storage-ready) and "roles"               *)
(* (wait-core-ready ... wait-reports-ready).  A stale approval is refused   *)
(* before anything changes, so Execute is given the current plan.           *)
(***************************************************************************)
EXTENDS Naturals, Sequences, FiniteSets

CONSTANTS
  Kinds,          \* the platforms: "linux", "kubernetes"
  Configs,        \* installation configurations
  Bundle,         \* the signed bundle each configuration names
  RoleSelections, \* runtime role selections
  Callers,        \* identities a kubeconfig gives
  UnitFiles,      \* the activation definitions, in the order they are written
  MaxExecutions,  \* bound on the runs of Execute
  None

ASSUME InstallerConstants ==
  /\ Configs \subseteq DOMAIN Bundle
  /\ \E n \in 1..Len(UnitFiles) : UnitFiles[n] = "aspm-core.container"

VARIABLES platform, disk, run, units, carried, active, running, last, switched, executions

world == <<units, carried, active, running>>
vars == <<platform, disk, run, world, last, switched, executions>>

Units == {UnitFiles[n] : n \in 1..Len(UnitFiles)}
CoreUnit == "aspm-core.container"

KubernetesApply == <<"protected-credentials", "secrets", "helm-upgrade">>

LinuxApply ==
  <<"protected-credentials", "storage-policy-secret", "quadlet-files", "dependencies",
    "start-core", "roles">>

KubernetesUninstall(in) ==
  <<"protected-credentials", "helm-uninstall">>
    \o IF in.deleteData = "yes" THEN <<"delete-owned-data">> ELSE <<>>

LinuxUninstall ==
  <<"protected-credentials", "stop-owned-services", "remove-owned-activation-definitions",
    "reload-after-uninstall">>

\* The steps with activationBoundary: they can start the new application.
Boundary == {"helm-upgrade", "start-core"}

Stopping == {"helm-uninstall", "stop-owned-services"}

ApplySteps == IF platform = "linux" THEN LinuxApply ELSE KubernetesApply

StepsOf(in) ==
  IF in.op # "uninstall" THEN ApplySteps
  ELSE IF platform = "linux" THEN LinuxUninstall ELSE KubernetesUninstall(in)

Intents ==
  {in \in [op : {"apply", "rollback", "uninstall"}, config : Configs, roles : RoleSelections,
           caller : Callers, deleteData : {"yes", "no"}] :
     in.deleteData = "yes" => in.op = "uninstall" /\ platform = "kubernetes"}

----------------------------------------------------------------------------
(* What prepare makes of an intent.                                        *)

\* The change an "apply" is, by the cases of prepare in their order.
ApplyKind(d, in) ==
  LET same == d.bundle = Bundle[in.config]
  IN IF d.target = "none" THEN "initial-install"
     ELSE IF d.bundle = None
       THEN IF d.phase = "applied" /\ d.config = in.config /\ d.roles = in.roles
              THEN "checkpoint-migration" ELSE "refused"
     ELSE IF same /\ d.phase # "applied" /\ d.kind = "initial-install" THEN "initial-install"
     ELSE IF same /\ d.phase # "applied" /\ d.kind = "upgrade" /\ d.previousBundle # None
       THEN "upgrade"
     ELSE IF same THEN "reapply"
     ELSE IF d.phase # "applied" THEN "refused" ELSE "upgrade"

ChangeKind(d, in) ==
  CASE in.op = "uninstall" -> IF d.bundle = None THEN "refused" ELSE "uninstall"
    [] in.op = "rollback" ->
         IF /\ d.mode = "activation-eligible"
            /\ d.previousBundle = Bundle[in.config]
            /\ d.previousConfig = in.config
           THEN "rollback" ELSE "refused"
    [] OTHER -> ApplyKind(d, in)

\* A reapply takes the plan of the checkpoint over, and so does the repetition
\* of an unfinished apply; any other plan is named by all that it binds.
TakesOver(d, in) ==
  LET kind == ChangeKind(d, in)
  IN /\ d.plan # None
     /\ d.caller = in.caller
     /\ \/ kind = "reapply"
        \/ /\ in.op = "apply"
           /\ d.phase \in {"planned", "failed"}
           /\ d.kind = kind
           /\ d.config = in.config
           /\ d.roles = in.roles

PlanID(d, in) ==
  LET kind == ChangeKind(d, in)
      current == CASE kind = "initial-install" -> None
                   [] kind = "upgrade" /\ d.bundle = Bundle[in.config] -> d.previousBundle
                   [] kind = "checkpoint-migration" -> Bundle[in.config]
                   [] OTHER -> d.bundle
  IN IF TakesOver(d, in) THEN d.plan ELSE [intent |-> in, kind |-> kind, current |-> current]

\* validateOwnedUnits: a definition that is there is the one the checkpoint owns.
OwnedAreIntact(d) == \A u \in Units : d.owned[u] = None \/ units[u] \in {None, d.owned[u]}

\* What prepare and Execute require before the first save.
Accepts(d, in) ==
  /\ ChangeKind(d, in) # "refused"
  /\ in.op = "uninstall" => d.config = in.config /\ d.roles = in.roles
  /\ platform = "linux" /\ ChangeKind(d, in) # "checkpoint-migration" => OwnedAreIntact(d)

----------------------------------------------------------------------------
NewCheckpoint ==
  [target |-> "none", config |-> None, bundle |-> None, previousBundle |-> None,
   previousConfig |-> None, caller |-> None, roles |-> None, phase |-> "not-started",
   plan |-> None, kind |-> "", mode |-> "", completed |-> {},
   owned |-> [u \in Units |-> None]]

Content(in) == <<Bundle[in.config], in.roles>>

\* A version 2 checkpoint: installed, with no release recorded.
OldCheckpoint(in) ==
  [NewCheckpoint EXCEPT !.target = "this", !.config = in.config, !.caller = in.caller,
     !.roles = in.roles, !.phase = "applied",
     !.plan = [intent |-> in, kind |-> "", current |-> None],
     !.completed = {ApplySteps[n] : n \in 1..Len(ApplySteps)},
     !.owned = [u \in Units |-> IF platform = "linux" THEN Content(in) ELSE None]]

AllSteps ==
  {"protected-credentials", "secrets", "helm-upgrade", "storage-policy-secret", "quadlet-files",
   "dependencies", "start-core", "roles", "helm-uninstall", "delete-owned-data",
   "stop-owned-services", "remove-owned-activation-definitions", "reload-after-uninstall"}

InitialWorld(bundle, content) ==
  /\ units = [u \in Units |-> content]
  /\ carried = [s \in AllSteps |-> bundle]
  /\ active = bundle
  /\ running = bundle

Init ==
  /\ platform \in Kinds
  /\ \/ disk = NewCheckpoint /\ InitialWorld(None, None)
     \/ \E in \in Intents :
          /\ in.op = "apply"
          /\ disk = OldCheckpoint(in)
          /\ InitialWorld(Bundle[in.config], disk.owned[CoreUnit])
  /\ run = None
  /\ last = None
  /\ switched = "no"
  /\ executions = 0

----------------------------------------------------------------------------
(* Execute: what it saves before the first step.                           *)

\* Mutant: the release of an upgrade is recorded when it is finished.
RecordedLate(d, in) ==
  [d EXCEPT !.previousBundle = d.bundle, !.previousConfig = d.config,
            !.mode = "activation-eligible"]

\* The lineage of an upgrade: the release it leaves is the one to go back to.
Upgraded(d, in) ==
  [d EXCEPT !.previousBundle = d.bundle, !.previousConfig = d.config,
            !.bundle = Bundle[in.config], !.config = in.config, !.mode = "activation-eligible"]

Lineage(d, in) ==
  CASE ChangeKind(d, in) = "initial-install" ->
         [d EXCEPT !.bundle = Bundle[in.config], !.config = in.config, !.previousBundle = None,
                   !.previousConfig = None, !.mode = "not-needed"]
    [] ChangeKind(d, in) = "upgrade" /\ d.plan # PlanID(d, in) -> Upgraded(d, in)
    [] ChangeKind(d, in) = "reapply" ->
         [d EXCEPT !.bundle = Bundle[in.config], !.config = in.config]
    [] ChangeKind(d, in) = "uninstall" -> [d EXCEPT !.mode = "not-needed"]
    [] OTHER -> d

IsReapply(d, in) == d.phase = "applied" /\ ChangeKind(d, in) = "reapply"

\* Mutant: the steps of another plan count as completed.
KeptOfAnyPlan(d, in) == IF IsReapply(d, in) THEN {} ELSE d.completed

\* The completed steps a run starts from: those of the same plan.
Kept(d, in) == IF IsReapply(d, in) \/ d.plan # PlanID(d, in) THEN {} ELSE d.completed

Begin(in) ==
  /\ run = None
  /\ executions < MaxExecutions
  /\ Accepts(disk, in)
  /\ ChangeKind(disk, in) # "checkpoint-migration"
  /\ LET rec == [Lineage(disk, in) EXCEPT
                   !.target = "this", !.caller = in.caller, !.roles = in.roles,
                   !.plan = PlanID(disk, in), !.kind = ChangeKind(disk, in),
                   !.phase = "planned", !.completed = Kept(disk, in)]
         Remains(s) == s = "protected-credentials" \/ s \notin rec.completed
     IN /\ disk' = rec
        /\ run' = [in |-> in, rec |-> rec, todo |-> SelectSeq(StepsOf(in), Remains),
                   written |-> 0, ran |-> "no"]
  /\ last' = in
  /\ switched' = IF /\ ChangeKind(disk, in) = "reapply"
                   /\ disk.phase # "applied"
                   /\ disk.kind \in {"rollback", "uninstall"}
                THEN "yes" ELSE switched
  /\ executions' = executions + 1
  /\ UNCHANGED <<platform, world>>

\* The migration of an old checkpoint records the release and runs no step.
Migrate(in) ==
  /\ run = None
  /\ Accepts(disk, in)
  /\ ChangeKind(disk, in) = "checkpoint-migration"
  /\ disk' = [disk EXCEPT !.bundle = Bundle[in.config], !.caller = in.caller,
                !.plan = PlanID(disk, in), !.kind = "checkpoint-migration", !.mode = "not-needed"]
  /\ UNCHANGED <<platform, run, world, last, switched, executions>>

----------------------------------------------------------------------------
(* The loop over the steps.                                                *)

AtStep == run # None /\ run.todo # <<>> /\ run.ran = "no"

Step == Head(run.todo)

\* The boundary is still to be recorded.
MustCross ==
  /\ Step \in Boundary
  /\ run.rec.kind \in {"upgrade", "rollback"}
  /\ run.rec.mode = "activation-eligible"

\* Mutant: the boundary is saved with the checkpoint after the step.
CrossUnsaved ==
  /\ AtStep
  /\ MustCross
  /\ run' = [run EXCEPT !.rec.mode = "data-restore-required"]
  /\ UNCHANGED <<platform, disk, world, last, switched, executions>>

\* The save that precedes the activation.
Cross ==
  /\ AtStep
  /\ MustCross
  /\ LET rec == [run.rec EXCEPT !.mode = "data-restore-required"]
     IN run' = [run EXCEPT !.rec = rec] /\ disk' = rec
  /\ UNCHANGED <<platform, world, last, switched, executions>>

Runs == running \notin {None, "stopped"}

\* What a step requires by itself: credentials are made by an apply only, only
\* owned, intact definitions are stopped and removed, a service is started by its
\* definition, and the roles wait until the core is ready.
CanRun ==
  CASE Step = "protected-credentials" ->
         run.in.op = "apply" \/ carried["protected-credentials"] # None
    [] Step = "stop-owned-services" ->
         OwnedAreIntact(run.rec) /\ \E u \in Units : run.rec.owned[u] # None
    [] Step = "remove-owned-activation-definitions" -> OwnedAreIntact(run.rec)
    [] Step = "start-core" -> units[CoreUnit] # None
    [] Step = "roles" -> Runs
    [] OTHER -> TRUE

\* The bundle an activation is for: on Linux the one the definitions name, which
\* is started only where no service runs.
Activated == IF platform = "linux" THEN units[CoreUnit][1] ELSE Bundle[run.in.config]

\* The effect of the step on the deployment, complete or cut off.  helm upgrade
\* replaces the application; systemctl start leaves a service that runs alone.
Effect(complete) ==
  /\ carried' = [carried EXCEPT ![Step] = IF complete THEN Bundle[run.in.config] ELSE "partly"]
  /\ active' = IF Step \in Boundary THEN Activated ELSE active
  /\ running' = CASE Step = "helm-upgrade" \/ (Step = "start-core" /\ ~Runs) -> Activated
                  [] Step \in Stopping /\ complete -> None
                  [] OTHER -> running
  /\ units' \in
       IF Step # "remove-owned-activation-definitions" THEN {units}
       ELSE {[u \in Units |-> IF u \in gone THEN None ELSE units[u]] :
               gone \in {g \in SUBSET {u \in Units : run.rec.owned[u] # None} :
                           complete => \A u \in Units : run.rec.owned[u] # None => u \in g}}

\* The quadlet-files step writes one definition and notes its digest in memory.
WriteUnit ==
  /\ AtStep
  /\ Step = "quadlet-files"
  /\ run.written < Len(UnitFiles)
  /\ LET u == UnitFiles[run.written + 1]
     IN /\ units' = [units EXCEPT ![u] = Content(run.in)]
        /\ run' = [run EXCEPT !.rec.owned[u] = Content(run.in), !.written = @ + 1]
  /\ UNCHANGED <<platform, disk, carried, active, running, last, switched, executions>>

RunStep ==
  /\ AtStep
  /\ ~MustCross
  /\ CanRun
  /\ Step = "quadlet-files" => run.written = Len(UnitFiles)
  /\ Effect(TRUE)
  /\ run' = [run EXCEPT !.ran = "yes"]
  /\ UNCHANGED <<platform, disk, last, switched, executions>>

\* A command takes effect in part, or takes effect and its answer is lost.
Disturb ==
  /\ AtStep
  /\ ~MustCross
  /\ CanRun
  /\ carried[Step] # "partly"
  /\ Effect(FALSE)
  /\ UNCHANGED <<platform, disk, run, last, switched, executions>>

\* The checkpoint after a step.
Checkpoint ==
  /\ run # None
  /\ run.ran = "yes"
  /\ LET rec == [run.rec EXCEPT !.completed = @ \union {Step}]
     IN /\ run' = [run EXCEPT !.rec = rec, !.todo = Tail(@), !.written = 0, !.ran = "no"]
        /\ disk' = rec
  /\ UNCHANGED <<platform, world, last, switched, executions>>

\* failedStep: the bundle changed, a command failed, or a step was refused.
FailStep ==
  /\ AtStep
  /\ disk' = [run.rec EXCEPT !.phase = "failed"]
  /\ run' = None
  /\ UNCHANGED <<platform, world, last, switched, executions>>

Finished ==
  LET d == [run.rec EXCEPT !.phase = IF run.in.op = "uninstall" THEN "uninstalled" ELSE "applied"]
  IN IF d.kind # "rollback" THEN d
     ELSE [d EXCEPT !.bundle = Bundle[run.in.config], !.config = run.in.config,
                    !.previousBundle = None, !.previousConfig = None, !.mode = "not-needed"]

Finish ==
  /\ run # None
  /\ run.todo = <<>>
  /\ disk' = Finished
  /\ run' = None
  /\ UNCHANGED <<platform, world, last, switched, executions>>

\* The process ends anywhere: a crash, a signal, or a save that fails.
Crash ==
  /\ run # None
  /\ run' = None
  /\ UNCHANGED <<platform, disk, world, last, switched, executions>>

\* The operator stops the application, for the backup before an upgrade.
StopApplication ==
  /\ run = None
  /\ Runs
  /\ running' = "stopped"
  /\ UNCHANGED <<platform, disk, run, units, carried, active, last, switched, executions>>

Next ==
  \/ \E in \in Intents : Begin(in) \/ Migrate(in)
  \/ Cross \/ WriteUnit \/ RunStep \/ Disturb \/ Checkpoint \/ FailStep \/ Finish \/ Crash
  \/ StopApplication

Spec == Init /\ [][Next]_vars

----------------------------------------------------------------------------
\* A checkpoint that says "applied" or "uninstalled" tells what was done
\* (Execute skips the steps it finds in Completed): when it says "applied", the
\* steps of an apply were last carried out, completely, for the bundle it names.
\* On Kubernetes that bundle runs, unless the operator has stopped it since; on
\* Linux the definitions name it, so that it is what starts next, and something
\* runs, but not always that bundle: systemctl start does not replace a service
\* that runs.  When it says "uninstalled", nothing runs.  Excluded are deployments
\* in which a reapply followed an unfinished rollback, or an uninstall.
SettledIsTrue ==
  run = None /\ disk.bundle # None /\ switched = "no" =>
    /\ disk.phase = "applied" =>
         /\ \A n \in 1..Len(ApplySteps) : carried[ApplySteps[n]] = disk.bundle
         /\ platform = "kubernetes" => running \in {disk.bundle, "stopped"}
         /\ platform = "linux" => running # None /\ \A u \in Units : units[u][1] = disk.bundle
    /\ disk.phase = "uninstalled" => ~Runs

\* A rollback that comes to its activation goes back to the bundle the installer
\* activated last (Execute saves "data-restore-required" before the activation of
\* an upgrade): the data was not touched by the release it leaves.  Excluded are
\* the deployments of SettledIsTrue, and rollbacks to another configuration of
\* the same bundle.
RollbackIsSafe ==
  AtStep /\ run.rec.kind = "rollback" /\ Step \in Boundary
    /\ switched = "no" /\ Bundle[run.in.config] # disk.bundle =>
      active = Bundle[run.in.config]

\* What was interrupted can be repeated: when a run has ended before its end, by
\* an error or a crash, prepare and Execute accept the same intent again.  Refused
\* is a rollback that reached its activation, and a host whose definitions were
\* rewritten by a run that stopped before it could save their digests.
ResumeIsOffered ==
  run = None /\ disk.phase \in {"planned", "failed"} =>
    \/ Accepts(disk, last)
    \/ last.op = "rollback" /\ disk.mode = "data-restore-required"
    \/ platform = "linux" /\ ~OwnedAreIntact(disk)

\* README.md:219: "A failure before application activation can reactivate the
\* exact previous signed bundle through `aspmctl rollback`; after activation is
\* attempted, the installer requires verified backup restore instead of an unsafe
\* in-place downgrade."
ActivationNeedsRestore ==
  AtStep /\ run.rec.kind = "rollback" /\ Step \in Boundary => active = Bundle[run.in.config]
=============================================================================
