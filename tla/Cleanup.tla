------------------------------ MODULE Cleanup -------------------------------
(***************************************************************************)
(* The cleanup operations of the console (console/cleanup.go, reclaim.go): *)
(* ownership checks, deletion of the deployment, adoption of released      *)
(* volumes whose provisioner identity is outdated, verification, and       *)
(* removal of the environment.  Each external command is a step; any may   *)
(* fail, or be cut by a cancel, before or after it took effect.  The       *)
(* Kubernetes controllers, provisioner restarts and redeployments by the   *)
(* user are the environment.                                               *)
(***************************************************************************)
EXTENDS Naturals

CONSTANTS
  Volumes,     \* names of persistent volumes
  Path,        \* the host path of each
  MaxFaults, MaxRestarts, MaxDeploys

ASSUME CleanupAssumption ==
  MaxFaults \in Nat /\ MaxRestarts \in Nat /\ MaxDeploys \in Nat

VARIABLES
  ns, release,   \* the project namespace and the Helm release exist
  pending,       \* a claim of the deployment waits for its volume
  pv,            \* the persistent volumes
  epoch,         \* the provisioner's current identity
  foreign,       \* other applications' things that are not volumes
  env,           \* what is left of the environment: "full", "vm", "none"
  probe,         \* temporary namespace and volume of the last recovery
  stray,         \* the probes that earlier recoveries left behind
  run,           \* the cleaner
  faults, deploys

cluster == <<ns, release, pending, pv, epoch, foreign, env>>
cleanupVars == <<cluster, probe, stray, run, faults, deploys>>

Absent == [phase |-> "absent"]

(* "good" is claimed by one of the project's two claims; "odd" by another  *)
(* claim of the namespace; "kept" has another reclaim policy than Delete.  *)
Kinds == {"good", "odd", "kept", "foreign"}

Volume(kind, phase, ident) == [phase |-> phase, kind |-> kind, ident |-> ident]

Present(vols) == {v \in Volumes : vols[v] # Absent}

(* ClaimRef.Namespace == project *)
Claimed(vols) == {v \in Present(vols) : vols[v].kind # "foreign"}

(* The probe namespace, and the identity its volume, if any, was given. *)
NoProbe == [ns |-> FALSE, volume |-> {}]

Probes == stray \cup {probe}

(* The cleaner's place, and clean's and recoverReleasedVolumes' variables. *)
Idle == [at |-> "done", result |-> "none", remove |-> FALSE, volumes |-> {}, again |-> FALSE,
         seen |-> [v \in Volumes |-> Absent], todo |-> {}, identity |-> 0]

CleanerPlaces ==
  {"done", "objects", "volumes", "others", "uninstall", "delete", "verify", "recover",
   "create", "claim", "patch", "unprobe", "unprobed", "wait", "minikube", "colima"}

VolumeType == [phase : {"Bound", "Released"}, kind : Kinds, ident : Nat]
ProbeType == [ns : BOOLEAN, volume : SUBSET Nat]
RunType == [at : CleanerPlaces, result : {"none", "ok", "failed", "refused"}, remove : BOOLEAN,
            volumes : SUBSET Volumes, again : BOOLEAN,
            seen : [Volumes -> VolumeType \cup {Absent}], todo : SUBSET Volumes, identity : Nat]

CleanupTypeOK ==
  /\ ns \in BOOLEAN /\ release \in BOOLEAN /\ pending \in BOOLEAN
  /\ pv \in [Volumes -> VolumeType \cup {Absent}]
  /\ epoch \in Nat
  /\ foreign \subseteq {"object", "namespace", "container"}
  /\ env \in {"full", "vm", "none"}
  /\ probe \in ProbeType /\ stray \subseteq ProbeType
  /\ run \in RunType
  /\ faults \in Nat /\ deploys \in Nat

-----------------------------------------------------------------------------
(* How a step ends *)

Proceeds(place) == run' = [run EXCEPT !.at = place]

Returns(result) == run' = [Idle EXCEPT !.result = result, !.remove = run.remove]

(* An error before the probe namespace exists, and one after: there the    *)
(* deferred function still runs.                                           *)
Error == IF run.at \in {"claim", "patch"}
         THEN run' = [run EXCEPT !.at = "unprobe", !.result = "failed"]
         ELSE Returns("failed")

-----------------------------------------------------------------------------
(* clean: ownership checks *)

(* Inventory of every namespaced kind; "object" is one owned refuses. *)
Objects ==
  /\ run.at = "objects"
  /\ IF "object" \in foreign THEN Returns("refused") ELSE Proceeds("volumes")
  /\ UNCHANGED <<cluster, probe, stray, faults, deploys>>

(* Mutant: unrelated volumes do not stop the removal of the environment. *)
Refusing_NoForeign(remove) ==
  \E v \in Claimed(pv) : pv[v].kind = "kept"

(* A volume that forbids the cleanup. *)
Refusing(remove) ==
  \/ \E v \in Claimed(pv) : pv[v].kind = "kept"
  \/ remove /\ (Present(pv) # Claimed(pv) \/ \E p \in Probes : p.volume # {})

ListVolumes ==
  /\ run.at = "volumes"
  /\ IF Refusing(run.remove) THEN Returns("refused")
     ELSE run' = [run EXCEPT !.volumes = Claimed(pv),
                             !.at = IF run.remove THEN "others" ELSE "uninstall"]
  /\ UNCHANGED <<cluster, probe, stray, faults, deploys>>

(* Namespaces, the default namespace, containers, Docker volumes. *)
Others ==
  /\ run.at = "others"
  /\ IF foreign # {} \/ (\E p \in Probes : p.ns) THEN Returns("refused") ELSE Proceeds("uninstall")
  /\ UNCHANGED <<cluster, probe, stray, faults, deploys>>

-----------------------------------------------------------------------------
(* clean: what it changes in the cluster *)

Uninstalled == release' = FALSE /\ UNCHANGED <<ns, pending, pv, epoch, foreign, env>>

NamespaceDeleted ==
  /\ ns' = FALSE /\ release' = FALSE /\ pending' = FALSE
  /\ foreign' = foreign \ {"object"}
  /\ UNCHANGED <<pv, epoch, env>>

Uninstall ==
  /\ run.at = "uninstall"
  /\ Uninstalled
  /\ Proceeds("delete")
  /\ UNCHANGED <<probe, stray, faults, deploys>>

DeleteNamespace ==
  /\ run.at = "delete"
  /\ NamespaceDeleted
  /\ Proceeds("verify")
  /\ UNCHANGED <<probe, stray, faults, deploys>>

(* The namespace is gone: on to recoverReleasedVolumes. *)
VerifyNamespace ==
  /\ run.at = "verify"
  /\ IF ns THEN Error ELSE Proceeds("recover")
  /\ UNCHANGED <<cluster, probe, stray, faults, deploys>>

(* The volumes are waited for one by one. *)
NextVolume == CHOOSE v \in run.volumes : TRUE

(* When the wait is in vain, recovery is tried once more before the volume *)
(* counts as stuck.                                                        *)
TryAgain == IF run.again THEN Error ELSE run' = [run EXCEPT !.at = "recover", !.again = TRUE]

WaitVolume ==
  /\ run.at = "wait" /\ run.volumes # {}
  /\ IF pv[NextVolume] = Absent
     THEN run' = [run EXCEPT !.volumes = @ \ {NextVolume}, !.again = FALSE]
     ELSE TryAgain
  /\ UNCHANGED <<cluster, probe, stray, faults, deploys>>

(* Neither the wait nor the look at the volume worked. *)
WaitFails ==
  /\ run.at = "wait" /\ run.volumes # {} /\ faults < MaxFaults
  /\ faults' = faults + 1
  /\ TryAgain
  /\ UNCHANGED <<cluster, probe, stray, deploys>>

(* Mutant: the volumes of the first inventory are all there is. *)
Remaining_None == {}

Remaining == Claimed(pv)

(* The last inventory. *)
FinalCheck ==
  /\ run.at = "wait" /\ run.volumes = {}
  /\ IF Remaining # {} THEN Error
     ELSE IF run.remove THEN Proceeds("minikube") ELSE Returns("ok")
  /\ UNCHANGED <<cluster, probe, stray, faults, deploys>>

(* minikube delete takes the cluster and all that is in it. *)
MinikubeDeleted ==
  /\ ns' = FALSE /\ release' = FALSE /\ pending' = FALSE
  /\ pv' = [v \in Volumes |-> Absent]
  /\ foreign' = foreign \ {"object", "namespace"}
  /\ env' = "vm"
  /\ probe' = NoProbe /\ stray' = {}
  /\ UNCHANGED epoch

ColimaDeleted ==
  /\ foreign' = foreign \ {"container"}
  /\ env' = "none"
  /\ UNCHANGED <<ns, release, pending, pv, epoch, probe, stray>>

DeleteMinikube ==
  /\ run.at = "minikube"
  /\ MinikubeDeleted
  /\ Proceeds("colima")
  /\ UNCHANGED <<faults, deploys>>

DeleteColima ==
  /\ run.at = "colima"
  /\ ColimaDeleted
  /\ Returns("ok")
  /\ UNCHANGED <<faults, deploys>>

-----------------------------------------------------------------------------
(* recoverReleasedVolumes *)

Recoverable(vols, v) ==
  vols[v] # Absent /\ vols[v].kind = "good" /\ vols[v].phase = "Released"

Targets(vols) == {v \in Volumes : Recoverable(vols, v)}

(* Mutant: paths are not compared. *)
Shared_Ignored(vols) == FALSE

(* Mutant: two released volumes of one claim stand in each other's way. *)
Shared_Strict(vols) ==
  \E v \in Targets(vols), other \in Present(vols) : v # other /\ Path[v] = Path[other]

(* A target's path is also that of a volume which is no target. *)
Shared(vols) ==
  \E v \in Targets(vols), other \in Present(vols) \ Targets(vols) : Path[v] = Path[other]

(* The inventory, and the checks made on it. *)
Recover ==
  /\ run.at = "recover"
  /\ IF Targets(pv) = {} THEN Proceeds("wait")
     ELSE IF ns \/ Shared(pv) THEN Error
     ELSE run' = [run EXCEPT !.at = "create", !.seen = pv, !.todo = Targets(pv)]
  /\ UNCHANGED <<cluster, probe, stray, faults, deploys>>

ProbeCreated == probe' = [NoProbe EXCEPT !.ns = TRUE]
ProbeBound == probe' = [probe EXCEPT !.volume = {epoch}]

CreateProbe ==
  /\ run.at = "create"
  /\ ProbeCreated
  /\ Proceeds("claim")
  /\ UNCHANGED <<cluster, stray, faults, deploys>>

(* The claim is created and bound, and the identity read from its volume. *)
ProbeIdentity ==
  /\ run.at = "claim"
  /\ ProbeBound
  /\ run' = [run EXCEPT !.at = "patch", !.identity = epoch]
  /\ UNCHANGED <<cluster, stray, faults, deploys>>

Adopted(v) ==
  /\ pv' = [pv EXCEPT ![v].ident = run.identity]
  /\ UNCHANGED <<ns, release, pending, epoch, foreign, env>>

(* The guarded patch of one target: it only applies to the volume as seen. *)
Patch ==
  /\ run.at = "patch" /\ run.todo # {}
  /\ \E v \in run.todo :
       IF run.seen[v].ident = run.identity
       THEN run' = [run EXCEPT !.todo = @ \ {v}] /\ UNCHANGED cluster
       ELSE IF pv[v] = run.seen[v]
       THEN run' = [run EXCEPT !.todo = @ \ {v}] /\ Adopted(v)
       ELSE Error /\ UNCHANGED cluster
  /\ UNCHANGED <<probe, stray, faults, deploys>>

AllPatched ==
  /\ run.at = "patch" /\ run.todo = {}
  /\ Proceeds("unprobe")
  /\ UNCHANGED <<cluster, probe, stray, faults, deploys>>

ProbeDeleted == probe' = [probe EXCEPT !.ns = FALSE]

(* The deferred function: delete the namespace, wait for its volume. *)
Unprobe ==
  /\ run.at = "unprobe"
  /\ ProbeDeleted
  /\ Proceeds("unprobed")
  /\ UNCHANGED <<cluster, stray, faults, deploys>>

Unprobed ==
  /\ run.at = "unprobed"
  /\ IF probe.volume # {} \/ run.result = "failed" THEN Returns("failed") ELSE Proceeds("wait")
  /\ UNCHANGED <<cluster, probe, stray, faults, deploys>>

-----------------------------------------------------------------------------
(* A command that changes something fails or is cut: it may have worked. *)
HalfDone ==
  CASE run.at = "uninstall" -> Uninstalled /\ UNCHANGED <<probe, stray>>
    [] run.at = "delete" -> NamespaceDeleted /\ UNCHANGED <<probe, stray>>
    [] run.at = "minikube" -> MinikubeDeleted
    [] run.at = "colima" -> ColimaDeleted
    [] run.at = "create" -> ProbeCreated /\ UNCHANGED <<cluster, stray>>
    [] run.at = "claim" -> ProbeBound /\ UNCHANGED <<cluster, stray>>
    [] run.at = "patch" /\ run.todo # {} ->
         (\E v \in run.todo : pv[v] = run.seen[v] /\ Adopted(v)) /\ UNCHANGED <<probe, stray>>
    [] run.at = "unprobe" -> ProbeDeleted /\ UNCHANGED <<cluster, stray>>
    [] OTHER -> UNCHANGED <<cluster, probe, stray>>

Fault ==
  /\ run.at # "done" /\ faults < MaxFaults
  /\ faults' = faults + 1
  /\ HalfDone \/ UNCHANGED <<cluster, probe, stray>>
  /\ Error
  /\ UNCHANGED deploys

-----------------------------------------------------------------------------
(* The user, between operations *)

(* A cleanup is started; cluster-up comes first. *)
Clean(remove) ==
  /\ run.at = "done"
  /\ run' = [Idle EXCEPT !.at = "objects", !.remove = remove]
  /\ env' = "full"
  /\ stray' = Probes \ {NoProbe} /\ probe' = NoProbe
  /\ UNCHANGED <<ns, release, pending, pv, epoch, foreign, faults, deploys>>

Deploy ==
  /\ run.at = "done" /\ env = "full" /\ deploys < MaxDeploys
  /\ deploys' = deploys + 1
  /\ ns' = TRUE /\ release' = TRUE /\ pending' = TRUE
  /\ run' = Idle
  /\ UNCHANGED <<pv, epoch, foreign, env, probe, stray, faults>>

-----------------------------------------------------------------------------
(* Kubernetes *)

Provision(v) ==
  /\ pending /\ pv[v] = Absent
  /\ pending' = FALSE
  /\ pv' = [pv EXCEPT ![v] = Volume("good", "Bound", epoch)]
  /\ UNCHANGED <<ns, release, epoch, foreign, env, probe, stray, run, faults, deploys>>

(* The claim went with the namespace. *)
Released(v) ==
  /\ v \in Claimed(pv) /\ pv[v].phase = "Bound" /\ ~ns
  /\ pv' = [pv EXCEPT ![v].phase = "Released"]
  /\ UNCHANGED <<ns, release, pending, epoch, foreign, env, probe, stray, run, faults, deploys>>

(* The provisioner reclaims the released volumes it recognises as its own. *)
Reclaim(v) ==
  /\ v \in Claimed(pv) /\ pv[v].phase = "Released"
  /\ pv[v].kind # "kept" /\ pv[v].ident = epoch
  /\ pv' = [pv EXCEPT ![v] = Absent]
  /\ UNCHANGED <<ns, release, pending, epoch, foreign, env, probe, stray, run, faults, deploys>>

(* The same for the volumes of probes, left behind or not. *)
Gone(p) == IF ~p.ns /\ epoch \in p.volume THEN [p EXCEPT !.volume = {}] ELSE p

ReclaimProbes ==
  /\ probe' = Gone(probe)
  /\ stray' = {Gone(p) : p \in stray} \ {NoProbe}
  /\ UNCHANGED <<cluster, run, faults, deploys>>

(* The provisioner restarts under a new identity. *)
ProvisionerRestarts ==
  /\ epoch < MaxRestarts
  /\ epoch' = epoch + 1
  /\ UNCHANGED <<ns, release, pending, pv, foreign, env, probe, stray, run, faults, deploys>>

-----------------------------------------------------------------------------
(* A cluster on which earlier deployments and cleanups have left anything. *)
CleanupInit ==
  /\ ns \in BOOLEAN /\ release = ns /\ pending = FALSE
  /\ epoch = 1
  /\ \E old \in Volumes, kind \in Kinds, phase \in {"Bound", "Released"}, ident \in {0, 1} :
       /\ kind = "foreign" => phase = "Bound"
       /\ kind # "foreign" /\ phase = "Bound" => ns
       /\ \/ pv = [v \in Volumes |-> IF v = old THEN Volume(kind, phase, ident) ELSE Absent]
          \/ pv = [v \in Volumes |-> Absent]
  /\ foreign \in {{}, {"namespace"}, {"container"}} \cup (IF ns THEN {{"object"}} ELSE {})
  /\ env = "full"
  /\ probe = NoProbe /\ stray = {}
  /\ run = Idle
  /\ faults = 0 /\ deploys = 0

CleanerStep ==
  \/ Objects \/ ListVolumes \/ Others
  \/ Uninstall \/ DeleteNamespace \/ VerifyNamespace \/ WaitVolume \/ FinalCheck
  \/ DeleteMinikube \/ DeleteColima
  \/ Recover \/ CreateProbe \/ ProbeIdentity \/ Patch \/ AllPatched \/ Unprobe \/ Unprobed

Kubernetes ==
  \/ \E v \in Volumes : Provision(v) \/ Released(v) \/ Reclaim(v)
  \/ ReclaimProbes

CleanupNext ==
  \/ CleanerStep \/ WaitFails \/ Fault
  \/ \E remove \in BOOLEAN : Clean(remove)
  \/ Deploy
  \/ Kubernetes \/ ProvisionerRestarts

CleanupSpec == CleanupInit /\ [][CleanupNext]_cleanupVars

(* Commands end, controllers do their work, and the user tries again. *)
LiveCleanupSpec ==
  /\ CleanupSpec
  /\ WF_cleanupVars(CleanerStep)
  /\ WF_cleanupVars(ReclaimProbes)
  /\ \A v \in Volumes : WF_cleanupVars(Released(v)) /\ WF_cleanupVars(Reclaim(v))
  /\ SF_cleanupVars(Clean(FALSE))

-----------------------------------------------------------------------------
(* Nothing that is not the project's is ever deleted or changed: the       *)
(* refusals come before the first deletion, on the first try and on every  *)
(* retry after a cleanup that stopped half way.                            *)
ForeignKept ==
  [][/\ foreign' = foreign
     /\ \A v \in Present(pv) : pv[v].kind \in {"foreign", "kept"} =>
          pv'[v] # Absent /\ pv'[v].ident = pv[v].ident]_cleanupVars

(* A volume is only handed to the current provisioner, which will delete   *)
(* its directory, while the project is undeployed and no volume in use has *)
(* the same path.                                                          *)
AdoptionSafe ==
  [][\A v \in Present(pv) : pv'[v] # Absent /\ pv'[v].ident # pv[v].ident =>
       /\ ~ns /\ pv[v].phase = "Released"
       /\ \A w \in Present(pv) : Path[w] = Path[v] => Recoverable(pv, w)]_cleanupVars

(* A cleanup that reports success left no namespace, no volume of the      *)
(* project, late ones included, and nothing of its own probes; a removal   *)
(* left no environment.                                                    *)
SuccessMeansGone ==
  run.at = "done" /\ run.result = "ok" =>
    /\ ~ns /\ ~release /\ Claimed(pv) = {}
    /\ probe = NoProbe
    /\ run.remove => env = "none"

(* A failed cleanup can be retried: unless something in the cluster        *)
(* forbids it, the deployment and its data are gone in the end, however    *)
(* commands failed and the provisioner restarted on the way.               *)
CleanRecovers ==
  foreign = {} /\ (\A v \in Present(pv) : pv[v].kind = "good")
    => <>[](~ns /\ Claimed(pv) = {})

=============================================================================
