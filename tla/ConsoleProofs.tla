--------------------------- MODULE ConsoleProofs ----------------------------
(***************************************************************************)
(* The operator console.  Its cleanup, for any volumes, host paths and     *)
(* number of faults, provisioner restarts and deployments: success is      *)
(* honest, nothing of anybody else is touched, adoptions are safe.  Its    *)
(* operations and port-forwards, for any browser requests: no forward is   *)
(* lost and only built images are deployed.  The two parts share no state; *)
(* each is about one specification.                                        *)
(***************************************************************************)
EXTENDS Cleanup, Console, TLAPS

-----------------------------------------------------------------------------
(* CLEANUP: the inductive invariant *)

(* Places behind the deletion of the namespace, and before any probe. *)
Behind == {"verify", "recover", "create", "claim", "patch", "unprobe", "unprobed", "wait",
           "minikube", "colima"}
Unprobing == {"objects", "volumes", "others", "uninstall", "delete", "verify", "recover",
              "create", "wait", "minikube", "colima"}

NoneOf(kind) == \A v \in Volumes : pv[v] # Absent => pv[v].kind # kind

(* A volume and what the recovery saw of it: claimed as it was, and not in *)
(* use again.                                                              *)
Tracks(now, old) ==
  old # Absent /\ now.kind = old.kind /\ (old.phase = "Released" => now.phase = "Released")

Guarded(r) ==
  /\ r.todo \subseteq Targets(r.seen) /\ ~Shared(r.seen)
  /\ \A v \in Volumes : pv[v] # Absent => Tracks(pv[v], r.seen[v])

(* What the cleaner's place says of the cluster. *)
Placed(r) ==
  /\ r.at \in Behind => ~ns /\ ~release /\ ~pending
  /\ r.at \in Unprobing => probe = NoProbe
  /\ r.at = "unprobed" => ~probe.ns
  /\ r.at \in {"minikube", "colima"} => r.remove /\ Claimed(pv) = {}
  /\ r.result = "ok" => /\ r.at = "done"
                        /\ ~ns /\ ~release /\ ~pending /\ Claimed(pv) = {}
                        /\ probe = NoProbe
                        /\ r.remove => env = "none"
  /\ r.at \notin {"done", "objects"} => "object" \notin foreign
  /\ r.at \notin {"done", "objects", "volumes"} =>
       NoneOf("kept") /\ (r.remove => NoneOf("foreign"))
  /\ r.at \notin {"done", "objects", "volumes", "others"} /\ r.remove => foreign = {}
  /\ r.at \in {"create", "claim", "patch"} => Guarded(r)

CleanInv == CleanupTypeOK /\ Placed(run)

-----------------------------------------------------------------------------
(* How a step ends *)

ClusterOK ==
  /\ ns \in BOOLEAN /\ release \in BOOLEAN /\ pending \in BOOLEAN
  /\ pv \in [Volumes -> VolumeType \cup {Absent}]
  /\ epoch \in Nat
  /\ foreign \subseteq {"object", "namespace", "container"}
  /\ env \in {"full", "vm", "none"}
  /\ probe \in ProbeType /\ stray \subseteq ProbeType

LEMMA TypeParts ==
  CleanupTypeOK <=> ClusterOK /\ run \in RunType /\ faults \in Nat /\ deploys \in Nat
BY DEF CleanupTypeOK, ClusterOK

LEMMA IdleTyped ==
  /\ Idle \in RunType /\ Idle.at = "done" /\ Idle.result = "none" /\ Idle.remove = FALSE
BY DEF Idle, RunType, CleanerPlaces

LEMMA ProceedsTo ==
  ASSUME run \in RunType, NEW place \in CleanerPlaces, Proceeds(place)
  PROVE  /\ run' \in RunType /\ run'.at = place /\ run'.result = run.result
         /\ run'.remove = run.remove /\ run'.seen = run.seen /\ run'.todo = run.todo
         /\ run'.identity = run.identity
BY DEF Proceeds, RunType

LEMMA ReturnsWith ==
  ASSUME run \in RunType, NEW res \in {"none", "ok", "failed", "refused"}, Returns(res)
  PROVE  run' \in RunType /\ run'.at = "done" /\ run'.result = res /\ run'.remove = run.remove
<1>1. run.remove \in BOOLEAN
  BY DEF RunType
<1> QED BY <1>1, IdleTyped DEF Returns, RunType

LEMMA ErrorEnds ==
  ASSUME run \in RunType, Error
  PROVE  /\ run' \in RunType /\ run'.result = "failed" /\ run'.remove = run.remove
         /\ IF run.at \in {"claim", "patch"} THEN run'.at = "unprobe" ELSE run'.at = "done"
<1>1. CASE run.at \in {"claim", "patch"}
  BY <1>1 DEF Error, RunType, CleanerPlaces
<1>2. CASE run.at \notin {"claim", "patch"}
  BY <1>2, ReturnsWith DEF Error
<1> QED BY <1>1, <1>2

(* A cleaner that has stopped without success promises nothing. *)
LEMMA StoppedInv ==
  ASSUME ClusterOK', run' \in RunType, faults' \in Nat, deploys' \in Nat,
         run'.at = "done", run'.result # "ok"
  PROVE  CleanInv'
<1>1. CleanupTypeOK'
  BY DEF CleanupTypeOK, ClusterOK
<1>2. Placed(run)'
  BY DEF Placed, Behind, Unprobing
<1> QED BY <1>1, <1>2 DEF CleanInv

Cluster == <<ns, release, pending, pv, epoch, foreign, env, probe, stray>>

(* A step of the cleaner that changes nothing but its place. *)
LEMMA RunMoves ==
  ASSUME CleanInv, UNCHANGED Cluster, NEW r \in RunType, run' = r, Placed(r),
         faults' \in Nat, deploys' \in Nat
  PROVE  CleanInv'
<1>1. /\ ns' = ns /\ release' = release /\ pending' = pending /\ pv' = pv /\ epoch' = epoch
      /\ foreign' = foreign /\ env' = env /\ probe' = probe /\ stray' = stray
  BY DEF Cluster
<1>2. CleanupTypeOK'
  BY <1>1 DEF CleanInv, CleanupTypeOK
<1>3. Placed(run)'
  BY <1>1 DEF Placed, NoneOf, Guarded, Claimed, Present
<1> QED BY <1>2, <1>3 DEF CleanInv

LEMMA Stays ==
  ASSUME CleanInv, UNCHANGED <<cluster, probe, stray, faults, deploys>>
  PROVE  UNCHANGED Cluster /\ faults' \in Nat /\ deploys' \in Nat
BY DEF CleanInv, CleanupTypeOK, Cluster, cluster

(* Errors where nothing was changed. *)
LEMMA ErrorInv ==
  ASSUME CleanInv, UNCHANGED Cluster, faults' \in Nat, deploys' \in Nat, Error
  PROVE  CleanInv'
<1>1. run \in RunType /\ Placed(run)
  BY DEF CleanInv, CleanupTypeOK
<1>2. /\ run' \in RunType /\ run'.result = "failed" /\ run'.remove = run.remove
      /\ IF run.at \in {"claim", "patch"} THEN run'.at = "unprobe" ELSE run'.at = "done"
  BY <1>1, ErrorEnds
<1>3. Placed(run')
  BY <1>1, <1>2 DEF Placed, Behind, Unprobing
<1> QED BY <1>2, <1>3, RunMoves

-----------------------------------------------------------------------------
(* The cleaner's steps that only look *)

LEMMA RunPlaced ==
  ASSUME CleanInv
  PROVE  run \in RunType /\ Placed(run) /\ run.at \in CleanerPlaces /\ run.remove \in BOOLEAN
BY DEF CleanInv, CleanupTypeOK, RunType

LEMMA ReturnedInv ==
  ASSUME CleanInv, UNCHANGED Cluster, faults' \in Nat, deploys' \in Nat,
         NEW res \in {"failed", "refused"}, Returns(res)
  PROVE  CleanInv'
<1>1. run' \in RunType /\ run'.at = "done" /\ run'.result = res
  BY RunPlaced, ReturnsWith
<1>2. Placed(run')
  BY <1>1 DEF Placed, Behind, Unprobing
<1> QED BY <1>1, <1>2, RunMoves

LEMMA ObjectsInv == ASSUME CleanInv, Objects PROVE CleanInv'
<1>0. UNCHANGED Cluster /\ faults' \in Nat /\ deploys' \in Nat /\ run.at = "objects"
  BY Stays DEF Objects
<1>1. CASE "object" \in foreign
  BY <1>0, <1>1, ReturnedInv DEF Objects
<1>2. CASE "object" \notin foreign
  <2>1. run' \in RunType /\ run'.at = "volumes" /\ run'.result = run.result /\ run'.remove = run.remove
    BY <1>2, RunPlaced, ProceedsTo DEF Objects, CleanerPlaces
  <2>2. Placed(run')
    BY <1>0, <1>2, <2>1, RunPlaced DEF Placed, Behind, Unprobing
  <2> QED BY <1>0, <2>1, <2>2, RunMoves
<1> QED BY <1>1, <1>2

LEMMA ListVolumesInv == ASSUME CleanInv, ListVolumes PROVE CleanInv'
<1>0. UNCHANGED Cluster /\ faults' \in Nat /\ deploys' \in Nat /\ run.at = "volumes"
  BY Stays DEF ListVolumes
<1>1. CASE Refusing(run.remove)
  BY <1>0, <1>1, ReturnedInv DEF ListVolumes
<1>2. CASE ~Refusing(run.remove)
  <2>1. run' = [run EXCEPT !.volumes = Claimed(pv),
                           !.at = IF run.remove THEN "others" ELSE "uninstall"]
    BY <1>2 DEF ListVolumes
  <2>2. Claimed(pv) \subseteq Volumes
    BY DEF Claimed, Present
  <2>3. /\ run' \in RunType /\ run'.result = run.result /\ run'.remove = run.remove
        /\ run'.at = IF run.remove THEN "others" ELSE "uninstall"
    BY <2>1, <2>2, RunPlaced DEF RunType, CleanerPlaces
  <2>4. NoneOf("kept") /\ (run.remove => NoneOf("foreign"))
    BY <1>2 DEF Refusing, NoneOf, Claimed, Present
  <2>5. Placed(run')
    BY <1>0, <2>3, <2>4, RunPlaced DEF Placed, Behind, Unprobing
  <2> QED BY <1>0, <2>3, <2>5, RunMoves
<1> QED BY <1>1, <1>2

LEMMA OthersInv == ASSUME CleanInv, Others PROVE CleanInv'
<1>0. UNCHANGED Cluster /\ faults' \in Nat /\ deploys' \in Nat /\ run.at = "others"
  BY Stays DEF Others
<1>1. CASE foreign # {} \/ (\E p \in Probes : p.ns)
  BY <1>0, <1>1, ReturnedInv DEF Others
<1>2. CASE ~(foreign # {} \/ (\E p \in Probes : p.ns))
  <2>1. run' \in RunType /\ run'.at = "uninstall" /\ run'.result = run.result /\ run'.remove = run.remove
    BY <1>2, RunPlaced, ProceedsTo DEF Others, CleanerPlaces
  <2>2. Placed(run')
    BY <1>0, <1>2, <2>1, RunPlaced DEF Placed, Behind, Unprobing
  <2> QED BY <1>0, <2>1, <2>2, RunMoves
<1> QED BY <1>1, <1>2

LEMMA VerifyNamespaceInv == ASSUME CleanInv, VerifyNamespace PROVE CleanInv'
<1>0. UNCHANGED Cluster /\ faults' \in Nat /\ deploys' \in Nat /\ run.at = "verify"
  BY Stays DEF VerifyNamespace
<1>1. CASE ns
  BY <1>0, <1>1, ErrorInv DEF VerifyNamespace
<1>2. CASE ~ns
  <2>1. run' \in RunType /\ run'.at = "recover" /\ run'.result = run.result /\ run'.remove = run.remove
    BY <1>2, RunPlaced, ProceedsTo DEF VerifyNamespace, CleanerPlaces
  <2>2. Placed(run')
    BY <1>0, <2>1, RunPlaced DEF Placed, Behind, Unprobing
  <2> QED BY <1>0, <2>1, <2>2, RunMoves
<1> QED BY <1>1, <1>2

LEMMA TryAgainInv ==
  ASSUME CleanInv, UNCHANGED Cluster, faults' \in Nat, deploys' \in Nat, run.at = "wait", TryAgain
  PROVE  CleanInv'
<1>1. CASE run.again
  BY <1>1, ErrorInv DEF TryAgain
<1>2. CASE ~run.again
  <2>1. run' \in RunType /\ run'.at = "recover" /\ run'.result = run.result /\ run'.remove = run.remove
    BY <1>2, RunPlaced DEF TryAgain, RunType, CleanerPlaces
  <2>2. Placed(run')
    BY <2>1, RunPlaced DEF Placed, Behind, Unprobing
  <2> QED BY <2>1, <2>2, RunMoves
<1> QED BY <1>1, <1>2

LEMMA WaitVolumeInv == ASSUME CleanInv, WaitVolume PROVE CleanInv'
<1>0. UNCHANGED Cluster /\ faults' \in Nat /\ deploys' \in Nat /\ run.at = "wait"
  BY Stays DEF WaitVolume
<1>1. CASE pv[NextVolume] = Absent
  <2>1. run' = [run EXCEPT !.volumes = @ \ {NextVolume}, !.again = FALSE]
    BY <1>1 DEF WaitVolume
  <2>2. run' \in RunType /\ run'.at = "wait" /\ run'.result = run.result /\ run'.remove = run.remove
    BY <1>0, <2>1, RunPlaced DEF RunType
  <2>3. Placed(run')
    BY <1>0, <2>2, RunPlaced DEF Placed, Behind, Unprobing
  <2> QED BY <1>0, <2>2, <2>3, RunMoves
<1>2. CASE pv[NextVolume] # Absent
  BY <1>0, <1>2, TryAgainInv DEF WaitVolume
<1> QED BY <1>1, <1>2

LEMMA WaitFailsInv == ASSUME CleanInv, WaitFails PROVE CleanInv'
BY TryAgainInv DEF WaitFails, CleanInv, CleanupTypeOK, Cluster, cluster

LEMMA FinalCheckInv == ASSUME CleanInv, FinalCheck PROVE CleanInv'
<1>0. UNCHANGED Cluster /\ faults' \in Nat /\ deploys' \in Nat /\ run.at = "wait"
  BY Stays DEF FinalCheck
<1>1. CASE Remaining # {}
  BY <1>0, <1>1, ErrorInv DEF FinalCheck
<1>2. CASE Remaining = {} /\ run.remove
  <2>1. run' \in RunType /\ run'.at = "minikube" /\ run'.result = run.result /\ run'.remove = run.remove
    BY <1>2, RunPlaced, ProceedsTo DEF FinalCheck, CleanerPlaces
  <2>2. Placed(run')
    BY <1>0, <1>2, <2>1, RunPlaced DEF Placed, Behind, Unprobing, Remaining
  <2> QED BY <1>0, <2>1, <2>2, RunMoves
<1>3. CASE Remaining = {} /\ ~run.remove
  <2>1. run' \in RunType /\ run'.at = "done" /\ run'.result = "ok" /\ run'.remove = run.remove
    BY <1>3, RunPlaced, ReturnsWith DEF FinalCheck
  <2>2. Placed(run')
    BY <1>0, <1>3, <2>1, RunPlaced DEF Placed, Behind, Unprobing, Remaining
  <2> QED BY <1>0, <2>1, <2>2, RunMoves
<1> QED BY <1>1, <1>2, <1>3

LEMMA RecoverInv == ASSUME CleanInv, Recover PROVE CleanInv'
<1>0. UNCHANGED Cluster /\ faults' \in Nat /\ deploys' \in Nat /\ run.at = "recover"
  BY Stays DEF Recover
<1>1. CASE Targets(pv) = {}
  <2>1. run' \in RunType /\ run'.at = "wait" /\ run'.result = run.result /\ run'.remove = run.remove
    BY <1>1, RunPlaced, ProceedsTo DEF Recover, CleanerPlaces
  <2>2. Placed(run')
    BY <1>0, <2>1, RunPlaced DEF Placed, Behind, Unprobing
  <2> QED BY <1>0, <2>1, <2>2, RunMoves
<1>2. CASE Targets(pv) # {} /\ (ns \/ Shared(pv))
  BY <1>0, <1>2, ErrorInv DEF Recover
<1>3. CASE Targets(pv) # {} /\ ~(ns \/ Shared(pv))
  <2>1. run' = [run EXCEPT !.at = "create", !.seen = pv, !.todo = Targets(pv)]
    BY <1>3 DEF Recover
  <2>2. Targets(pv) \subseteq Volumes /\ pv \in [Volumes -> VolumeType \cup {Absent}]
    BY DEF Targets, CleanInv, CleanupTypeOK
  <2>3. /\ run' \in RunType /\ run'.at = "create" /\ run'.result = run.result
        /\ run'.remove = run.remove /\ run'.seen = pv /\ run'.todo = Targets(pv)
    BY <2>1, <2>2, RunPlaced DEF RunType, CleanerPlaces
  <2>4. Guarded(run')
    BY <1>3, <2>3 DEF Guarded, Tracks
  <2>5. Placed(run')
    BY <1>0, <2>3, <2>4, RunPlaced DEF Placed, Behind, Unprobing
  <2> QED BY <1>0, <2>3, <2>5, RunMoves
<1> QED BY <1>1, <1>2, <1>3

LEMMA AllPatchedInv == ASSUME CleanInv, AllPatched PROVE CleanInv'
<1>0. UNCHANGED Cluster /\ faults' \in Nat /\ deploys' \in Nat /\ run.at = "patch"
  BY Stays DEF AllPatched
<1>1. run' \in RunType /\ run'.at = "unprobe" /\ run'.result = run.result /\ run'.remove = run.remove
  BY RunPlaced, ProceedsTo DEF AllPatched, CleanerPlaces
<1>2. Placed(run')
  BY <1>0, <1>1, RunPlaced DEF Placed, Behind, Unprobing
<1> QED BY <1>0, <1>1, <1>2, RunMoves

LEMMA UnprobedInv == ASSUME CleanInv, Unprobed PROVE CleanInv'
<1>0. UNCHANGED Cluster /\ faults' \in Nat /\ deploys' \in Nat /\ run.at = "unprobed"
  BY Stays DEF Unprobed
<1>1. CASE probe.volume # {} \/ run.result = "failed"
  BY <1>0, <1>1, ReturnedInv DEF Unprobed
<1>2. CASE ~(probe.volume # {} \/ run.result = "failed")
  <2>1. run' \in RunType /\ run'.at = "wait" /\ run'.result = run.result /\ run'.remove = run.remove
    BY <1>2, RunPlaced, ProceedsTo DEF Unprobed, CleanerPlaces
  <2>2. probe.ns = FALSE /\ probe.volume = {}
    BY <1>0, <1>2, RunPlaced DEF Placed, CleanInv, CleanupTypeOK, ProbeType
  <2>3. probe = NoProbe
    BY <2>2 DEF CleanInv, CleanupTypeOK, ProbeType, NoProbe
  <2>4. Placed(run')
    BY <1>0, <2>1, <2>3, RunPlaced DEF Placed, Behind, Unprobing
  <2> QED BY <1>0, <2>1, <2>4, RunMoves
<1> QED BY <1>1, <1>2

-----------------------------------------------------------------------------
(* The cleaner's steps that change the cluster *)

LEMMA ClusterTyped == ASSUME CleanInv PROVE ClusterOK /\ faults \in Nat /\ deploys \in Nat
BY DEF CleanInv, CleanupTypeOK, ClusterOK

LEMMA UninstalledOK ==
  ASSUME ClusterOK, Uninstalled, UNCHANGED <<probe, stray>>
  PROVE  ClusterOK'
BY DEF ClusterOK, Uninstalled

LEMMA NamespaceDeletedOK ==
  ASSUME ClusterOK, NamespaceDeleted, UNCHANGED <<probe, stray>>
  PROVE  ClusterOK'
BY DEF ClusterOK, NamespaceDeleted

LEMMA NoProbeTyped == NoProbe \in ProbeType
BY DEF NoProbe, ProbeType

LEMMA MinikubeDeletedOK == ASSUME ClusterOK, MinikubeDeleted PROVE ClusterOK'
BY NoProbeTyped DEF ClusterOK, MinikubeDeleted

LEMMA ColimaDeletedOK == ASSUME ClusterOK, ColimaDeleted PROVE ClusterOK'
BY DEF ClusterOK, ColimaDeleted

LEMMA ProbeCreatedOK ==
  ASSUME ClusterOK, ProbeCreated, UNCHANGED <<cluster, stray>>
  PROVE  ClusterOK'
<1>1. probe' \in ProbeType
  BY NoProbeTyped DEF ProbeCreated, ProbeType
<1> QED BY <1>1 DEF ClusterOK, cluster

LEMMA ProbeBoundOK ==
  ASSUME ClusterOK, ProbeBound, UNCHANGED <<cluster, stray>>
  PROVE  ClusterOK'
<1>1. probe' \in ProbeType
  BY DEF ProbeBound, ProbeType, ClusterOK
<1> QED BY <1>1 DEF ClusterOK, cluster

LEMMA ProbeDeletedOK ==
  ASSUME ClusterOK, ProbeDeleted, UNCHANGED <<cluster, stray>>
  PROVE  ClusterOK' /\ probe'.ns = FALSE
<1>1. probe' \in ProbeType /\ probe'.ns = FALSE
  BY DEF ProbeDeleted, ProbeType, ClusterOK
<1> QED BY <1>1 DEF ClusterOK, cluster

(* An adoption changes the identity of one volume. *)
LEMMA AdoptedOK ==
  ASSUME ClusterOK, run \in RunType, NEW v \in Volumes, pv[v] # Absent, Adopted(v),
         UNCHANGED <<probe, stray>>
  PROVE  /\ ClusterOK'
         /\ \A w \in Volumes : /\ (pv'[w] = Absent) <=> (pv[w] = Absent)
                               /\ pv[w] # Absent => pv'[w].kind = pv[w].kind
                                                    /\ pv'[w].phase = pv[w].phase
                               /\ w # v => pv'[w] = pv[w]
<1>1. run.identity \in Nat /\ pv \in [Volumes -> VolumeType \cup {Absent}]
  BY DEF RunType, ClusterOK
<1>2. pv' = [pv EXCEPT ![v].ident = run.identity]
  BY DEF Adopted
<1>3. pv[v] \in VolumeType
  BY <1>1
<1>4. /\ [pv[v] EXCEPT !.ident = run.identity] \in VolumeType
      /\ [pv[v] EXCEPT !.ident = run.identity].kind = pv[v].kind
      /\ [pv[v] EXCEPT !.ident = run.identity].phase = pv[v].phase
  BY <1>1, <1>3 DEF VolumeType
<1>5. pv'[v] = [pv[v] EXCEPT !.ident = run.identity] /\ \A w \in Volumes \ {v} : pv'[w] = pv[w]
  BY <1>1, <1>2
<1>6. pv' \in [Volumes -> VolumeType \cup {Absent}]
  BY <1>1, <1>2, <1>4
<1>7. Absent \notin VolumeType
  BY DEF Absent, VolumeType
<1>8. ClusterOK'
  BY <1>6 DEF ClusterOK, Adopted
<1> QED BY <1>4, <1>5, <1>7, <1>8

(* What is left to show once the types are known. *)
LEMMA MovedInv ==
  ASSUME ClusterOK', run' \in RunType, faults' \in Nat, deploys' \in Nat, Placed(run)'
  PROVE  CleanInv'
BY DEF CleanInv, CleanupTypeOK, ClusterOK

LEMMA UninstallInv == ASSUME CleanInv, Uninstall PROVE CleanInv'
<1>0. /\ run.at = "uninstall" /\ probe' = probe /\ stray' = stray
      /\ pv' = pv /\ foreign' = foreign /\ faults' \in Nat /\ deploys' \in Nat
  BY ClusterTyped DEF Uninstall, Uninstalled
<1>1. ClusterOK'
  BY <1>0, ClusterTyped, UninstalledOK DEF Uninstall
<1>2. run' \in RunType /\ run'.at = "delete" /\ run'.result = run.result /\ run'.remove = run.remove
  BY RunPlaced, ProceedsTo DEF Uninstall, CleanerPlaces
<1>3. Placed(run)'
  BY <1>0, <1>2, RunPlaced DEF Placed, Behind, Unprobing, NoneOf
<1> QED BY <1>0, <1>1, <1>2, <1>3, MovedInv

LEMMA DeleteNamespaceInv == ASSUME CleanInv, DeleteNamespace PROVE CleanInv'
<1>0. /\ run.at = "delete" /\ probe' = probe /\ stray' = stray
      /\ pv' = pv /\ foreign' = foreign \ {"object"} /\ faults' \in Nat /\ deploys' \in Nat
      /\ ns' = FALSE /\ release' = FALSE /\ pending' = FALSE
  BY ClusterTyped DEF DeleteNamespace, NamespaceDeleted
<1>1. ClusterOK'
  BY <1>0, ClusterTyped, NamespaceDeletedOK DEF DeleteNamespace
<1>2. run' \in RunType /\ run'.at = "verify" /\ run'.result = run.result /\ run'.remove = run.remove
  BY RunPlaced, ProceedsTo DEF DeleteNamespace, CleanerPlaces
<1>3. Placed(run)'
  BY <1>0, <1>2, RunPlaced DEF Placed, Behind, Unprobing, NoneOf
<1> QED BY <1>0, <1>1, <1>2, <1>3, MovedInv

LEMMA DeleteMinikubeInv == ASSUME CleanInv, DeleteMinikube PROVE CleanInv'
<1>0. /\ run.at = "minikube" /\ probe' = NoProbe /\ foreign' \subseteq foreign
      /\ pv' = [v \in Volumes |-> Absent] /\ faults' \in Nat /\ deploys' \in Nat
      /\ ns' = FALSE /\ release' = FALSE /\ pending' = FALSE
  BY ClusterTyped DEF DeleteMinikube, MinikubeDeleted
<1>1. ClusterOK'
  BY ClusterTyped, MinikubeDeletedOK DEF DeleteMinikube
<1>2. run' \in RunType /\ run'.at = "colima" /\ run'.result = run.result /\ run'.remove = run.remove
  BY RunPlaced, ProceedsTo DEF DeleteMinikube, CleanerPlaces
<1>3. Claimed(pv)' = {}
  BY <1>0 DEF Claimed, Present
<1>4. Placed(run)'
  BY <1>0, <1>2, <1>3, RunPlaced DEF Placed, Behind, Unprobing, NoneOf
<1> QED BY <1>0, <1>1, <1>2, <1>4, MovedInv

LEMMA DeleteColimaInv == ASSUME CleanInv, DeleteColima PROVE CleanInv'
<1>0. /\ run.at = "colima" /\ probe' = probe /\ pv' = pv /\ env' = "none"
      /\ ns' = ns /\ release' = release /\ pending' = pending
      /\ faults' \in Nat /\ deploys' \in Nat
  BY ClusterTyped DEF DeleteColima, ColimaDeleted
<1>1. ClusterOK'
  BY ClusterTyped, ColimaDeletedOK DEF DeleteColima
<1>2. run' \in RunType /\ run'.at = "done" /\ run'.result = "ok" /\ run'.remove = run.remove
  BY RunPlaced, ReturnsWith DEF DeleteColima
<1>3. Claimed(pv)' = Claimed(pv)
  BY <1>0 DEF Claimed, Present
<1>4. Placed(run)'
  BY <1>0, <1>2, <1>3, RunPlaced DEF Placed, Behind, Unprobing
<1> QED BY <1>0, <1>1, <1>2, <1>4, MovedInv

LEMMA CreateProbeInv == ASSUME CleanInv, CreateProbe PROVE CleanInv'
<1>0. /\ run.at = "create" /\ pv' = pv /\ foreign' = foreign
      /\ ns' = ns /\ release' = release /\ pending' = pending
      /\ faults' \in Nat /\ deploys' \in Nat
  BY ClusterTyped DEF CreateProbe, cluster
<1>1. ClusterOK'
  BY ClusterTyped, ProbeCreatedOK DEF CreateProbe
<1>2. /\ run' \in RunType /\ run'.at = "claim" /\ run'.result = run.result
      /\ run'.remove = run.remove /\ run'.seen = run.seen /\ run'.todo = run.todo
  BY RunPlaced, ProceedsTo DEF CreateProbe, CleanerPlaces
<1>3. Placed(run)'
  BY <1>0, <1>2, RunPlaced DEF Placed, Behind, Unprobing, NoneOf, Guarded
<1> QED BY <1>0, <1>1, <1>2, <1>3, MovedInv

LEMMA ProbeIdentityInv == ASSUME CleanInv, ProbeIdentity PROVE CleanInv'
<1>0. /\ run.at = "claim" /\ pv' = pv /\ foreign' = foreign
      /\ ns' = ns /\ release' = release /\ pending' = pending
      /\ faults' \in Nat /\ deploys' \in Nat
  BY ClusterTyped DEF ProbeIdentity, cluster
<1>1. ClusterOK'
  BY ClusterTyped, ProbeBoundOK DEF ProbeIdentity
<1>2. run' = [run EXCEPT !.at = "patch", !.identity = epoch] /\ epoch \in Nat
  BY ClusterTyped DEF ProbeIdentity, ClusterOK
<1>3. /\ run' \in RunType /\ run'.at = "patch" /\ run'.result = run.result
      /\ run'.remove = run.remove /\ run'.seen = run.seen /\ run'.todo = run.todo
  BY <1>2, RunPlaced DEF RunType, CleanerPlaces
<1>4. Placed(run)'
  BY <1>0, <1>3, RunPlaced DEF Placed, Behind, Unprobing, NoneOf, Guarded
<1> QED BY <1>0, <1>1, <1>3, <1>4, MovedInv

LEMMA UnprobeInv == ASSUME CleanInv, Unprobe PROVE CleanInv'
<1>0. /\ run.at = "unprobe" /\ pv' = pv /\ foreign' = foreign
      /\ ns' = ns /\ release' = release /\ pending' = pending
      /\ faults' \in Nat /\ deploys' \in Nat
  BY ClusterTyped DEF Unprobe, cluster
<1>1. ClusterOK' /\ probe'.ns = FALSE
  BY ClusterTyped, ProbeDeletedOK DEF Unprobe
<1>2. run' \in RunType /\ run'.at = "unprobed" /\ run'.result = run.result /\ run'.remove = run.remove
  BY RunPlaced, ProceedsTo DEF Unprobe, CleanerPlaces
<1>3. Placed(run)'
  BY <1>0, <1>1, <1>2, RunPlaced DEF Placed, Behind, Unprobing, NoneOf
<1> QED BY <1>0, <1>1, <1>2, <1>3, MovedInv

(* What a recovery in progress knows about an adopted volume. *)
LEMMA TargetSeen ==
  ASSUME CleanInv, run.at = "patch", NEW v \in run.todo, pv[v] = run.seen[v]
  PROVE  /\ v \in Volumes /\ pv[v] # Absent /\ pv[v].kind = "good" /\ pv[v].phase = "Released"
         /\ ~ns
<1>1. Guarded(run) /\ ~ns
  BY RunPlaced DEF Placed, Behind
<1>2. v \in Targets(run.seen)
  BY <1>1 DEF Guarded
<1> QED BY <1>1, <1>2 DEF Targets, Recoverable

LEMMA PatchInv == ASSUME CleanInv, Patch PROVE CleanInv'
<1>0. run.at = "patch" /\ probe' = probe /\ stray' = stray /\ faults' \in Nat /\ deploys' \in Nat
  BY ClusterTyped DEF Patch
<1>1. PICK v \in run.todo :
        IF run.seen[v].ident = run.identity
        THEN run' = [run EXCEPT !.todo = @ \ {v}] /\ UNCHANGED cluster
        ELSE IF pv[v] = run.seen[v]
        THEN run' = [run EXCEPT !.todo = @ \ {v}] /\ Adopted(v)
        ELSE Error /\ UNCHANGED cluster
  BY DEF Patch
<1>2. CASE Error /\ UNCHANGED cluster
  BY <1>0, <1>2, ErrorInv DEF Cluster, cluster
<1> DEFINE r == [run EXCEPT !.todo = @ \ {v}]
<1>3. /\ r \in RunType /\ r.at = "patch" /\ r.result = run.result /\ r.remove = run.remove
      /\ r.seen = run.seen /\ r.todo = run.todo \ {v}
  BY <1>0, RunPlaced DEF RunType
<1>4. CASE run' = r /\ UNCHANGED cluster
  <2>1. Guarded(r)
    BY <1>0, <1>3, RunPlaced DEF Placed, Guarded
  <2> HIDE DEF r
  <2>2. Placed(r)
    BY <1>0, <1>3, <2>1, RunPlaced DEF Placed, Behind, Unprobing
  <2>3. UNCHANGED Cluster
    BY <1>0, <1>4 DEF Cluster, cluster
  <2> QED BY <1>0, <1>3, <1>4, <2>2, <2>3, RunMoves
<1>5. CASE run' = r /\ pv[v] = run.seen[v] /\ Adopted(v)
  <2>1. v \in Volumes /\ pv[v] # Absent
    BY <1>0, <1>5, TargetSeen
  <2>2. /\ ClusterOK'
        /\ \A w \in Volumes : /\ (pv'[w] = Absent) <=> (pv[w] = Absent)
                              /\ pv[w] # Absent => pv'[w].kind = pv[w].kind
                                                   /\ pv'[w].phase = pv[w].phase
    BY <1>0, <1>5, <2>1, AdoptedOK, ClusterTyped, RunPlaced
  <2>3. ns' = ns /\ release' = release /\ pending' = pending /\ foreign' = foreign
    BY <1>5 DEF Adopted
  <2> HIDE DEF r
  <2>4. Guarded(run)'
    <3>1. Guarded(run)
      BY <1>0, RunPlaced DEF Placed
    <3> QED BY <1>3, <1>5, <2>2, <3>1 DEF Guarded, Tracks
  <2>5. NoneOf("kept")' /\ (run.remove => NoneOf("foreign")')
    BY <1>0, <2>2, RunPlaced DEF Placed, NoneOf
  <2>6. Placed(run)'
    BY <1>0, <1>3, <1>5, <2>3, <2>4, <2>5, RunPlaced DEF Placed, Behind, Unprobing
  <2> QED BY <1>0, <1>3, <1>5, <2>2, <2>6, MovedInv
<1> QED BY <1>1, <1>2, <1>4, <1>5

(* A command that failed or was cut, whether it worked or not. *)
LEMMA HalfDoneOK ==
  ASSUME CleanInv, HalfDone
  PROVE  /\ ClusterOK'
         /\ run.at \in {"claim", "patch"} =>
              /\ ns' = ns /\ release' = release /\ pending' = pending /\ foreign' = foreign
              /\ \A w \in Volumes : /\ (pv'[w] = Absent) <=> (pv[w] = Absent)
                                    /\ pv[w] # Absent => pv'[w].kind = pv[w].kind
<1>0. ClusterOK /\ run \in RunType
  BY ClusterTyped, RunPlaced
<1>1. CASE run.at = "uninstall"
  BY <1>0, <1>1, UninstalledOK DEF HalfDone
<1>2. CASE run.at = "delete"
  BY <1>0, <1>2, NamespaceDeletedOK DEF HalfDone
<1>3. CASE run.at = "minikube"
  BY <1>0, <1>3, MinikubeDeletedOK DEF HalfDone
<1>4. CASE run.at = "colima"
  BY <1>0, <1>4, ColimaDeletedOK DEF HalfDone
<1>5. CASE run.at = "create"
  BY <1>0, <1>5, ProbeCreatedOK DEF HalfDone
<1>6. CASE run.at = "claim"
  <2>1. ProbeBound /\ UNCHANGED <<cluster, stray>>
    BY <1>6 DEF HalfDone
  <2> QED BY <1>0, <2>1, ProbeBoundOK DEF cluster
<1>7. CASE run.at = "unprobe"
  BY <1>0, <1>7, ProbeDeletedOK DEF HalfDone
<1>8. CASE run.at = "patch" /\ run.todo # {}
  <2>1. (\E v \in run.todo : pv[v] = run.seen[v] /\ Adopted(v)) /\ UNCHANGED <<probe, stray>>
    BY <1>8 DEF HalfDone
  <2>2. PICK v \in run.todo : pv[v] = run.seen[v] /\ Adopted(v)
    BY <2>1
  <2>3. v \in Volumes /\ pv[v] # Absent
    BY <1>8, <2>2, TargetSeen
  <2>4. ns' = ns /\ release' = release /\ pending' = pending /\ foreign' = foreign
    BY <2>2 DEF Adopted
  <2> QED BY <1>0, <2>1, <2>2, <2>3, <2>4, AdoptedOK
<1>9. CASE \/ run.at = "patch" /\ run.todo = {}
           \/ run.at \notin {"uninstall", "delete", "minikube", "colima", "create", "claim",
                             "patch", "unprobe"}
  <2>1. UNCHANGED <<cluster, probe, stray>>
    BY <1>9 DEF HalfDone
  <2> QED BY <1>0, <2>1 DEF ClusterOK, cluster
<1> QED BY <1>1, <1>2, <1>3, <1>4, <1>5, <1>6, <1>7, <1>8, <1>9

LEMMA FaultInv == ASSUME CleanInv, Fault PROVE CleanInv'
<1>0. faults' \in Nat /\ deploys' \in Nat /\ Error /\ run.at # "done"
  BY ClusterTyped DEF Fault
<1>1. /\ run' \in RunType /\ run'.result = "failed" /\ run'.remove = run.remove
      /\ IF run.at \in {"claim", "patch"} THEN run'.at = "unprobe" ELSE run'.at = "done"
  BY <1>0, RunPlaced, ErrorEnds
<1>2. CASE UNCHANGED <<cluster, probe, stray>>
  BY <1>0, <1>2, ErrorInv DEF Cluster, cluster
<1>3. CASE HalfDone
  <2>1. CASE run.at \notin {"claim", "patch"}
    BY <1>0, <1>1, <1>3, <2>1, HalfDoneOK, StoppedInv
  <2>2. CASE run.at \in {"claim", "patch"}
    <3>1. /\ ClusterOK'
          /\ ns' = ns /\ release' = release /\ pending' = pending /\ foreign' = foreign
          /\ \A w \in Volumes : /\ (pv'[w] = Absent) <=> (pv[w] = Absent)
                                /\ pv[w] # Absent => pv'[w].kind = pv[w].kind
      BY <1>3, <2>2, HalfDoneOK
    <3>2. NoneOf("kept")' /\ (run.remove => NoneOf("foreign")')
      BY <2>2, <3>1, RunPlaced DEF Placed, NoneOf
    <3>3. Placed(run)'
      BY <1>1, <2>2, <3>1, <3>2, RunPlaced DEF Placed, Behind, Unprobing
    <3> QED BY <1>0, <1>1, <3>1, <3>3, MovedInv
  <2> QED BY <2>1, <2>2
<1> QED BY <1>2, <1>3 DEF Fault

-----------------------------------------------------------------------------
(* The user and Kubernetes *)

LEMMA CleanStartInv == ASSUME CleanInv, NEW remove \in BOOLEAN, Clean(remove) PROVE CleanInv'
<1>0. /\ ns' = ns /\ release' = release /\ pending' = pending /\ pv' = pv /\ epoch' = epoch
      /\ foreign' = foreign /\ env' = "full" /\ probe' = NoProbe /\ stray' = Probes \ {NoProbe}
      /\ faults' \in Nat /\ deploys' \in Nat
      /\ run' = [Idle EXCEPT !.at = "objects", !.remove = remove]
  BY ClusterTyped DEF Clean
<1>1. ClusterOK'
  <2>1. Probes \subseteq ProbeType
    BY ClusterTyped DEF Probes, ClusterOK
  <2> QED BY <1>0, <2>1, ClusterTyped, NoProbeTyped DEF ClusterOK
<1>2. run' \in RunType /\ run'.at = "objects" /\ run'.result = "none"
  BY <1>0, IdleTyped DEF RunType, CleanerPlaces
<1>3. Placed(run)'
  BY <1>0, <1>2 DEF Placed, Behind, Unprobing
<1> QED BY <1>0, <1>1, <1>2, <1>3, MovedInv

LEMMA DeployInv == ASSUME CleanInv, Deploy PROVE CleanInv'
<1>0. /\ ns' = TRUE /\ release' = TRUE /\ pending' = TRUE /\ pv' = pv /\ epoch' = epoch
      /\ foreign' = foreign /\ env' = env /\ probe' = probe /\ stray' = stray
      /\ faults' \in Nat /\ deploys' \in Nat /\ run' = Idle
  BY ClusterTyped DEF Deploy
<1>1. ClusterOK'
  BY <1>0, ClusterTyped DEF ClusterOK
<1> QED BY <1>0, <1>1, IdleTyped, StoppedInv

(* Kubernetes moves one volume of the project, or provisions one. *)
LEMMA VolumeMoves ==
  ASSUME CleanInv, NEW v \in Volumes, NEW x \in VolumeType \cup {Absent},
         pv' = [pv EXCEPT ![v] = x],
         x # Absent => x.kind \notin {"foreign", "kept"} \/ (pv[v] # Absent /\ x.kind = pv[v].kind),
         x # Absent /\ pv[v] # Absent => x.kind = pv[v].kind /\ x.phase = "Released",
         pv[v] = Absent => pending,
         pv[v] # Absent => pv[v].kind # "foreign",
         pending' \in {pending, FALSE},
         UNCHANGED <<ns, release, epoch, foreign, env, probe, stray, run, faults, deploys>>
  PROVE  CleanInv'
<1>0. /\ ns' = ns /\ release' = release /\ epoch' = epoch /\ foreign' = foreign /\ env' = env
      /\ probe' = probe /\ stray' = stray /\ run' = run /\ faults' \in Nat /\ deploys' \in Nat
      /\ run' \in RunType
  BY ClusterTyped, RunPlaced
<1>1. pv \in [Volumes -> VolumeType \cup {Absent}] /\ pending \in BOOLEAN
  BY ClusterTyped DEF ClusterOK
<1>2. pv' \in [Volumes -> VolumeType \cup {Absent}]
  BY <1>1
<1>3. pv'[v] = x /\ \A w \in Volumes \ {v} : pv'[w] = pv[w]
  BY <1>1
<1>4. pending' \in BOOLEAN /\ (~pending => ~pending')
  <2>1. CASE pending' = pending
    BY <1>1, <2>1
  <2>2. CASE pending' = FALSE
    BY <2>2
  <2> QED BY <2>1, <2>2
<1>5. ClusterOK'
  BY <1>0, <1>2, <1>4, ClusterTyped DEF ClusterOK
<1>6. \A k \in {"kept", "foreign"} : NoneOf(k) => NoneOf(k)'
  BY <1>3 DEF NoneOf
<1>7. Claimed(pv) = {} /\ ~pending => Claimed(pv)' = {}
  BY <1>3 DEF Claimed, Present
<1>8. ~pending /\ Guarded(run) => Guarded(run)'
  BY <1>0, <1>3 DEF Guarded, Tracks
<1>9. Placed(run)'
  <2>1. /\ run.at \notin {"done", "objects", "volumes"} =>
             NoneOf("kept")' /\ (run.remove => NoneOf("foreign")')
        /\ run.at \in {"create", "claim", "patch"} => Guarded(run)'
        /\ run.at \in {"minikube", "colima"} \/ run.result = "ok" => Claimed(pv)' = {}
    BY <1>6, <1>7, <1>8, RunPlaced DEF Placed, Behind
  <2>2. run.at \in Behind \/ run.result = "ok" => ~pending'
    BY <1>4, RunPlaced DEF Placed
  <2>3. /\ run.at \in Behind => ~ns' /\ ~release' /\ ~pending'
        /\ run.at \in Unprobing => probe' = NoProbe
        /\ run.at = "unprobed" => ~probe'.ns
        /\ run.at \in {"minikube", "colima"} => run.remove
        /\ run.result = "ok" => run.at = "done" /\ ~ns' /\ ~release' /\ ~pending' /\ probe' = NoProbe
                                /\ (run.remove => env' = "none")
        /\ run.at \notin {"done", "objects"} => "object" \notin foreign'
        /\ run.at \notin {"done", "objects", "volumes", "others"} /\ run.remove => foreign' = {}
    BY <1>0, <2>2, RunPlaced DEF Placed
  <2>4. run' = run
    BY <1>0
  <2> QED BY <2>1, <2>3, <2>4 DEF Placed, Behind, Unprobing
<1> QED BY <1>0, <1>5, <1>9, MovedInv

LEMMA ProvisionInv == ASSUME CleanInv, NEW v \in Volumes, Provision(v) PROVE CleanInv'
<1> DEFINE x == Volume("good", "Bound", epoch)
<1>1. x \in VolumeType /\ x.kind = "good"
  BY ClusterTyped DEF ClusterOK, Volume, VolumeType, Kinds
<1>2. /\ pv' = [pv EXCEPT ![v] = x] /\ pv[v] = Absent /\ pending /\ pending' = FALSE
      /\ UNCHANGED <<ns, release, epoch, foreign, env, probe, stray, run, faults, deploys>>
  BY DEF Provision
<1> HIDE DEF x
<1> QED BY <1>1, <1>2, VolumeMoves

LEMMA ReleasedInv == ASSUME CleanInv, NEW v \in Volumes, Released(v) PROVE CleanInv'
<1> DEFINE x == [pv[v] EXCEPT !.phase = "Released"]
<1>1. pv[v] \in VolumeType /\ pv[v] # Absent /\ pv[v].kind # "foreign"
  BY ClusterTyped DEF ClusterOK, Released, Claimed, Present
<1>2. x \in VolumeType /\ x.kind = pv[v].kind /\ x.phase = "Released"
  BY <1>1 DEF VolumeType
<1>3. /\ pv' = [pv EXCEPT ![v] = x] /\ pending' = pending
      /\ UNCHANGED <<ns, release, epoch, foreign, env, probe, stray, run, faults, deploys>>
  BY DEF Released
<1> HIDE DEF x
<1> QED BY <1>1, <1>2, <1>3, VolumeMoves

LEMMA ReclaimInv == ASSUME CleanInv, NEW v \in Volumes, Reclaim(v) PROVE CleanInv'
<1>1. pv[v] # Absent /\ pv[v].kind # "foreign"
  BY DEF Reclaim, Claimed, Present
<1>2. /\ pv' = [pv EXCEPT ![v] = Absent] /\ pending' = pending
      /\ UNCHANGED <<ns, release, epoch, foreign, env, probe, stray, run, faults, deploys>>
  BY DEF Reclaim
<1> QED BY <1>1, <1>2, VolumeMoves

LEMMA ReclaimProbesInv == ASSUME CleanInv, ReclaimProbes PROVE CleanInv'
<1>0. /\ ns' = ns /\ release' = release /\ pending' = pending /\ pv' = pv /\ epoch' = epoch
      /\ foreign' = foreign /\ env' = env /\ run' = run /\ faults' \in Nat /\ deploys' \in Nat
      /\ run' \in RunType
      /\ probe' = Gone(probe) /\ stray' = {Gone(p) : p \in stray} \ {NoProbe}
  BY ClusterTyped, RunPlaced DEF ReclaimProbes, cluster
<1>1. \A p \in ProbeType : Gone(p) \in ProbeType /\ Gone(p).ns = p.ns
  BY DEF Gone, ProbeType
<1>2. ClusterOK' /\ probe'.ns = probe.ns
  BY <1>0, <1>1, ClusterTyped DEF ClusterOK
<1>3. Gone(NoProbe) = NoProbe
  BY DEF Gone, NoProbe
<1>4. Claimed(pv)' = Claimed(pv)
  BY <1>0 DEF Claimed, Present
<1>5. Placed(run)'
  BY <1>0, <1>2, <1>3, <1>4, RunPlaced DEF Placed, Behind, Unprobing, NoneOf, Guarded
<1> QED BY <1>0, <1>2, <1>5, MovedInv

LEMMA ProvisionerRestartsInv == ASSUME CleanInv, ProvisionerRestarts PROVE CleanInv'
<1>0. /\ ns' = ns /\ release' = release /\ pending' = pending /\ pv' = pv /\ epoch' \in Nat
      /\ foreign' = foreign /\ env' = env /\ run' = run /\ faults' \in Nat /\ deploys' \in Nat
      /\ run' \in RunType /\ probe' = probe /\ stray' = stray
  BY ClusterTyped, RunPlaced DEF ProvisionerRestarts, ClusterOK
<1>1. ClusterOK'
  BY <1>0, ClusterTyped DEF ClusterOK
<1>2. Claimed(pv)' = Claimed(pv)
  BY <1>0 DEF Claimed, Present
<1>3. Placed(run)'
  BY <1>0, <1>2, RunPlaced DEF Placed, Behind, Unprobing, NoneOf, Guarded
<1> QED BY <1>0, <1>1, <1>3, MovedInv

-----------------------------------------------------------------------------
(* The theorems *)

LEMMA InitCleanInv == ASSUME CleanupInit PROVE CleanInv
<1>1. pv \in [Volumes -> VolumeType \cup {Absent}]
  <2>1. PICK old \in Volumes, kind \in Kinds, phase \in {"Bound", "Released"}, ident \in {0, 1} :
          \/ pv = [v \in Volumes |-> IF v = old THEN Volume(kind, phase, ident) ELSE Absent]
          \/ pv = [v \in Volumes |-> Absent]
    BY DEF CleanupInit
  <2>2. Volume(kind, phase, ident) \in VolumeType
    BY DEF Volume, VolumeType
  <2> QED BY <2>1, <2>2
<1>2. ns \in BOOLEAN /\ release \in BOOLEAN /\ pending \in BOOLEAN
  BY DEF CleanupInit
<1>3. foreign \subseteq {"object", "namespace", "container"}
  BY DEF CleanupInit
<1>4. CleanupTypeOK
  BY <1>1, <1>2, <1>3, IdleTyped, NoProbeTyped DEF CleanupInit, CleanupTypeOK
<1>5. Placed(run)
  BY IdleTyped DEF CleanupInit, Placed, Behind, Unprobing
<1> QED BY <1>4, <1>5 DEF CleanInv

LEMMA NextCleanInv == ASSUME CleanInv, [CleanupNext]_cleanupVars PROVE CleanInv'
<1>1. CASE UNCHANGED cleanupVars
  <2>1. UNCHANGED Cluster /\ run' = run /\ faults' = faults /\ deploys' = deploys
    BY <1>1 DEF cleanupVars, cluster, Cluster
  <2> QED BY <2>1, RunPlaced, ClusterTyped, RunMoves
<1>2. CASE CleanerStep
  BY <1>2, ObjectsInv, ListVolumesInv, OthersInv, UninstallInv, DeleteNamespaceInv,
     VerifyNamespaceInv, WaitVolumeInv, FinalCheckInv, DeleteMinikubeInv, DeleteColimaInv,
     RecoverInv, CreateProbeInv, ProbeIdentityInv, PatchInv, AllPatchedInv, UnprobeInv,
     UnprobedInv, Zenon DEF CleanerStep
<1>3. CASE Kubernetes
  BY <1>3, ProvisionInv, ReleasedInv, ReclaimInv, ReclaimProbesInv, Zenon DEF Kubernetes
<1> QED BY <1>1, <1>2, <1>3, WaitFailsInv, FaultInv, CleanStartInv, DeployInv,
           ProvisionerRestartsInv, Zenon DEF CleanupNext

(* The place of a cleanup says what of the project is gone, what it may not *)
(* touch and what it knows of the volumes it adopts, for any volumes, paths *)
(* and number of faults, restarts and deployments.                          *)
THEOREM CleanupInvariant == CleanupSpec => []CleanInv
<1>1. CleanupInit => CleanInv
  BY InitCleanInv
<1>2. CleanInv /\ [CleanupNext]_cleanupVars => CleanInv'
  BY NextCleanInv
<1> QED BY <1>1, <1>2, PTL DEF CleanupSpec

(* A cleanup that reports success left nothing of the project, its data or  *)
(* its own probes, however it got there (SuccessMeansGone).                 *)
THEOREM CleanupHonest == CleanupSpec => []SuccessMeansGone
<1>1. CleanInv => SuccessMeansGone
  BY DEF CleanInv, Placed, SuccessMeansGone
<1> QED BY <1>1, CleanupInvariant, PTL

(* Every step that changes a volume, by what it changes. *)
LEMMA VolumeSteps ==
  ASSUME CleanInv, CleanupNext
  PROVE  \/ pv' = pv
         \/ \E v \in Volumes : Provision(v) \/ Released(v) \/ Reclaim(v)
         \/ run.at = "minikube" /\ MinikubeDeleted
         \/ run.at = "patch" /\ \E v \in run.todo : pv[v] = run.seen[v] /\ Adopted(v)
<1>1. CASE Patch
  <2>1. PICK v \in run.todo : (pv[v] = run.seen[v] /\ Adopted(v)) \/ UNCHANGED cluster
    BY <1>1 DEF Patch
  <2> QED BY <1>1, <2>1 DEF Patch, cluster
<1>2. CASE DeleteMinikube
  BY <1>2 DEF DeleteMinikube
<1>3. CASE Fault
  <2>1. CASE UNCHANGED <<cluster, probe, stray>>
    BY <2>1 DEF cluster
  <2>2. CASE HalfDone
    <3>1. CASE run.at = "minikube"
      BY <2>2, <3>1 DEF HalfDone
    <3>2. CASE run.at = "patch" /\ run.todo # {}
      BY <2>2, <3>2 DEF HalfDone
    <3>3. CASE run.at \in {"uninstall", "delete", "colima", "create", "claim", "unprobe"}
      BY <2>2, <3>3 DEF HalfDone, Uninstalled, NamespaceDeleted, ColimaDeleted, cluster
    <3>4. CASE \/ run.at = "patch" /\ run.todo = {}
               \/ run.at \notin {"uninstall", "delete", "minikube", "colima", "create", "claim",
                                 "patch", "unprobe"}
      BY <2>2, <3>4 DEF HalfDone, cluster
    <3> QED BY <3>1, <3>2, <3>3, <3>4
  <2> QED BY <1>3, <2>1, <2>2 DEF Fault
<1>4. CASE Kubernetes
  BY <1>4 DEF Kubernetes, ReclaimProbes, cluster
<1>5. CASE CleanerStep /\ ~Patch /\ ~DeleteMinikube
  BY <1>5 DEF CleanerStep, Objects, ListVolumes, Others, Uninstall, Uninstalled, DeleteNamespace,
              NamespaceDeleted, VerifyNamespace, WaitVolume, FinalCheck, DeleteColima,
              ColimaDeleted, Recover, CreateProbe, ProbeIdentity, AllPatched, Unprobe, Unprobed,
              cluster
<1>6. CASE WaitFails \/ (\E remove \in BOOLEAN : Clean(remove)) \/ Deploy \/ ProvisionerRestarts
  BY <1>6 DEF WaitFails, Clean, Deploy, ProvisionerRestarts, cluster
<1> QED BY <1>1, <1>2, <1>3, <1>4, <1>5, <1>6, Zenon DEF CleanupNext

LEMMA ForeignStays ==
  ASSUME CleanInv, CleanupNext
  PROVE  foreign' = foreign
<1>0. Placed(run)
  BY RunPlaced
<1>1. run.at = "delete" => foreign \ {"object"} = foreign
  BY <1>0 DEF Placed
<1>2. run.at \in {"minikube", "colima"} => foreign = {}
  BY <1>0 DEF Placed
<1>3. CASE DeleteNamespace
  BY <1>1, <1>3 DEF DeleteNamespace, NamespaceDeleted
<1>4. CASE DeleteMinikube
  BY <1>2, <1>4 DEF DeleteMinikube, MinikubeDeleted
<1>5. CASE DeleteColima
  BY <1>2, <1>5 DEF DeleteColima, ColimaDeleted
<1>6. CASE Patch
  BY <1>6 DEF Patch, Adopted, cluster
<1>7. CASE Fault
  <2>1. CASE UNCHANGED <<cluster, probe, stray>>
    BY <2>1 DEF cluster
  <2>2. CASE HalfDone
    <3>1. CASE run.at = "delete"
      BY <1>1, <2>2, <3>1 DEF HalfDone, NamespaceDeleted
    <3>2. CASE run.at \in {"minikube", "colima"}
      BY <1>2, <2>2, <3>2 DEF HalfDone, MinikubeDeleted, ColimaDeleted
    <3>3. CASE run.at = "patch" /\ run.todo # {}
      BY <2>2, <3>3 DEF HalfDone, Adopted
    <3>4. CASE run.at \in {"uninstall", "create", "claim", "unprobe"}
      BY <2>2, <3>4 DEF HalfDone, Uninstalled, cluster
    <3>5. CASE \/ run.at = "patch" /\ run.todo = {}
               \/ run.at \notin {"uninstall", "delete", "minikube", "colima", "create", "claim",
                                 "patch", "unprobe"}
      BY <2>2, <3>5 DEF HalfDone, cluster
    <3> QED BY <3>1, <3>2, <3>3, <3>4, <3>5
  <2> QED BY <1>7, <2>1, <2>2 DEF Fault
<1>8. CASE CleanerStep /\ ~DeleteNamespace /\ ~DeleteMinikube /\ ~DeleteColima /\ ~Patch
  BY <1>8 DEF CleanerStep, Objects, ListVolumes, Others, Uninstall, Uninstalled, VerifyNamespace,
              WaitVolume, FinalCheck, Recover, CreateProbe, ProbeIdentity, AllPatched, Unprobe,
              Unprobed, cluster
<1>9. CASE Kubernetes
  BY <1>9 DEF Kubernetes, Provision, Released, Reclaim, ReclaimProbes, cluster
<1>10. CASE WaitFails \/ (\E remove \in BOOLEAN : Clean(remove)) \/ Deploy \/ ProvisionerRestarts
  BY <1>10 DEF WaitFails, Clean, Deploy, ProvisionerRestarts, cluster
<1> QED BY <1>3, <1>4, <1>5, <1>6, <1>7, <1>8, <1>9, <1>10, Zenon DEF CleanupNext

(* A volume of somebody else, or one to be retained, keeps its identity. *)
LEMMA UnownedStays ==
  ASSUME CleanInv, CleanupNext, NEW v \in Volumes, pv[v] # Absent,
         pv[v].kind \in {"foreign", "kept"}
  PROVE  pv'[v] # Absent /\ pv'[v].ident = pv[v].ident
<1>0. Placed(run) /\ run \in RunType /\ pv \in [Volumes -> VolumeType \cup {Absent}]
  BY RunPlaced, ClusterTyped DEF ClusterOK
<1>1. CASE pv' = pv
  BY <1>1
<1>2. ASSUME NEW w \in Volumes, Provision(w) PROVE pv'[v] = pv[v]
  BY <1>0, <1>2 DEF Provision
<1>3. ASSUME NEW w \in Volumes, Released(w) PROVE pv'[v] # Absent /\ pv'[v].ident = pv[v].ident
  <2>1. pv' = [pv EXCEPT ![w] = [pv[w] EXCEPT !.phase = "Released"]]
    BY <1>3 DEF Released
  <2>2. CASE w = v
    <3>1. pv'[v] = [pv[v] EXCEPT !.phase = "Released"] /\ pv[v] \in VolumeType
      BY <1>0, <2>1, <2>2
    <3> QED BY <3>1 DEF VolumeType, Absent
  <2>3. CASE w # v
    BY <1>0, <2>1, <2>3
  <2> QED BY <2>2, <2>3
<1>4. ASSUME NEW w \in Volumes, Reclaim(w) PROVE pv'[v] = pv[v]
  BY <1>0, <1>4 DEF Reclaim, Claimed, Present
<1>5. ASSUME run.at = "minikube" PROVE FALSE
  BY <1>0, <1>5 DEF Placed, NoneOf
<1>6. ASSUME run.at = "patch", NEW w \in run.todo, pv[w] = run.seen[w], Adopted(w)
      PROVE  pv'[v] = pv[v]
  <2>1. w \in Volumes /\ pv[w].kind = "good"
    BY <1>6, TargetSeen
  <2> QED BY <1>0, <1>6, <2>1 DEF Adopted
<1> QED BY <1>1, <1>2, <1>3, <1>4, <1>5, <1>6, VolumeSteps

(* Nothing that is not the project's is ever deleted or changed, on any     *)
(* schedule of faults and retries (ForeignKept).                            *)
THEOREM ForeignIsKept == CleanupSpec => ForeignKept
<1> DEFINE A == /\ foreign' = foreign
                /\ \A v \in Present(pv) : pv[v].kind \in {"foreign", "kept"} =>
                     pv'[v] # Absent /\ pv'[v].ident = pv[v].ident
<1>1. ASSUME CleanInv, [CleanupNext]_cleanupVars PROVE [A]_cleanupVars
  <2>1. CASE CleanupNext
    <3>1. foreign' = foreign
      BY <1>1, <2>1, ForeignStays
    <3>2. \A v \in Present(pv) : pv[v].kind \in {"foreign", "kept"} =>
            pv'[v] # Absent /\ pv'[v].ident = pv[v].ident
      <4> SUFFICES ASSUME NEW v \in Volumes, pv[v] # Absent, pv[v].kind \in {"foreign", "kept"}
                   PROVE  pv'[v] # Absent /\ pv'[v].ident = pv[v].ident
        BY DEF Present
      <4> QED BY <1>1, <2>1, UnownedStays
    <3> QED BY <3>1, <3>2
  <2> QED BY <1>1, <2>1
<1> QED BY <1>1, CleanupInvariant, PTL DEF CleanupSpec, ForeignKept

(* A volume whose identity changes was adopted, and safely. *)
LEMMA IdentityChanges ==
  ASSUME CleanInv, CleanupNext, NEW v \in Volumes, pv[v] # Absent, pv'[v] # Absent,
         pv'[v].ident # pv[v].ident
  PROVE  /\ ~ns /\ pv[v].phase = "Released"
         /\ \A w \in Volumes : pv[w] # Absent /\ Path[w] = Path[v] => Recoverable(pv, w)
<1>0. Placed(run) /\ run \in RunType /\ pv \in [Volumes -> VolumeType \cup {Absent}]
  BY RunPlaced, ClusterTyped DEF ClusterOK
<1>1. CASE pv' = pv
  BY <1>1
<1>2. ASSUME NEW w \in Volumes, Provision(w) PROVE FALSE
  BY <1>0, <1>2 DEF Provision
<1>3. ASSUME NEW w \in Volumes, Released(w) PROVE FALSE
  <2>1. pv' = [pv EXCEPT ![w] = [pv[w] EXCEPT !.phase = "Released"]]
    BY <1>3 DEF Released
  <2>2. CASE w = v
    <3>1. pv'[v] = [pv[v] EXCEPT !.phase = "Released"] /\ pv[v] \in VolumeType
      BY <1>0, <2>1, <2>2
    <3> QED BY <3>1 DEF VolumeType
  <2>3. CASE w # v
    BY <1>0, <2>1, <2>3
  <2> QED BY <2>2, <2>3
<1>4. ASSUME NEW w \in Volumes, Reclaim(w) PROVE FALSE
  BY <1>0, <1>4 DEF Reclaim
<1>5. ASSUME MinikubeDeleted PROVE FALSE
  BY <1>5 DEF MinikubeDeleted
<1>6. ASSUME run.at = "patch", NEW t \in run.todo, pv[t] = run.seen[t], Adopted(t)
      PROVE  /\ ~ns /\ pv[v].phase = "Released"
             /\ \A w \in Volumes : pv[w] # Absent /\ Path[w] = Path[v] => Recoverable(pv, w)
  <2>1. t \in Volumes /\ pv[t] # Absent /\ pv[t].phase = "Released" /\ ~ns
    BY <1>6, TargetSeen
  <2>2. v = t
    BY <1>0, <1>6, <2>1 DEF Adopted
  <2>3. Guarded(run)
    BY <1>0, <1>6 DEF Placed
  <2>4. ASSUME NEW w \in Volumes, pv[w] # Absent, Path[w] = Path[v]
        PROVE  Recoverable(pv, w)
    <3>1. Tracks(pv[w], run.seen[w])
      BY <2>3, <2>4 DEF Guarded
    <3>2. v \in Targets(run.seen) /\ w \in Present(run.seen)
      BY <1>6, <2>2, <2>3, <3>1 DEF Guarded, Tracks, Present
    <3>3. w \in Targets(run.seen)
      BY <2>3, <2>4, <3>2 DEF Guarded, Shared
    <3> QED BY <2>4, <3>1, <3>3 DEF Targets, Recoverable, Tracks
  <2> QED BY <2>1, <2>2, <2>4
<1> QED BY <1>1, <1>2, <1>3, <1>4, <1>5, <1>6, VolumeSteps

(* A volume is handed to the provisioner, which will delete its directory,  *)
(* only while the project is undeployed and no volume in use shares the     *)
(* directory, for any assignment of paths (AdoptionSafe).                   *)
THEOREM AdoptionIsSafe == CleanupSpec => AdoptionSafe
<1> DEFINE A == \A v \in Present(pv) : pv'[v] # Absent /\ pv'[v].ident # pv[v].ident =>
                  /\ ~ns /\ pv[v].phase = "Released"
                  /\ \A w \in Present(pv) : Path[w] = Path[v] => Recoverable(pv, w)
<1>1. ASSUME CleanInv, [CleanupNext]_cleanupVars PROVE [A]_cleanupVars
  <2>1. CASE CleanupNext
    <3>1. A
      <4> SUFFICES ASSUME NEW v \in Volumes, pv[v] # Absent, pv'[v] # Absent,
                          pv'[v].ident # pv[v].ident
                   PROVE  /\ ~ns /\ pv[v].phase = "Released"
                          /\ \A w \in Volumes : pv[w] # Absent /\ Path[w] = Path[v]
                               => Recoverable(pv, w)
        BY DEF Present
      <4> QED BY <1>1, <2>1, IdentityChanges
    <3> QED BY <3>1
  <2> QED BY <1>1, <2>1
<1> QED BY <1>1, CleanupInvariant, PTL DEF CleanupSpec, AdoptionSafe

-----------------------------------------------------------------------------
(* OPERATIONS AND PORT-FORWARDS *)

(* The scripts, spelled out for the provers: which actions there are, *)
LEMMA ActionNames ==
  Actions = {"check", "tools", "cluster", "verify", "status", "build", "deploy",
             "connect", "disconnect", "stop", "cleanup", "remove"}
BY DEF Actions, Script

(* that every script that runs commands has a first one, that only deploy  *)
(* installs, and that loading the images is the last command of a build    *)
(* and of nothing else.                                                    *)
LEMMA ScriptFacts ==
  ASSUME NEW a \in Actions
  PROVE  /\ Len(Script[a]) \in 0 .. 3
         /\ a \notin {"connect", "disconnect"} => 1 <= Len(Script[a])
         /\ \A i \in 1 .. Len(Script[a]) :
              /\ Script[a][i] = "helm-install" => a = "deploy"
              /\ Script[a][i] = "minikube-load" => a = "build"
              /\ a = "build" /\ ~(i < Len(Script[a])) => Script[a][i] = "minikube-load"
<1>1. CASE a = "check"
  <2>1. Script[a] = <<"xcode-select", "brew">>
    BY <1>1 DEF Script
  <2> QED BY <1>1, <2>1
<1>2. CASE a = "tools"
  <2>1. Script[a] = <<"tools", "doctor">>
    BY <1>2 DEF Script
  <2> QED BY <1>2, <2>1
<1>3. CASE a = "cluster"
  <2>1. Script[a] = <<"cluster-up">>
    BY <1>3 DEF Script
  <2> QED BY <1>3, <2>1
<1>4. CASE a = "verify"
  <2>1. Script[a] = <<"helm-verify">>
    BY <1>4 DEF Script
  <2> QED BY <1>4, <2>1
<1>5. CASE a = "status"
  <2>1. Script[a] = <<"get">>
    BY <1>5 DEF Script
  <2> QED BY <1>5, <2>1
<1>6. CASE a = "build"
  <2>1. Script[a] = <<"build", "docker-build", "minikube-load">>
    BY <1>6 DEF Script
  <2> QED BY <1>6, <2>1
<1>7. CASE a = "deploy"
  <2>1. Script[a] = <<"helm-check", "helm-install">>
    BY <1>7 DEF Script
  <2> QED BY <1>7, <2>1
<1>8. CASE a \in {"connect", "disconnect"}
  <2>1. Script[a] = <<>>
    BY <1>8 DEF Script
  <2> QED BY <1>8, <2>1
<1>9. CASE a = "stop"
  <2>1. Script[a] = <<"cluster-down">>
    BY <1>9 DEF Script
  <2> QED BY <1>9, <2>1
<1>10. CASE a = "cleanup"
  <2>1. Script[a] = <<"cluster-up", "clean", "cluster-down">>
    BY <1>10 DEF Script
  <2> QED BY <1>10, <2>1
<1>11. CASE a = "remove"
  <2>1. Script[a] = <<"cluster-up", "clean">>
    BY <1>11 DEF Script
  <2> QED BY <1>11, <2>1
<1> QED BY <1>1, <1>2, <1>3, <1>4, <1>5, <1>6, <1>7, <1>8, <1>9, <1>10, <1>11, ActionNames

-----------------------------------------------------------------------------
(* Where an operation can be: a script is run from its first command to    *)
(* its last, by actions that have one.                                     *)
OnScript ==
  op # None =>
    /\ op.at \in {"start", "kill"} => op.step = 1
    /\ op.at = "start" /\ op.action = "build" => tags < MaxBuilds
    /\ op.at = "kill" => op.action \in Detaching
    /\ op.at = "command" => op.step \in 1 .. Len(Script[op.action])
    /\ op.at = "command" /\ op.action = "build" => tag # NoTag

(* Between stopForward and s.forward = cmd the server has no forward. *)
Detached == op # None /\ op.at \in {"kill", "listen", "attach", "abort"} => forward = None

(* A console that is down has no goroutines, and no forward it started. *)
DownIsQuiet == up = "down" => op = None /\ \A f \in Forwards : procs[f] # "running"

(* A tag in memory or on disk was built, but for the one being built and   *)
(* the memory of a console that is gone.                                   *)
TagsBuilt ==
  /\ \A r \in Roots : saved[r] = NoTag \/ saved[r] \in built
  /\ \/ tag = NoTag \/ tag \in built \/ up = "down"
     \/ op # None /\ op.action = "build" /\ op.at = "command"

ConsoleInv ==
  /\ ConsoleTypeOK /\ OnScript /\ Detached /\ DownIsQuiet /\ ForwardsOwned
  /\ TagsBuilt /\ DeployedWasBuilt

USE DEF ConsoleTypeOK, OnScript, Detached, DownIsQuiet, ForwardsOwned, TagsBuilt, DeployedWasBuilt,
        Places, At, Goes, Ends, diskVars, NoTag, Tags

(* A record of an operation is not the absence of one. *)
LEMMA OpFields ==
  ASSUME NEW o \in Operation
  PROVE  /\ o # None /\ o.action \in Actions /\ o.at \in Places /\ o.step \in 1 .. 3
         /\ o.own \in Forwards \cup {None}
<1>1. o # None
  BY ConsoleAssumption
<1> QED BY <1>1 DEF Operation

(* The action handler, the cancel request and the timeout keep ConsoleInv. *)
LEMMA HandlerInv ==
  ASSUME ConsoleInv, (\E a \in Actions, r \in Roots : Post(a, r)) \/ Cancel \/ Timeout
  PROVE  ConsoleInv'
<1> USE ConsoleAssumption DEF ConsoleInv
<1>1. ASSUME NEW a \in Actions, NEW r \in Roots, Post(a, r) PROVE ConsoleInv'
  <2>1. op' \in Operation /\ op'.at = "start" /\ op'.step = 1 /\ op'.action = a
    BY <1>1 DEF Post, Operation
  <2>2. /\ root' = r /\ tag' = (IF r = root THEN tag ELSE saved[r])
        /\ UNCHANGED <<up, forward, connected, procs, saved, built, deployed, tags>>
        /\ up # "down" /\ op = None /\ (a = "build" => tags < MaxBuilds)
    BY <1>1 DEF Post
  <2>3. ConsoleTypeOK' /\ OnScript' /\ Detached' /\ DownIsQuiet'
    BY <2>1, <2>2
  <2>4. ForwardsOwned' /\ TagsBuilt' /\ DeployedWasBuilt'
    BY <2>2
  <2> QED BY <2>3, <2>4
<1>2. CASE CtxDone
  <2>1. /\ op \in Operation /\ op' = [op EXCEPT !.live = FALSE]
        /\ UNCHANGED <<up, root, tag, forward, connected, procs, saved, built, deployed, tags>>
    BY <1>2 DEF CtxDone
  <2>2. /\ op # None /\ op' \in Operation /\ op' # None
        /\ op'.action = op.action /\ op'.at = op.at /\ op'.step = op.step /\ op'.own = op.own
    <3>1. /\ op' \in Operation
          /\ op'.action = op.action /\ op'.at = op.at /\ op'.step = op.step /\ op'.own = op.own
      BY <2>1 DEF Operation
    <3> QED BY <2>1, <3>1, OpFields
  <2> QED BY <2>1, <2>2
<1> QED BY <1>1, <1>2 DEF Cancel, Timeout

(* An operation that only goes on to another place, with everything but    *)
(* its own record unchanged, keeps ConsoleInv where that place allows.     *)
LEMMA GoesInv ==
  ASSUME ConsoleInv, op # None, NEW p \in Places, Goes(p),
         UNCHANGED <<up, root, tag, forward, connected, procs, diskVars>>,
         p \notin {"start", "kill", "listen", "attach", "abort"},
         p = "command" => op.step \in 1 .. Len(Script[op.action]),
         op.at \notin {"attach", "kill", "abort"},
         op.action = "build" => op.at # "command" /\ p # "command"
  PROVE  ConsoleInv'
<1> USE ConsoleAssumption DEF ConsoleInv
<1>1. op \in Operation /\ op' = [op EXCEPT !.at = p]
  OBVIOUS
<1>2. /\ op' \in Operation /\ op' # None
      /\ op'.action = op.action /\ op'.at = p /\ op'.step = op.step /\ op'.own = op.own
  <2>1. /\ op' \in Operation
        /\ op'.action = op.action /\ op'.at = p /\ op'.step = op.step /\ op'.own = op.own
    BY <1>1 DEF Operation
  <2> QED BY <2>1, OpFields
<1> QED BY <1>2

(* An operation that returns keeps ConsoleInv when no forward is in its    *)
(* hands and its tag is built.                                             *)
LEMMA EndsInv ==
  ASSUME ConsoleInv, op # None, Ends, op.at \notin {"attach", "kill", "abort"},
         tag' \in Tags \cup {NoTag}, tag' = NoTag \/ tag' \in built,
         deployed' \in Tags \cup {NoTag}, deployed' = NoTag \/ deployed' \in built,
         UNCHANGED <<up, root, forward, connected, procs, saved, built, tags>>
  PROVE  ConsoleInv'
BY DEF ConsoleInv

(* The first lines of an action's case keep ConsoleInv. *)
LEMMA StartInv == ASSUME ConsoleInv, Start PROVE ConsoleInv'
<1> USE ConsoleAssumption DEF ConsoleInv
<1>0. /\ op # None /\ op \in Operation /\ op.at = "start" /\ op.step = 1
      /\ op.action \in {"connect", "disconnect"} \/ op.step \in 1 .. Len(Script[op.action])
  <2>1. op # None /\ op \in Operation /\ op.at = "start" /\ op.step = 1
    BY DEF Start, StartBuild, StartDeploy, StartDetaching, StartOther
  <2>2. op.action \in Actions
    BY <2>1, OpFields
  <2> QED BY <2>1, <2>2, ScriptFacts
<1>1. CASE StartBuild
  <2>1. /\ op.action = "build" /\ op' = [op EXCEPT !.at = "command"]
        /\ tags' = tags + 1 /\ tag' = tags + 1
        /\ UNCHANGED <<up, root, forward, connected, procs, saved, built, deployed>>
    BY <1>1 DEF StartBuild
  <2>2. /\ op' \in Operation /\ op' # None
        /\ op'.at = "command" /\ op'.action = "build" /\ op'.step = 1 /\ op'.own = op.own
    <3>1. /\ op' \in Operation
          /\ op'.at = "command" /\ op'.action = "build" /\ op'.step = 1 /\ op'.own = op.own
      BY <1>0, <2>1 DEF Operation
    <3> QED BY <3>1, OpFields
  <2>3. ConsoleTypeOK'
    BY <1>0, <2>1, <2>2
  <2>4. OnScript' /\ Detached' /\ DownIsQuiet'
    BY <1>0, <2>1, <2>2
  <2>5. ForwardsOwned' /\ TagsBuilt' /\ DeployedWasBuilt'
    BY <1>0, <2>1, <2>2
  <2> QED BY <2>3, <2>4, <2>5
<1>2. CASE StartDeploy
  <2>1. CASE Ends
    BY <1>0, <1>2, <2>1, EndsInv DEF StartDeploy
  <2>2. CASE Goes("command")
    BY <1>0, <1>2, <2>2, GoesInv DEF StartDeploy
  <2> QED BY <1>2, <2>1, <2>2 DEF StartDeploy
<1>3. CASE StartDetaching
  <2>1. /\ op.action \in Detaching
        /\ op' = [op EXCEPT !.at = "kill", !.own = forward] /\ forward' = None
        /\ connected' = FALSE /\ UNCHANGED <<up, root, tag, procs, saved, built, deployed, tags>>
    BY <1>3 DEF StartDetaching, Detach
  <2>2. /\ op' \in Operation /\ op' # None /\ op'.at = "kill" /\ op'.action = op.action
        /\ op'.step = op.step /\ op'.own = forward
    <3>1. /\ op' \in Operation /\ op'.at = "kill" /\ op'.action = op.action
          /\ op'.step = op.step /\ op'.own = forward
      BY <1>0, <2>1 DEF Operation
    <3> QED BY <3>1, OpFields
  <2>3. ConsoleTypeOK' /\ OnScript' /\ Detached' /\ DownIsQuiet'
    BY <1>0, <2>1, <2>2
  <2>4. ForwardsOwned'
    BY <1>0, <2>1, <2>2
  <2>5. TagsBuilt' /\ DeployedWasBuilt'
    BY <1>0, <2>1
  <2> QED BY <2>3, <2>4, <2>5
<1>4. CASE StartOther
  <2>1. Goes("command") /\ op.action \notin {"connect", "disconnect"}
    BY <1>4 DEF StartOther, Detaching
  <2> QED BY <1>0, <1>4, <2>1, GoesInv DEF StartOther
<1> QED BY <1>1, <1>2, <1>3, <1>4 DEF Start

(* Killing the forward that was detached keeps ConsoleInv. *)
LEMMA KillInv == ASSUME ConsoleInv, KillForward PROVE ConsoleInv'
<1> USE ConsoleAssumption DEF ConsoleInv
<1>1. /\ op # None /\ op \in Operation /\ op.at \in {"kill", "abort"} /\ forward = None
      /\ op.at = "kill" => op.step = 1 /\ op.action \in Detaching
      /\ procs' = Killed(op.own)
      /\ UNCHANGED <<up, root, tag, forward, connected, saved, built, deployed, tags>>
  BY DEF KillForward
<1>2. /\ procs' \in [Forwards -> {"none", "running", "killed", "exited", "orphan"}]
      /\ \A f \in Forwards : procs'[f] = "running" => procs[f] = "running" /\ f # op.own
  BY <1>1 DEF Killed
<1>3. up = "serving" => \A f \in Forwards : procs'[f] # "running"
  BY <1>1, <1>2
<1>4. up = "down" => \A f \in Forwards : procs'[f] # "running"
  BY <1>2
<1>5. CASE op' = None
  BY <1>1, <1>2, <1>3, <1>4, <1>5
<1>6. ASSUME NEW p \in {"listen", "command"}, op' = [op EXCEPT !.at = p, !.own = None],
             op.at = "kill", p = "command" => op.action \notin {"connect", "disconnect"}
      PROVE  ConsoleInv'
  <2>1. /\ op' \in Operation /\ op'.at = p /\ op'.action = op.action /\ op'.step = op.step
    BY <1>1, <1>6 DEF Operation
  <2>2. op' # None /\ op.action \in Actions
    BY <1>1, <2>1, OpFields
  <2>3. p = "command" => op.step \in 1 .. Len(Script[op.action])
    BY <1>1, <1>6, <2>2, ScriptFacts
  <2>4. op.action # "build"
    BY <1>1, <1>6 DEF Detaching
  <2>5. ConsoleTypeOK' /\ OnScript' /\ Detached' /\ DownIsQuiet'
    BY <1>1, <1>2, <1>4, <1>6, <2>1, <2>2, <2>3, <2>4
  <2>6. ForwardsOwned'
    BY <1>1, <1>3
  <2>7. TagsBuilt' /\ DeployedWasBuilt'
    BY <1>1, <1>6, <2>4
  <2> QED BY <2>5, <2>6, <2>7
<1>7. \/ op' = None
      \/ op.at = "kill" /\ op.action = "connect" /\ op' = [op EXCEPT !.at = "listen", !.own = None]
      \/ /\ op.at = "kill" /\ op.action \notin {"connect", "disconnect"}
         /\ op' = [op EXCEPT !.at = "command", !.own = None]
  BY <1>1 DEF KillForward
<1> QED BY <1>5, <1>6, <1>7

(* What an operation installs is its tag, and then a built one. *)
LEMMA InstallsBuilt ==
  ASSUME ConsoleInv, op # None, op.at = "command", Install, up # "down"
  PROVE  deployed' \in Tags \cup {NoTag} /\ (deployed' = NoTag \/ deployed' \in built)
<1>1. op \in Operation /\ op.action \in Actions /\ op.step \in 1 .. Len(Script[op.action])
  BY OpFields DEF ConsoleInv
<1>2. Command = "helm-install" => op.action = "deploy"
  BY <1>1, ScriptFacts DEF Command
<1>3. Command = "helm-install" => tag = NoTag \/ tag \in built
  BY <1>2 DEF ConsoleInv
<1> QED BY <1>3 DEF ConsoleInv, Install

(* A command that ends well or badly keeps ConsoleInv. *)
LEMMA CommandInv == ASSUME ConsoleInv, CommandSucceeds \/ CommandFails PROVE ConsoleInv'
<1> USE ConsoleAssumption DEF ConsoleInv
<1>0. /\ op # None /\ op \in Operation /\ op.at = "command" /\ op.action \in Actions
      /\ op.step \in 1 .. Len(Script[op.action]) /\ Len(Script[op.action]) \in 0 .. 3
      /\ up # "down"
  <2>1. op # None /\ op \in Operation /\ op.at = "command"
    BY DEF CommandSucceeds, CommandFails
  <2>2. op.action \in Actions
    BY <2>1, OpFields
  <2> QED BY <2>1, <2>2, ScriptFacts
<1>1. CASE CommandSucceeds
  <2>1. deployed' \in Tags \cup {NoTag} /\ (deployed' = NoTag \/ deployed' \in built)
    BY <1>0, <1>1, InstallsBuilt DEF CommandSucceeds
  <2>2. built \subseteq built' /\ built' \subseteq Tags \cup {NoTag} \cup {tag}
    BY <1>1 DEF CommandSucceeds
  <2>3. UNCHANGED <<up, root, tag, forward, connected, procs, saved, tags>>
    BY <1>1 DEF CommandSucceeds
  <2>4. Command = "minikube-load" => op.action = "build"
    BY <1>0, ScriptFacts DEF Command
  <2>5. built' \subseteq Tags
    BY <1>0, <1>1, <2>4 DEF CommandSucceeds
  <2>6. CASE op.step < Len(Script[op.action])
    <3>1. op' = [op EXCEPT !.step = op.step + 1]
      BY <1>1, <2>6 DEF CommandSucceeds
    <3>2. op.step + 1 \in 1 .. 3 /\ op.step + 1 \in 1 .. Len(Script[op.action])
      <4> DEFINE k == op.step
                 n == Len(Script[op.action])
      <4>1. k \in 1 .. n /\ n \in 0 .. 3 /\ k < n
        BY <1>0, <2>6
      <4> HIDE DEF k, n
      <4>2. k + 1 \in 1 .. 3 /\ k + 1 \in 1 .. n
        BY <4>1
      <4> QED BY <4>2 DEF k, n
    <3>3. /\ op' \in Operation /\ op'.at = "command" /\ op'.action = op.action
          /\ op'.step = op.step + 1 /\ op'.own = op.own
      BY <1>0, <3>1, <3>2 DEF Operation
    <3>4. op' # None
      BY <3>3, OpFields
    <3>5. ConsoleTypeOK' /\ OnScript' /\ Detached' /\ DownIsQuiet'
      BY <1>0, <2>1, <2>3, <2>5, <3>2, <3>3, <3>4
    <3>6. ForwardsOwned' /\ TagsBuilt' /\ DeployedWasBuilt'
      BY <1>0, <2>1, <2>2, <2>3, <3>3, <3>4
    <3> QED BY <3>5, <3>6
  <2>7. CASE ~(op.step < Len(Script[op.action]))
    <3>1. op.action = "build" => tag \in built'
      <4>1. op.action = "build" => Command = "minikube-load"
        BY <1>0, <2>7, ScriptFacts DEF Command
      <4> QED BY <1>1, <4>1 DEF CommandSucceeds
    <3>2. tag = NoTag \/ tag \in built'
      BY <1>0, <2>2, <3>1
    <3>3. CASE op' = [op EXCEPT !.at = "finish"]
      <4>1. /\ op' \in Operation /\ op'.at = "finish" /\ op'.action = op.action /\ op'.own = op.own
        BY <1>0, <3>3 DEF Operation
      <4>2. ConsoleTypeOK' /\ OnScript' /\ Detached' /\ DownIsQuiet'
        BY <1>0, <2>1, <2>3, <2>5, <4>1
      <4>3. ForwardsOwned' /\ TagsBuilt' /\ DeployedWasBuilt'
        BY <1>0, <2>1, <2>2, <2>3, <3>2, <4>1
      <4> QED BY <4>2, <4>3
    <3>4. CASE op' = None
      <4>1. ConsoleTypeOK' /\ OnScript' /\ Detached' /\ DownIsQuiet'
        BY <1>0, <2>1, <2>3, <2>5, <3>4
      <4>2. ForwardsOwned' /\ TagsBuilt' /\ DeployedWasBuilt'
        BY <1>0, <2>1, <2>2, <2>3, <3>2, <3>4
      <4> QED BY <4>1, <4>2
    <3> QED BY <1>1, <2>7, <3>3, <3>4 DEF CommandSucceeds
  <2> QED BY <2>6, <2>7
<1>2. CASE CommandFails
  <2>1. deployed' \in Tags \cup {NoTag} /\ (deployed' = NoTag \/ deployed' \in built)
    <3>1. CASE Install
      BY <1>0, <3>1, InstallsBuilt
    <3>2. CASE UNCHANGED deployed
      BY <3>2
    <3> QED BY <1>2, <3>1, <3>2 DEF CommandFails
  <2>2. tag' \in Tags \cup {NoTag} /\ (tag' = NoTag \/ tag' \in built)
    BY <1>0, <1>2 DEF CommandFails, Reverted
  <2> QED BY <1>0, <1>2, <2>1, <2>2, EndsInv DEF CommandFails
<1> QED BY <1>1, <1>2

(* The tag file and the tag in memory after a build or a removal *)
LEMMA FinishInv == ASSUME ConsoleInv, SaveTag \/ ForgetTag PROVE ConsoleInv'
<1> USE ConsoleAssumption DEF ConsoleInv
<1>0. op # None /\ op.at = "finish" /\ op' = None
  BY DEF SaveTag, ForgetTag
<1>1. CASE SaveTag
  BY <1>0, <1>1 DEF SaveTag
<1>2. CASE ForgetTag
  BY <1>0, <1>2 DEF ForgetTag
<1> QED BY <1>1, <1>2

(* connect: from the listener to the port *)
LEMMA ConnectInv == ASSUME ConsoleInv, Connect PROVE ConsoleInv'
<1> USE ConsoleAssumption DEF ConsoleInv
<1>0. op # None /\ op \in Operation /\ op.own \in Forwards \cup {None} /\ up # "down"
  <2>1. op # None /\ op \in Operation /\ up # "down"
    BY DEF Connect, StartForward, Attach, Answered, SetPort, NotReady
  <2> QED BY <2>1, OpFields
<1>1. CASE StartForward
  <2>1. /\ op.at = "listen" /\ forward = None
        /\ UNCHANGED <<up, root, tag, forward, connected, saved, built, deployed, tags>>
    BY <1>1 DEF StartForward
  <2>2. CASE op' = None /\ UNCHANGED procs
    BY <1>0, <2>1, <2>2, EndsInv
  <2>3. ASSUME NEW f \in Forwards, procs[f] = "none", procs' = [procs EXCEPT ![f] = "running"],
               op' = [op EXCEPT !.at = "attach", !.own = f]
        PROVE  ConsoleInv'
    <3>1. /\ op' \in Operation /\ op'.at = "attach" /\ op'.action = op.action /\ op'.own = f
      BY <1>0, <2>3 DEF Operation
    <3>2. op' # None
      BY <3>1, OpFields
    <3>3. /\ procs' \in [Forwards -> {"none", "running", "killed", "exited", "orphan"}]
          /\ \A g \in Forwards \ {f} : procs'[g] = procs[g]
      BY <2>3
    <3>4. ConsoleTypeOK' /\ OnScript' /\ Detached' /\ DownIsQuiet'
      BY <1>0, <2>1, <3>1, <3>2, <3>3
    <3>5. ForwardsOwned'
      BY <1>0, <2>1, <3>1, <3>2, <3>3
    <3>6. TagsBuilt' /\ DeployedWasBuilt'
      BY <1>0, <2>1
    <3> QED BY <3>4, <3>5, <3>6
  <2> QED BY <1>1, <2>2, <2>3 DEF StartForward
<1>2. CASE Attach
  <2>1. /\ op.at = "attach" /\ forward = None /\ forward' = op.own
        /\ op' = [op EXCEPT !.at = "probe"]
        /\ UNCHANGED <<up, root, tag, connected, procs, saved, built, deployed, tags>>
    BY <1>2 DEF Attach
  <2>2. /\ op' \in Operation /\ op'.at = "probe" /\ op'.action = op.action /\ op'.own = op.own
    BY <1>0, <2>1 DEF Operation
  <2>3. ConsoleTypeOK' /\ OnScript' /\ Detached' /\ DownIsQuiet'
    BY <1>0, <2>1, <2>2
  <2>4. ForwardsOwned' /\ TagsBuilt' /\ DeployedWasBuilt'
    BY <1>0, <2>1, <2>2
  <2> QED BY <2>3, <2>4
<1>3. CASE Answered
  BY <1>0, <1>3, GoesInv DEF Answered
<1>4. CASE SetPort
  BY <1>0, <1>4 DEF SetPort
<1>5. CASE NotReady
  <2>1. /\ op.at = "probe" /\ forward' = None /\ connected' = FALSE
        /\ op' = [op EXCEPT !.at = "abort", !.own = forward]
        /\ UNCHANGED <<up, root, tag, procs, saved, built, deployed, tags>>
    BY <1>5 DEF NotReady, Detach
  <2>2. /\ op' \in Operation /\ op'.at = "abort" /\ op'.action = op.action /\ op'.own = forward
    BY <1>0, <2>1 DEF Operation
  <2>3. op' # None
    BY <2>2, OpFields
  <2>4. ConsoleTypeOK' /\ OnScript' /\ Detached' /\ DownIsQuiet'
    BY <1>0, <2>1, <2>2
  <2>5. ForwardsOwned' /\ TagsBuilt' /\ DeployedWasBuilt'
    BY <1>0, <2>1, <2>2, <2>3
  <2> QED BY <2>4, <2>5
<1> QED BY <1>1, <1>2, <1>3, <1>4, <1>5 DEF Connect

(* The deaths of port-forwards and their waiters *)
LEMMA ProcessInv ==
  ASSUME ConsoleInv, NEW f \in Forwards, Dies(f) \/ Waiter(f)
  PROVE  ConsoleInv'
<1> USE ConsoleAssumption DEF ConsoleInv
<1>1. CASE Dies(f)
  <2>1. /\ procs' \in [Forwards -> {"none", "running", "killed", "exited", "orphan"}]
        /\ \A g \in Forwards : procs'[g] = "running" => procs[g] = "running"
        /\ UNCHANGED <<up, root, tag, forward, connected, op, saved, built, deployed, tags>>
    BY <1>1 DEF Dies
  <2> QED BY <2>1
<1>2. CASE Waiter(f)
  <2>1. /\ procs' \in [Forwards -> {"none", "running", "killed", "exited", "orphan"}]
        /\ \A g \in Forwards : procs'[g] = "running" => procs[g] = "running" /\ g # f
        /\ UNCHANGED <<up, root, tag, op, saved, built, deployed, tags>>
        /\ \/ forward = f /\ forward' = None /\ connected' = FALSE
           \/ UNCHANGED <<forward, connected>>
    BY <1>2 DEF Waiter, Current
  <2> QED BY <2>1
<1> QED BY <1>1, <1>2

(* The signal, the end of the process and its next start *)
LEMMA MainInv == ASSUME ConsoleInv, Quit \/ Exit \/ Restart PROVE ConsoleInv'
<1> USE ConsoleAssumption DEF ConsoleInv
<1>1. CASE Quit
  <2>1. /\ up' = "quitting" /\ forward' = None /\ connected' = FALSE /\ procs' = Killed(forward)
        /\ op' = (IF op = None THEN None ELSE [op EXCEPT !.live = FALSE])
        /\ UNCHANGED <<root, tag, saved, built, deployed, tags>> /\ up = "serving"
    BY <1>1 DEF Quit
  <2>2. procs' \in [Forwards -> {"none", "running", "killed", "exited", "orphan"}]
    BY <2>1 DEF Killed
  <2>3. CASE op = None
    BY <2>1, <2>2, <2>3
  <2>4. CASE op # None
    <3>1. /\ op' \in Operation
          /\ op'.action = op.action /\ op'.at = op.at /\ op'.step = op.step
      BY <2>1, <2>4 DEF Operation
    <3>2. op' # None
      BY <3>1, OpFields
    <3> QED BY <2>1, <2>2, <2>4, <3>1, <3>2
  <2> QED BY <2>3, <2>4
<1>2. CASE Exit
  <2>1. /\ up' = "down" /\ op' = None /\ forward' = None /\ connected' = FALSE
        /\ UNCHANGED <<root, tag, saved, built, tags>> /\ up = "quitting"
    BY <1>2 DEF Exit
  <2>2. /\ procs' \in [Forwards -> {"none", "running", "killed", "exited", "orphan"}]
        /\ \A f \in Forwards : procs'[f] # "running"
    BY <1>2 DEF Exit
  <2>3. deployed' \in Tags \cup {NoTag} /\ (deployed' = NoTag \/ deployed' \in built)
    <3>1. CASE UNCHANGED deployed
      BY <3>1
    <3>2. CASE op # None /\ op.at = "command" /\ Install
      BY <2>1, <3>2, InstallsBuilt
    <3> QED BY <1>2, <3>1, <3>2 DEF Exit
  <2> QED BY <2>1, <2>2, <2>3
<1>3. CASE Restart
  BY <1>3 DEF Restart
<1> QED BY <1>1, <1>2, <1>3

-----------------------------------------------------------------------------
(* The inductive invariant behind the two results below. *)
THEOREM ConsoleInvariant == ConsoleSpec => []ConsoleInv
<1>1. ConsoleInit => ConsoleInv
  <2> SUFFICES ASSUME ConsoleInit PROVE ConsoleInv
    OBVIOUS
  <2> USE ConsoleAssumption DEF ConsoleInit
  <2>1. ConsoleTypeOK
    <3>1. 0 \in 0 .. MaxBuilds
      OBVIOUS
    <3>2. saved \in [Roots -> Tags \cup {NoTag}] /\ procs \in [Forwards -> {"none"}]
      OBVIOUS
    <3>3. built \subseteq Tags /\ tag \in Tags \cup {NoTag} /\ deployed \in Tags \cup {NoTag}
      OBVIOUS
    <3> QED BY <3>1, <3>2, <3>3
  <2>2. OnScript /\ Detached /\ DownIsQuiet /\ ForwardsOwned
    OBVIOUS
  <2>3. TagsBuilt /\ DeployedWasBuilt
    OBVIOUS
  <2> QED BY <2>1, <2>2, <2>3 DEF ConsoleInv
<1>2. ConsoleInv /\ [ConsoleNext]_consoleVars => ConsoleInv'
  <2> SUFFICES ASSUME ConsoleInv, [ConsoleNext]_consoleVars PROVE ConsoleInv'
    OBVIOUS
  <2>1. CASE UNCHANGED consoleVars
    BY <2>1 DEF consoleVars, ConsoleInv
  <2> QED BY <2>1, HandlerInv, StartInv, KillInv, CommandInv, FinishInv, ConnectInv, ProcessInv,
             MainInv DEF ConsoleNext
<1> QED BY <1>1, <1>2, PTL DEF ConsoleSpec

(* While the console serves, every live port-forward is the one disconnect *)
(* and stop would kill, or is being attached or killed by the operation,   *)
(* in every order of deaths, reconnects, cancels and waiters.              *)
THEOREM NoForwardLost == ConsoleSpec => []ForwardsOwned
<1>1. ConsoleInv => ForwardsOwned
  BY DEF ConsoleInv
<1> QED BY <1>1, ConsoleInvariant, PTL

(* Helm is only ever given a tag all of whose images were built and        *)
(* loaded, across failed builds, repositories, unwritable tag files and    *)
(* restarts.                                                               *)
THEOREM OnlyBuiltDeployed == ConsoleSpec => []DeployedWasBuilt
<1>1. ConsoleInv => DeployedWasBuilt
  BY DEF ConsoleInv
<1> QED BY <1>1, ConsoleInvariant, PTL

=============================================================================
