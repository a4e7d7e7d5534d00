------------------------------ MODULE Console -------------------------------
(***************************************************************************)
(* The operator console (console/main.go): at most one operation at a time *)
(* runs in a goroutine, under a context that a cancel request, 45 minutes  *)
(* or the end of the console cuts; port-forward processes come and go on   *)
(* their own; the image tag lives in memory and in a file per repository.  *)
(* Every command may fail, hang, or be killed half way.  The inside of the *)
(* cleanup commands is in Cleanup.                                         *)
(***************************************************************************)
EXTENDS Naturals, Sequences

CONSTANTS
  Roots,      \* repositories a user selects
  Forwards,   \* kubectl port-forward processes
  MaxBuilds,  \* bound on builds, each of which has its own tag
  None

NoTag == 0
Tags == 1 .. MaxBuilds

VARIABLES
  up,         \* the console process: "serving", "quitting", "down"
  root, tag,  \* fields of server
  forward,    \* server.forward
  connected,  \* server.port > 0
  op,         \* the operation's goroutine
  procs,      \* what each port-forward process is doing
  saved,      \* savedTag(root), per repository
  built,      \* tags all of whose images were built and loaded
  deployed,   \* the tag helm last installed
  tags        \* number of tags handed out

consoleVars == <<up, root, tag, forward, connected, op, procs, saved, built, deployed, tags>>
diskVars == <<saved, built, deployed, tags>>

(* The commands an operation runs one after another. *)
Script ==
  [check |-> <<"xcode-select", "brew">>, tools |-> <<"tools", "doctor">>,
   cluster |-> <<"cluster-up">>, verify |-> <<"helm-verify">>, status |-> <<"get">>,
   build |-> <<"build", "docker-build", "minikube-load">>,
   deploy |-> <<"helm-check", "helm-install">>,
   connect |-> <<>>, disconnect |-> <<>>, stop |-> <<"cluster-down">>,
   cleanup |-> <<"cluster-up", "clean", "cluster-down">>,
   remove |-> <<"cluster-up", "clean">>]

Actions == DOMAIN Script

(* Operations that begin with stopForward. *)
Detaching == {"connect", "disconnect", "stop", "cleanup", "remove"}

Places == {"start", "kill", "command", "listen", "attach", "probe", "answered", "abort", "finish"}

Operation ==
  [action : Actions, at : Places, step : 1 .. 3, own : Forwards \cup {None}, live : BOOLEAN]

ASSUME ConsoleAssumption == MaxBuilds \in Nat /\ None \notin Forwards /\ None \notin Operation

ConsoleTypeOK ==
  /\ up \in {"serving", "quitting", "down"}
  /\ root \in Roots /\ tag \in Tags \cup {NoTag}
  /\ forward \in Forwards \cup {None} /\ connected \in BOOLEAN
  /\ op \in Operation \cup {None}
  /\ procs \in [Forwards -> {"none", "running", "killed", "exited", "orphan"}]
  /\ saved \in [Roots -> Tags \cup {NoTag}]
  /\ built \subseteq Tags /\ deployed \in Tags \cup {NoTag} /\ tags \in 0 .. MaxBuilds

-----------------------------------------------------------------------------
(* The action handler *)

(* POST /control/action: refused while an operation runs, and with another *)
(* root while a forward exists.                                            *)
Post(a, r) ==
  /\ up # "down" /\ op = None
  /\ r # root => forward = None
  /\ a = "build" => tags < MaxBuilds
  /\ root' = r
  /\ tag' = IF r = root THEN tag ELSE saved[r]
  /\ op' = [action |-> a, at |-> "start", step |-> 1, own |-> None, live |-> TRUE]
  /\ UNCHANGED <<up, forward, connected, procs, diskVars>>

CtxDone ==
  /\ op # None
  /\ op.live
  /\ op' = [op EXCEPT !.live = FALSE]
  /\ UNCHANGED <<up, root, tag, forward, connected, procs, diskVars>>

Cancel == up # "down" /\ CtxDone

(* Mutant: the context has no timeout. *)
Timeout_Never == FALSE /\ CtxDone

(* context.WithTimeout(45 minutes) *)
Timeout == CtxDone

(* execute returned: phase and result are set, cancel is forgotten. *)
Ends == op' = None

-----------------------------------------------------------------------------
(* execute *)

At(place) == op # None /\ op.at = place

Goes(place) == op' = [op EXCEPT !.at = place]

(* stopForward under the mutex; the process it returns is killed next. *)
Detach(place) ==
  /\ forward' = None /\ connected' = FALSE
  /\ op' = [op EXCEPT !.at = place, !.own = forward]

(* The first lines of the action's case. *)
StartBuild ==
  /\ At("start") /\ op.action = "build"
  /\ tags' = tags + 1 /\ tag' = tags + 1
  /\ Goes("command")
  /\ UNCHANGED <<up, root, forward, connected, procs, saved, built, deployed>>

StartDeploy ==
  /\ At("start") /\ op.action = "deploy"
  /\ IF tag = NoTag THEN Ends ELSE Goes("command")
  /\ UNCHANGED <<up, root, tag, forward, connected, procs, diskVars>>

StartDetaching ==
  /\ At("start") /\ op.action \in Detaching
  /\ Detach("kill")
  /\ UNCHANGED <<up, root, tag, procs, diskVars>>

StartOther ==
  /\ At("start") /\ op.action \notin Detaching \cup {"build", "deploy"}
  /\ Goes("command")
  /\ UNCHANGED <<up, root, tag, forward, connected, procs, diskVars>>

Killed(f) ==
  [p \in Forwards |-> IF p = f /\ procs[p] = "running" THEN "killed" ELSE procs[p]]

(* cmd.Process.Kill of stopForward, and on to what follows it. *)
KillForward ==
  /\ At("kill") \/ At("abort")
  /\ procs' = Killed(op.own)
  /\ CASE op.at = "abort" \/ op.action = "disconnect" -> Ends
       [] op.at = "kill" /\ op.action = "connect" -> op' = [op EXCEPT !.at = "listen", !.own = None]
       [] OTHER -> op' = [op EXCEPT !.at = "command", !.own = None]
  /\ UNCHANGED <<up, root, tag, forward, connected, diskVars>>

Command == Script[op.action][op.step]

(* What a command changes outside the console when it gets far enough. *)
Install == deployed' = IF Command = "helm-install" THEN tag
                       ELSE IF Command = "clean" THEN NoTag ELSE deployed

(* Only a command that starts before the context ends can succeed. *)
CommandSucceeds ==
  /\ At("command") /\ op.live
  /\ Install
  /\ built' = IF Command = "minikube-load" THEN built \cup {tag} ELSE built
  /\ IF op.step < Len(Script[op.action]) THEN op' = [op EXCEPT !.step = @ + 1]
     ELSE IF op.action \in {"build", "remove"} THEN Goes("finish")
     ELSE Ends
  /\ UNCHANGED <<up, root, tag, forward, connected, procs, saved, tags>>

(* Mutant: a failed build keeps its new tag. *)
Reverted_Keeps == tag

(* The tag after a failed command. *)
Reverted == IF op.action = "build" THEN saved[root] ELSE tag

(* The command fails, or is killed with its process group once the context *)
(* ends; what it changes may have happened all the same.                   *)
CommandFails ==
  /\ At("command")
  /\ Install \/ UNCHANGED deployed
  /\ tag' = Reverted
  /\ Ends
  /\ UNCHANGED <<up, root, forward, connected, procs, saved, built, tags>>

(* The tag file: written, not writable, or cut short and then unreadable. *)
SaveTag ==
  /\ At("finish") /\ op.action = "build"
  /\ \E t \in {tag, saved[root], NoTag} : saved' = [saved EXCEPT ![root] = t]
  /\ Ends
  /\ UNCHANGED <<up, root, tag, forward, connected, procs, built, deployed, tags>>

(* The tag file is removed, and then the tag; or the file cannot be. *)
ForgetTag ==
  /\ At("finish") /\ op.action = "remove"
  /\ \/ saved' = [saved EXCEPT ![root] = NoTag] /\ tag' = NoTag
     \/ UNCHANGED <<saved, tag>>
  /\ Ends
  /\ UNCHANGED <<up, root, forward, connected, procs, built, deployed, tags>>

-----------------------------------------------------------------------------
(* connect *)

(* A port is chosen and kubectl started, or not. *)
StartForward ==
  /\ At("listen")
  /\ \/ Ends /\ UNCHANGED procs
     \/ \E f \in Forwards :
          /\ procs[f] = "none"
          /\ procs' = [procs EXCEPT ![f] = "running"]
          /\ op' = [op EXCEPT !.at = "attach", !.own = f]
  /\ UNCHANGED <<up, root, tag, forward, connected, diskVars>>

(* s.forward = cmd, and the goroutine that waits for the process. *)
Attach ==
  /\ At("attach")
  /\ forward' = op.own
  /\ Goes("probe")
  /\ UNCHANGED <<up, root, tag, connected, procs, diskVars>>

(* /readyz answers 200. *)
Answered ==
  /\ At("probe") /\ procs[op.own] = "running"
  /\ Goes("answered")
  /\ UNCHANGED <<up, root, tag, forward, connected, procs, diskVars>>

(* The port is set, whatever became of the process since. *)
SetPort ==
  /\ At("answered")
  /\ connected' = TRUE
  /\ Ends
  /\ UNCHANGED <<up, root, tag, forward, procs, diskVars>>

(* The context ends, or 60 probes were in vain. *)
NotReady ==
  /\ At("probe")
  /\ Detach("abort")
  /\ UNCHANGED <<up, root, tag, procs, diskVars>>

-----------------------------------------------------------------------------
(* The port-forward processes and the goroutines that wait for them *)

Dies(f) ==
  /\ procs[f] \in {"running", "killed", "orphan"}
  /\ procs' = [procs EXCEPT ![f] = IF @ = "orphan" \/ up = "down" THEN "none" ELSE "exited"]
  /\ UNCHANGED <<up, root, tag, forward, connected, op, diskVars>>

(* Mutant: the waiter does not look whose forward it clears. *)
Current_Any(f) == TRUE

(* s.forward == cmd *)
Current(f) == forward = f

(* cmd.Wait returned.  The goroutine starts once the forward is attached. *)
Waiter(f) ==
  /\ procs[f] = "exited"
  /\ ~(At("attach") /\ op.own = f)
  /\ procs' = [procs EXCEPT ![f] = "none"]
  /\ IF Current(f) THEN forward' = None /\ connected' = FALSE ELSE UNCHANGED <<forward, connected>>
  /\ UNCHANGED <<up, root, tag, op, diskVars>>

-----------------------------------------------------------------------------
(* main *)

(* The signal: the operation is cancelled and the forward stopped. *)
Quit ==
  /\ up = "serving"
  /\ up' = "quitting"
  /\ op' = IF op = None THEN None ELSE [op EXCEPT !.live = FALSE]
  /\ forward' = None /\ connected' = FALSE
  /\ procs' = Killed(forward)
  /\ UNCHANGED <<root, tag, diskVars>>

(* Shutdown returns and main with it: no goroutine goes on.  A command in  *)
(* progress may run on by itself, and a forward that was not attached.     *)
Exit ==
  /\ up = "quitting"
  /\ up' = "down"
  /\ op' = None
  /\ IF At("command") THEN Install \/ UNCHANGED deployed ELSE UNCHANGED deployed
  /\ forward' = None /\ connected' = FALSE
  /\ procs' = [f \in Forwards |-> CASE procs[f] = "running" -> "orphan"
                                    [] procs[f] = "exited" -> "none"
                                    [] OTHER -> procs[f]]
  /\ UNCHANGED <<root, tag, saved, built, tags>>

Restart ==
  /\ up = "down"
  /\ up' = "serving"
  /\ root' \in Roots
  /\ tag' = saved[root']
  /\ UNCHANGED <<forward, connected, op, procs, diskVars>>

-----------------------------------------------------------------------------
ConsoleInit ==
  /\ up = "serving"
  /\ root \in Roots /\ tag = NoTag
  /\ forward = None /\ connected = FALSE
  /\ op = None
  /\ procs = [f \in Forwards |-> "none"]
  /\ saved = [r \in Roots |-> NoTag]
  /\ built = {} /\ deployed = NoTag /\ tags = 0

Start == StartBuild \/ StartDeploy \/ StartDetaching \/ StartOther

Connect == StartForward \/ Attach \/ Answered \/ SetPort \/ NotReady

ConsoleNext ==
  \/ \E a \in Actions, r \in Roots : Post(a, r)
  \/ Cancel \/ Timeout
  \/ Start \/ KillForward
  \/ CommandSucceeds \/ CommandFails \/ SaveTag \/ ForgetTag
  \/ Connect
  \/ \E f \in Forwards : Dies(f) \/ Waiter(f)
  \/ Quit \/ Exit \/ Restart

ConsoleSpec == ConsoleInit /\ [][ConsoleNext]_consoleVars

(* The goroutine runs, timers fire, and a command whose process group was  *)
(* killed ends.  A command whose context is alive may hang.                *)
LiveConsoleSpec ==
  /\ ConsoleSpec
  /\ WF_consoleVars(Timeout)
  /\ WF_consoleVars(\/ Start \/ KillForward \/ SaveTag \/ ForgetTag
                    \/ StartForward \/ Attach \/ SetPort \/ NotReady
                    \/ (op # None /\ ~op.live /\ CommandFails))

-----------------------------------------------------------------------------
(* No port-forward gets lost while the console serves: a live one is the   *)
(* one disconnect and stop would kill, or the operation is just attaching  *)
(* or killing it, however its death, a reconnect, a cancel and the waiters *)
(* of earlier ones fall.                                                   *)
ForwardsOwned ==
  up = "serving" => \A f \in Forwards : procs[f] = "running" =>
    forward = f \/ (op # None /\ op.own = f /\ op.at \in {"attach", "kill", "abort"})

(* What helm installs was built and loaded completely, under this tag, at  *)
(* some time: through failed and cancelled builds, changes of repository,  *)
(* tag files that could not be written, and restarts.                      *)
DeployedWasBuilt == deployed # NoTag => deployed \in built

(* Every operation ends and lets the next one in, also when its command    *)
(* hangs.                                                                  *)
OperationEnds == op # None ~> op = None

=============================================================================
